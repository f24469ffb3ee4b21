--------------------------- MODULE SetupAssistant ---------------------------
(***************************************************************************)
(* The process that serves the setup page is the assistant's own server.   *)
(* It loads the configuration once, when its first tool is called, and its *)
(* provider looks secrets up in the process's environment, which .env is   *)
(* copied into at that moment and every time the page is shown.  What the  *)
(* page writes and what the process can use are therefore two things; and  *)
(* .env is written with the values as they were typed, but read without    *)
(* the blanks and quotes they begin or end with.                           *)
(***************************************************************************)
EXTENDS Setup

CONSTANT Quoted     \* the accounts with a secret that begins or ends with a blank or a quote

VARIABLES
    known,          \* copilot(): the accounts of the configuration the process has loaded
    environ,        \* os.environ: whose secrets the process has, and how: [account, value]
    filled          \* history: the forms that this process has filled in

assistantVars == <<known, environ, filled>>
allVars == <<vars, assistantVars>>

\* The accounts configured by hand may have been added after the configuration was loaded.
AssistantInit ==
    /\ Init
    /\ known \in {Given, {}}
    /\ environ = {} /\ filled = {}

Idle == ~\E s \in Submissions : Busy(s)

Has(environment) == {x.account : x \in environment}

\* The secrets of an account as the form had them, and as they are read from .env.
Typed(i) == [account |-> i, value |-> "typed"]
AsRead(i) == [account |-> i, value |-> IF i \in Quoted THEN "stripped" ELSE "typed"]

\* load_dotenv: what the environment has already stays.
LoadDotenv(environment) ==
    environment \cup {AsRead(i) : i \in files.secrets \ Has(environment)}

\* A new process, and its first tool call.
Loads ==
    /\ known' = files.identities
    /\ environ' = LoadDotenv({}) /\ filled' = {}

\* pending_identities: what the page offers to complete.
Pending == {i \in files.identities : i \notin Has(LoadDotenv(environ))}

Fills(s) == form[s].kind = "fill" /\ result[s] = "done"

\* Mutant of Export: os.environ.setdefault.
ExportDefault(s) ==
    /\ environ' = IF Fills(s) /\ Entry(s, "secrets") \notin Has(environ)
                    THEN environ \cup {Typed(Entry(s, "secrets"))} ELSE environ
    /\ filled' = IF Fills(s) THEN filled \cup {s} ELSE filled

\* fill_existing sets os.environ, once the file is written: to what was typed and has signed
\* in, also when the page was shown meanwhile and has read the file.
Export(s) ==
    /\ environ' = IF Fills(s)
                    THEN {x \in environ : x.account # Entry(s, "secrets")}
                             \cup {Typed(Entry(s, "secrets"))}
                    ELSE environ
    /\ filled' = IF Fills(s) THEN filled \cup {s} ELSE filled

\* Nothing of the process is read between the file and the environment, nor between the
\* environment and the status.
Settle(s) == Finish(s) /\ Export(s) /\ UNCHANGED known

\* The page is shown, which finds out which accounts are waiting for their secrets.
Render ==
    /\ \A s \in Submissions : Busy(s) => form[s].kind # "script"
    /\ environ' = LoadDotenv(environ)
    /\ UNCHANGED <<vars, known, filled>>

\* open_setup: half an hour after it was started a page is not shown again, but a new one.
OpenAnew ==
    /\ Idle
    /\ status' = [state |-> "waiting", of |-> Nobody]
    /\ UNCHANGED <<threadVars, files, torn, rigid, assistantVars>>

\* The launcher runs the script before the process exists.
Launch(s, f) ==
    /\ RunScript(s, f)
    /\ known' = {} /\ environ' = {} /\ filled' = {}

Started(s) == Exit(s) /\ Loads

\* The host stops the process and starts it again; or cmd_setup, which has seen "done" or has
\* waited half an hour, ends with whatever is still being answered.
Restart == ServerStops /\ Loads

Serve(s) ==
    \/ /\ \/ Incomplete(s) \/ ChooseName(s) \/ CheckEnvironment(s) \/ CheckName(s)
          \/ KnowAccount(s) \/ SignIn(s) \/ VerifyLogin(s) \/ Raise(s) \/ Read(s) \/ Open(s)
          \/ Fill(s) \/ Answer(s)
       /\ UNCHANGED assistantVars
    \/ Settle(s) \/ Started(s)

AssistantNext ==
    \/ \E s \in Submissions, f \in Forms : Submit(s, f) /\ UNCHANGED assistantVars
    \/ \E s \in Submissions, f \in Forms : Launch(s, f)
    \/ \E s \in Submissions : Serve(s)
    \/ Render \/ OpenAnew \/ Restart

AssistantSpec ==
    /\ AssistantInit /\ [][AssistantNext]_allVars
    /\ \A s \in Submissions : WF_allVars(Serve(s))

-----------------------------------------------------------------------------
(***************************************************************************)
(* Properties.                                                             *)
(***************************************************************************)

\* "A running assistant must see the account become usable the moment the page is submitted."
\* (test_the_filled_account_is_usable_without_a_restart)  The process that has filled in an
\* account signs in with the secrets that were tried, if it has heard of the account, and the
\* page does not ask for it again.  So does every later process, through restarts, scripts and
\* other forms in between, but that it has the secrets as .env is read: without the blanks and
\* quotes at their ends.
\* (fill_existing, pending_identities, load_dotenv, copilot)
FilledIsUsable ==
    \A s \in Submissions : LET i == Entry(s, "secrets") IN
        /\ form[s].kind = "fill" /\ answer[s] = [state |-> "done", of |-> s]
        /\ i \in files.identities /\ Whole("secrets")
        /\ \A t \in Submissions : Busy(t) => form[t].kind # "script"
        => /\ i \notin Pending
           /\ i \in known => i \in Has(environ)
           /\ \A x \in environ : x.account = i /\ x.value # "typed" =>
                  i \in Quoted /\ s \notin filled
=============================================================================
