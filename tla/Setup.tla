------------------------------- MODULE Setup --------------------------------
(***************************************************************************)
(* qa_copilot/setup: the page that connects an application, and what its   *)
(* submissions write.  The page's server has a thread for every request    *)
(* and one status for all of them; each submission reads and writes the    *)
(* configuration files one after the other, without a lock.  The assistant *)
(* may open the page in a second tab, and the host may stop the process,   *)
(* threads and all.                                                        *)
(*                                                                         *)
(* A step is what happens between two accesses to what threads share: a    *)
(* file or the status.  path.write_text is two: the file is emptied when   *)
(* it is opened, and filled when it is written.                            *)
(***************************************************************************)
EXTENDS Naturals, Sequences, FiniteSets

CONSTANTS
    MaxForms,       \* bound: requests to /submit and /fill, and scripted runs
    Forms,          \* what they may contain: [kind, environment, account];
                    \* "script" is the wizard run by the launcher, with no page
    Given,          \* accounts configured by hand that lack their secrets: [name, environment]
    Workspaces,     \* what a workspace may begin with: [allowed, rigid], the allow-list (an empty
                    \* one allows everything), and the files that nothing can be appended to
    Overlap,        \* environment: a form may be sent while another is being handled
    Stops           \* environment: the process may be stopped

ASSUME SetupAssumption ==
    /\ MaxForms \in Nat
    /\ \A f \in Forms :
        /\ f = [kind |-> f.kind, environment |-> f.environment, account |-> f.account]
        /\ f.kind \in {"account", "public", "fill", "script"}
    /\ \A i \in Given : i = [name |-> i.name, environment |-> i.environment]
    /\ \A i, j \in Given : i.name = j.name => i = j
    /\ \A w \in Workspaces : w.rigid \subseteq {"environments", "identities", "allowed"}
    /\ Overlap \in BOOLEAN /\ Stops \in BOOLEAN

VARIABLES
    pc,             \* where each submission is
    form,           \* what it contains
    name,           \* the account's name, as it was chosen
    at,             \* the position of the file it works on in its order of files
    seen,           \* what it read from that file
    result,         \* what became of it
    answer,         \* what it was answered: a status
    status,         \* session.status: [state, of]
    files,          \* what the files hold
    torn,           \* for each file: the forms sent until a write of it was cut short, if one was
    rigid           \* the files that nothing can be appended to

\* The forms, by the order in which they are sent.
Submissions == 1 .. MaxForms
Nobody == 0

threadVars == <<pc, form, name, at, seen, result, answer>>
vars == <<threadVars, status, files, torn, rigid>>

Names == {"secrets", "environments", "identities", "allowed"}
NoForm == [kind |-> "none", environment |-> "none", account |-> "none"]

\* A page that has been answered, or whose server is gone, or that was never sent.
AtRest == {"off", "answered", "dead"}
Busy(s) == pc[s] \notin AtRest

Init ==
    /\ pc = [s \in Submissions |-> "off"]
    /\ form = [s \in Submissions |-> NoForm]
    /\ name = [s \in Submissions |-> <<>>]
    /\ at = [s \in Submissions |-> 1]
    /\ seen = [s \in Submissions |-> {}]
    /\ result = [s \in Submissions |-> "none"]
    /\ answer = [s \in Submissions |-> [state |-> "none", of |-> Nobody]]
    /\ status = [state |-> "waiting", of |-> Nobody]
    /\ \E w \in Workspaces :
        /\ files = [secrets |-> {}, identities |-> Given, allowed |-> w.allowed,
                    environments |-> {[i EXCEPT !.name = <<>>] : i \in Given}]
        /\ rigid = w.rigid
    /\ torn = [file \in Names |-> {}]

-----------------------------------------------------------------------------
\* What is written, and where.

\* Mutant of Order: the account before what it refers to.
OrderIdentityFirst(kind) ==
    CASE kind \in {"account", "script"} -> <<"identities", "secrets", "environments", "allowed">>
      [] kind = "public" -> <<"environments", "allowed">>
      [] kind = "fill" -> <<"secrets">>
      [] OTHER -> <<>>

\* The files of each kind of submission, in the order they are written.
Order(kind) ==
    CASE kind \in {"account", "script"} -> <<"secrets", "environments", "identities", "allowed">>
      [] kind = "public" -> <<"environments", "allowed">>
      [] kind = "fill" -> <<"secrets">>
      [] OTHER -> <<>>

File(s) == Order(form[s].kind)[at[s]]

\* An environment's entry, in environments.yaml and in the allow-list.
Place(e) == [name |-> <<>>, environment |-> e]

\* What a submission adds to a file.
Entry(s, file) ==
    IF file \in {"secrets", "identities"}
      THEN [name |-> name[s], environment |-> form[s].environment]
      ELSE Place(form[s].environment)

\* Identities are found by their name alone.
Taken(s, file, content) ==
    IF file = "identities" THEN \E i \in content : i.name = name[s]
                           ELSE Entry(s, file) \in content

\* free_account_name: the name asked for, qualified by the environment, or numbered too.
FreeName(f, identities) ==
    LET free(n) == \A i \in identities : i.name # n
        plain == <<f.account>>
        qualified == <<f.environment, f.account>>
        numbers == {n \in 2 .. (Cardinality(identities) + 2) : free(Append(qualified, n))}
    IN  IF free(plain) THEN plain
        ELSE IF free(qualified) THEN qualified
        ELSE Append(qualified, CHOOSE n \in numbers : \A k \in numbers : n <= k)

-----------------------------------------------------------------------------
\* A submission.

Goto(s, where) == pc' = [pc EXCEPT ![s] = where]
From(s, here) == pc[s] = here

Fail(s) ==
    /\ result' = [result EXCEPT ![s] = "failed"]
    /\ Goto(s, "finishing")

\* The next one to be sent.
IsNext(s) == From(s, "off") /\ \A t \in 1 .. s - 1 : ~From(t, "off")

\* The request is authorised; the one status says that something runs.
Submit(s, f) ==
    /\ IsNext(s) /\ f.kind # "script"
    /\ Overlap \/ ~\E t \in Submissions : Busy(t)
    /\ form' = [form EXCEPT ![s] = f]
    /\ status' = [state |-> "running", of |-> s]
    /\ Goto(s, CASE f.kind = "account" -> "choosing"
                 [] f.kind = "fill" -> "knowing"
                 [] OTHER -> "reading")
    /\ UNCHANGED <<name, at, seen, result, answer, files, torn, rigid>>

\* The launcher runs the wizard with the answers of the host's settings, before it starts the
\* server: no page is there, nor a status.
RunScript(s, f) ==
    /\ IsNext(s) /\ f.kind = "script" /\ ~\E t \in Submissions : Busy(t)
    /\ form' = [form EXCEPT ![s] = f]
    /\ status' = [state |-> "waiting", of |-> Nobody]
    /\ Goto(s, "choosing")
    /\ UNCHANGED <<name, at, seen, result, answer, files, torn, rigid>>

\* A field is missing, or the address is not one: noticed before any file is read.
Incomplete(s) ==
    /\ \/ pc[s] \in {"choosing", "knowing"}
       \/ From(s, "reading") /\ form[s].kind = "public" /\ at[s] = 1
    /\ Fail(s)
    /\ UNCHANGED <<form, name, at, seen, answer, status, files, torn, rigid>>

ChooseName(s) ==
    /\ From(s, "choosing")
    /\ name' = [name EXCEPT ![s] = FreeName(form[s], files.identities)]
    /\ Goto(s, "checking")
    /\ UNCHANGED <<form, at, seen, result, answer, status, files, torn, rigid>>

\* Mutant of CheckEnvironment: left to append_under_key.
CheckNothing(s) ==
    /\ From(s, "checking")
    /\ Goto(s, "looking") /\ UNCHANGED result
    /\ UNCHANGED <<form, name, at, seen, answer, status, files, torn, rigid>>

\* The environment must be new.
CheckEnvironment(s) ==
    /\ From(s, "checking")
    /\ IF Place(form[s].environment) \in files.environments
         THEN Fail(s)
         ELSE Goto(s, "looking") /\ UNCHANGED result
    /\ UNCHANGED <<form, name, at, seen, answer, status, files, torn, rigid>>

\* The form is found, and then the name must be new; or no form is found, or no browser.
CheckName(s) ==
    /\ From(s, "looking")
    /\ \/ /\ ~Taken(s, "identities", files.identities)
          /\ Goto(s, "signing") /\ UNCHANGED result
       \/ Fail(s)
    /\ UNCHANGED <<form, name, at, seen, answer, status, files, torn, rigid>>

\* An account that is configured, whose secrets are to be filled in: where it signs in is
\* what its entry says.
KnowAccount(s) ==
    /\ From(s, "knowing")
    /\ \/ \E i \in files.identities :
           /\ i.name = <<form[s].account>>
           /\ name' = [name EXCEPT ![s] = i.name]
           /\ form' = [form EXCEPT ![s].environment = i.environment]
           /\ Goto(s, "signing") /\ UNCHANGED result
       \/ /\ \A i \in files.identities : i.name # <<form[s].account>>
          /\ Fail(s) /\ UNCHANGED <<form, name>>
    /\ UNCHANGED <<at, seen, answer, status, files, torn, rigid>>

\* The account's environment, which its sign-in needs, is not in the file.
Unknown(s) == form[s].kind = "fill" /\ Place(form[s].environment) \notin files.environments

\* The details are tried in a real browser before anything is written: the wizard's, after
\* which it looks at what a wrong password shows ...
SignIn(s) ==
    /\ From(s, "signing") /\ form[s].kind # "fill"
    /\ \/ Goto(s, "reading") /\ UNCHANGED result
       \/ Fail(s)
    /\ UNCHANGED <<form, name, at, seen, answer, status, files, torn, rigid>>

\* ... and those of an account that is there, by the recipe of its environment.  No recipe, no
\* browser yet and a refused sign-in are all answered, and nothing is saved.
VerifyLogin(s) ==
    /\ From(s, "signing") /\ form[s].kind = "fill" /\ ~Unknown(s)
    /\ \/ Goto(s, "reading") /\ UNCHANGED result
       \/ Fail(s)
    /\ UNCHANGED <<form, name, at, seen, answer, status, files, torn, rigid>>

\* An entry that is there already is not written again; and one that, appended, would not be
\* under its key is not written at all (entries indented otherwise, another key behind them).
Refused(s) == File(s) # "allowed" /\ (Taken(s, File(s), files[File(s)]) \/ File(s) \in rigid)

\* An empty allow-list allows everything, and is not narrowed; one that is not written on a
\* line in brackets is left as it is, and nobody is told.
NotNeeded(s) ==
    /\ File(s) = "allowed"
    /\ files.allowed = {} \/ Taken(s, "allowed", files.allowed) \/ "allowed" \in rigid

\* Mutant of Raise: nobody catches the exception, the connection closes unanswered.
RaiseUncaught(s) ==
    /\ form[s].kind = "fill"
    /\ \/ From(s, "signing") /\ Unknown(s)
       \/ From(s, "reading") /\ Refused(s)
    /\ Goto(s, "gone")
    /\ UNCHANGED <<form, name, at, seen, result, answer, status, files, torn, rigid>>

\* An exception of fill_existing (an unknown environment, or append_secrets's) reaches do_POST,
\* which answers without the status.
Raise(s) ==
    /\ form[s].kind = "fill"
    /\ \/ From(s, "signing") /\ Unknown(s)
       \/ From(s, "reading") /\ Refused(s)
    /\ result' = [result EXCEPT ![s] = "failed"]
    /\ answer' = [answer EXCEPT ![s] = [state |-> "failed", of |-> s]]
    /\ Goto(s, "answered")
    /\ UNCHANGED <<form, name, at, seen, status, files, torn, rigid>>

\* Mutant of NextFile: one file too many.
OneFileMore(s) ==
    /\ at' = [at EXCEPT ![s] = @ + 1]
    /\ IF at[s] > Len(Order(form[s].kind))
         THEN result' = [result EXCEPT ![s] = "done"] /\ Goto(s, "finishing")
         ELSE Goto(s, "reading") /\ UNCHANGED result

\* The next file, or the end.
NextFile(s) ==
    /\ at' = [at EXCEPT ![s] = @ + 1]
    /\ IF at[s] = Len(Order(form[s].kind))
         THEN result' = [result EXCEPT ![s] = "done"] /\ Goto(s, "finishing")
         ELSE Goto(s, "reading") /\ UNCHANGED result

\* A file is read, to be written back with the entry.
Read(s) ==
    /\ From(s, "reading")
    /\ \/ /\ Refused(s) /\ form[s].kind # "fill"
          /\ Fail(s) /\ UNCHANGED <<at, seen>>
       \/ /\ NotNeeded(s)
          /\ NextFile(s) /\ UNCHANGED seen
       \/ /\ ~Refused(s) /\ ~NotNeeded(s)
          /\ seen' = [seen EXCEPT ![s] = files[File(s)]]
          /\ Goto(s, "writing") /\ UNCHANGED <<at, result>>
    /\ UNCHANGED <<form, name, answer, status, files, torn, rigid>>

\* write_text opens the file, which empties it ...
Open(s) ==
    /\ From(s, "writing")
    /\ files' = [files EXCEPT ![File(s)] = {}]
    /\ Goto(s, "filling")
    /\ UNCHANGED <<form, name, at, seen, result, answer, status, torn, rigid>>

\* Mutant of Fill: only the new entry.
FillAnew(s) ==
    /\ From(s, "filling")
    /\ files' = [files EXCEPT ![File(s)] = {Entry(s, File(s))}]
    /\ seen' = [seen EXCEPT ![s] = {}]
    /\ NextFile(s)
    /\ UNCHANGED <<form, name, answer, status, torn, rigid>>

\* ... and writes what was read with the new entry behind it.
Fill(s) ==
    /\ From(s, "filling")
    /\ files' = [files EXCEPT ![File(s)] = seen[s] \cup {Entry(s, File(s))}]
    /\ seen' = [seen EXCEPT ![s] = {}]
    /\ NextFile(s)
    /\ UNCHANGED <<form, name, answer, status, torn, rigid>>

\* The result becomes the status, and the status, whosever it is by then, the answer.
Finish(s) ==
    /\ From(s, "finishing") /\ form[s].kind # "script"
    /\ status' = [state |-> result[s], of |-> s]
    /\ Goto(s, "answering")
    /\ UNCHANGED <<form, name, at, seen, result, answer, files, torn, rigid>>

Answer(s) ==
    /\ From(s, "answering")
    /\ answer' = [answer EXCEPT ![s] = status]
    /\ Goto(s, "answered")
    /\ UNCHANGED <<form, name, at, seen, result, status, files, torn, rigid>>

\* The script has its exit code for an answer.
Exit(s) ==
    /\ From(s, "finishing") /\ form[s].kind = "script"
    /\ answer' = [answer EXCEPT ![s] = [state |-> result[s], of |-> s]]
    /\ Goto(s, "answered")
    /\ UNCHANGED <<form, name, at, seen, result, status, files, torn, rigid>>

\* Nobody has emptied the file to fill it.
Closed(file) == \A s \in Submissions : From(s, "filling") => File(s) # file

\* The threads are daemons.  Another server has a page of its own.
ServerStops ==
    /\ Stops /\ \E s \in Submissions : Busy(s)
    /\ pc' = [s \in Submissions |-> IF Busy(s) THEN "dead" ELSE pc[s]]
    /\ torn' = [file \in Names |-> IF Closed(file) THEN torn[file]
                                   ELSE {s \in Submissions : ~From(s, "off")}]
    /\ status' = [state |-> "waiting", of |-> Nobody]
    /\ seen' = [s \in Submissions |-> {}]
    /\ UNCHANGED <<form, name, at, result, answer, files, rigid>>

Handle(s) ==
    \/ Incomplete(s) \/ ChooseName(s) \/ CheckEnvironment(s) \/ CheckName(s) \/ KnowAccount(s)
    \/ SignIn(s) \/ VerifyLogin(s) \/ Raise(s) \/ Read(s) \/ Open(s) \/ Fill(s) \/ Finish(s)
    \/ Answer(s) \/ Exit(s)

Next ==
    \/ \E s \in Submissions : \/ \E f \in Forms : Submit(s, f) \/ RunScript(s, f)
                              \/ Handle(s)
    \/ ServerStops

Spec == Init /\ [][Next]_vars
\* Every thread goes on, and the application and the browser answer in time or fail.
FairSpec == Spec /\ \A s \in Submissions : WF_vars(Handle(s))

-----------------------------------------------------------------------------
(***************************************************************************)
(* Properties.                                                             *)
(***************************************************************************)

Positions == AtRest \cup {"choosing", "checking", "looking", "knowing", "signing",
                          "reading", "writing", "filling", "finishing", "answering"}
Results == {"none", "failed", "done"}
Statuses == [state : {"none", "waiting", "running", "failed", "done"},
             of : Submissions \cup {Nobody}]

TypeOK ==
    /\ pc \in [Submissions -> Positions]
    /\ \A s \in Submissions : form[s].kind \in {"none", "account", "public", "fill", "script"}
    /\ \A s \in Submissions : at[s] \in 1 .. Len(Order(form[s].kind)) + 1
    /\ \A s \in Submissions : pc[s] \in {"reading", "writing", "filling"} =>
           at[s] <= Len(Order(form[s].kind))
    /\ result \in [Submissions -> Results]
    /\ answer \in [Submissions -> Statuses] /\ status \in Statuses
    /\ torn \in [Names -> SUBSET Submissions] /\ rigid \subseteq Names

\* A file is as its last writer meant it to be.
Whole(file) == torn[file] = {} /\ Closed(file)

\* "Check this before anything is written.  The old order wrote the secrets and the
\* environment first and only then discovered the clash, leaving a half-configured workspace
\* behind." (wizard.py:172)  Of forms sent one after the other none is refused halfway for an
\* entry that is there already, whatever an earlier one, finished, refused or cut short by the
\* host, has left in the files.  Only a file that nothing can be appended to, which is noticed
\* when its turn has come (writer.py:63), refuses a form whose secrets are written.
\* (the checks of run_wizard against those of append_secrets and append_under_key)
RefusedUntouched ==
    \A s \in Submissions : result[s] = "failed" =>
        at[s] = 1 \/ Order(form[s].kind)[at[s]] \in rigid

\* An account that the page wrote has an environment to sign in to and its secrets, also if
\* the host stopped the server between two of the files.
\* (the order of the writes at the end of run_wizard)
IdentityIsUsable ==
    (\A file \in Names : Whole(file)) =>
        \A i \in files.identities \ Given :
            i \in files.secrets /\ Place(i.environment) \in files.environments

\* What a form has written stays in the file, whatever is sent, refused or stopped later, and
\* also in a file that an earlier cut has emptied: only the entries of the forms that were sent
\* before a cut may go with it.  A form that is done has its environment in the allow-list, if
\* there is one and it can be appended to.
\* (append_under_key, append_secrets and allow_environment, for forms sent one after the other)
EntriesSurvive ==
    \A s \in Submissions : \A k \in 1 .. at[s] - 1 :
        LET file == Order(form[s].kind)[k] IN
        Closed(file) /\ s \notin torn[file] =>
            \/ Entry(s, file) \in files[file]
            \/ file = "allowed" /\ (files[file] = {} \/ file \in rigid)

\* Every form that was sent is answered, or its server is gone.
\* (do_POST and the exceptions it catches)
EveryFormIsAnswered == \A s \in Submissions : Busy(s) ~> ~Busy(s)
=============================================================================
