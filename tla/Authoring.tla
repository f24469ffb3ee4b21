------------------------------ MODULE Authoring -----------------------------
(***************************************************************************)
(* Plain-English files that are run: QACopilot.run_plain (engine.py) over  *)
(* PlainEnglish and PolicyGate, called by the host through run_plain_test  *)
(* (mcp_server.py) or by a person through `qa-copilot run` (cli.py), and   *)
(* the files that `qa-copilot draft` writes from manual test cases, over   *)
(* Drafting.                                                               *)
(*                                                                         *)
(* Each call belongs to a process.  The server is one process for many     *)
(* calls, a terminal command is a process of its own.  A process keeps the *)
(* credentials it has resolved, to redact them from whatever leaves it; a  *)
(* compiled file has left it, in that sense, before its tests are run.     *)
(* A test's execution is one step here; PlanRuns has its detail.           *)
(***************************************************************************)
EXTENDS Drafting, FiniteSets

CONSTANTS
    Calls,
    Processes,
    ProcessOf,      \* the process each call is made to
    Texts,          \* the files people wrote
    Drafts,         \* the drafts asked for: a manual test case and a configured environment
    MaxDrafts,      \* how many of them are made
    MaxTests,       \* the most tests in one of Texts
    CredentialsOf,  \* alias or capability -> the username and password that are resolved
    NoText,         \* nothing has been asked yet
    NoPlan

\* What a command of its own, which has resolved nothing, writes to disk: the lines as they
\* will be read.
FileOf ==
    [d \in Drafts |-> LET lines == Written(DraftPlan(d[1], d[2]))
                      IN  [k \in DOMAIN lines |-> Taken(ScrubLine(lines[k], {}))]]

Files(made) == Texts \cup {FileOf[d] : d \in made}

Secrets == UNION {CredentialsOf[who] : who \in DOMAIN CredentialsOf}

ASSUME AuthoringAssumption ==
    /\ ProcessOf \in [Calls -> Processes]
    /\ Drafts \subseteq Case \X (STRING \ {""})
    /\ Files(Drafts) \subseteq Seq(Lines) /\ NoText \notin Files(Drafts)
    /\ NoPlan \notin Plans
    /\ MaxTests \in Nat /\ MaxDrafts \in Nat
    /\ Redacted \notin Secrets
    /\ \A text \in Files(Drafts) : Understands(text) =>
           /\ PlansOf(text) \in Seq(PlanContent) /\ Len(PlansOf(text)) \in 1 .. MaxTests
           /\ \A i \in DOMAIN PlansOf(text), secrets \in SUBSET Secrets :
                  Scrub(PlansOf(text)[i], secrets) \in Plans

VARIABLES
    drafted,    \* the drafts on disk
    approvals,  \* the fingerprints with a record
    known,      \* what each process has resolved: SecretRegistry
    pc,         \* where each call is
    asked,      \* the file each call was given
    plans,      \* the plans it runs
    results,    \* the reports of those it has come to
    overall,    \* its verdict
    returned    \* the plans it answers with

callVars == <<pc, asked, plans, results, overall, returned>>
vars == <<drafted, approvals, known, callVars>>

Entry == {"passed", "failed", "error", "blocked"}

TypeOK ==
    /\ drafted \subseteq Drafts
    /\ approvals \subseteq {Fingerprint(p) : p \in Plans}
    /\ known \in [Processes -> SUBSET Secrets]
    /\ pc \in [Calls -> {"idle", "going", "running", "done", "refused", "lost", "stopped"}]
    /\ asked \in [Calls -> Files(Drafts) \cup {NoText}]
    /\ plans \in [Calls -> Seq(Plans)]
    /\ results \in [Calls -> Seq(Entry)]
    /\ overall \in [Calls -> {"none", "passed", "failed"}]
    /\ returned \in [Calls -> Seq(Plans)]

Init ==
    /\ drafted = {}
    /\ approvals = {}
    /\ known = [q \in Processes |-> {}]
    /\ pc = [c \in Calls |-> "idle"]
    /\ asked = [c \in Calls |-> NoText]
    /\ plans = [c \in Calls |-> <<>>]
    /\ results = [c \in Calls |-> <<>>]
    /\ overall = [c \in Calls |-> "none"]
    /\ returned = [c \in Calls |-> <<>>]

-----------------------------------------------------------------------------
\* People approve what a check, or a report, told them needs it.

Approve(p) ==
    /\ RequiresApproval(p)
    /\ approvals' = approvals \cup {Fingerprint(p)}
    /\ UNCHANGED <<drafted, known, callVars>>

Revoke(p) ==
    /\ Fingerprint(p) \in approvals
    /\ approvals' = approvals \ {Fingerprint(p)}
    /\ UNCHANGED <<drafted, known, callVars>>

-----------------------------------------------------------------------------
\* `qa-copilot draft --out`: a case that spells out a credential is refused.

Draft(d) ==
    /\ Cardinality(drafted) < MaxDrafts
    /\ ~d[1].literal
    /\ drafted' = drafted \cup {d}
    /\ UNCHANGED <<approvals, known, callVars>>

-----------------------------------------------------------------------------
\* A call.

Goto(c, where) == pc' = [pc EXCEPT ![c] = where]

Known(c) == known[ProcessOf[c]]

ScrubAll(sequence, secrets) == [i \in DOMAIN sequence |-> Scrub(sequence[i], secrets)]

\* compile_plain returns through scrub, and what it returned is what is run.
Begin(c, text) ==
    /\ pc[c] = "idle"
    /\ asked' = [asked EXCEPT ![c] = text]
    /\ IF Understands(text)
         THEN /\ plans' = [plans EXCEPT ![c] = ScrubAll(PlansOf(text), Known(c))]
              /\ Goto(c, "going")
         ELSE UNCHANGED plans /\ Goto(c, "refused")
    /\ UNCHANGED <<drafted, approvals, known, results, overall, returned>>

HasNext(c) == Len(results[c]) < Len(plans[c])
Current(c) == plans[c][Len(results[c]) + 1]

Enter(c, status) == results' = [results EXCEPT ![c] = Append(@, status)]

\* Mutant of RunNext: one approved test in the file lets the others run.
RunNextOfFile(c) ==
    /\ pc[c] = "going" /\ HasNext(c)
    /\ IF \E i \in DOMAIN plans[c] : CanExecute(plans[c][i], approvals)
         THEN Goto(c, "running") /\ UNCHANGED results
         ELSE Enter(c, "blocked") /\ UNCHANGED pc
    /\ UNCHANGED <<drafted, approvals, known, asked, plans, overall, returned>>

\* run decides about the next plan when its turn comes.
RunNext(c) ==
    /\ pc[c] = "going" /\ HasNext(c)
    /\ IF CanExecute(Current(c), approvals)
         THEN Goto(c, "running") /\ UNCHANGED results
         ELSE Enter(c, "blocked") /\ UNCHANGED pc
    /\ UNCHANGED <<drafted, approvals, known, asked, plans, overall, returned>>

\* Whoever the plan signs in as.
Actors(p) == {p.steps[i].who : i \in DOMAIN p.steps} \cap DOMAIN CredentialsOf

\* The run comes to a step that signs in: each secret registers itself when it is resolved.
SignIn(c) ==
    /\ pc[c] = "running"
    /\ \E who \in Actors(Current(c)) :
           known' = [known EXCEPT ![ProcessOf[c]] = @ \cup CredentialsOf[who]]
    /\ UNCHANGED <<drafted, approvals, callVars>>

SignedIn(c) == \A who \in Actors(Current(c)) : CredentialsOf[who] \subseteq Known(c)

\* Mutant of Ended: a run that raised has the status of a report nobody wrote.
EndedAborted(c) ==
    /\ pc[c] = "running"
    /\ \E status \in {"passed", "failed", "aborted"} :
           /\ status = "passed" => SignedIn(c)
           /\ Enter(c, status)
    /\ Goto(c, "going")
    /\ UNCHANGED <<drafted, approvals, known, asked, plans, overall, returned>>

\* The run ends, at whatever step; it passed only past all of them.
Ended(c) ==
    /\ pc[c] = "running"
    /\ \E status \in {"passed", "failed", "error"} :
           /\ status = "passed" => SignedIn(c)
           /\ Enter(c, status)
    /\ Goto(c, "going")
    /\ UNCHANGED <<drafted, approvals, known, asked, plans, overall, returned>>

Count(c, status) == {i \in DOMAIN results[c] : results[c][i] = status}

\* Mutant of AllPassed: a test that waits for its approval has not failed.
NoneFailed(c) == Count(c, "failed") = {} /\ Count(c, "error") = {}

\* counts["passed"] == len(results) and results
AllPassed(c) == results[c] # <<>> /\ Count(c, "passed") = DOMAIN results[c]

\* Mutant of Finish: the plans of the answer were scrubbed when they were compiled.
FinishOnceScrubbed(c) ==
    /\ pc[c] = "going" /\ ~HasNext(c)
    /\ overall' = [overall EXCEPT ![c] = IF AllPassed(c) THEN "passed" ELSE "failed"]
    /\ returned' = [returned EXCEPT ![c] = plans[c]]
    /\ Goto(c, "done")
    /\ UNCHANGED <<drafted, approvals, known, asked, plans, results>>

\* The answer is scrubbed again, with what has become known meanwhile.
Finish(c) ==
    /\ pc[c] = "going" /\ ~HasNext(c)
    /\ overall' = [overall EXCEPT ![c] = IF AllPassed(c) THEN "passed" ELSE "failed"]
    /\ returned' = [returned EXCEPT ![c] = ScrubAll(plans[c], Known(c))]
    /\ Goto(c, "done")
    /\ UNCHANGED <<drafted, approvals, known, asked, plans, results>>

\* The process ends, with its calls and all it knew; a server comes up again for later ones.
ProcessDies(q) ==
    /\ pc' = [c \in Calls |->
                  IF ProcessOf[c] # q THEN pc[c]
                  ELSE CASE pc[c] = "running" -> "lost"
                         [] pc[c] = "going" -> "stopped"
                         [] OTHER -> pc[c]]
    /\ known' = [known EXCEPT ![q] = {}]
    /\ UNCHANGED <<drafted, approvals, asked, plans, results, overall, returned>>

Next ==
    \/ \E p \in Plans : Approve(p) \/ Revoke(p)
    \/ \E d \in Drafts : Draft(d)
    \/ \E c \in Calls : \/ \E text \in Files(drafted) : Begin(c, text)
                        \/ RunNext(c) \/ SignIn(c) \/ Ended(c) \/ Finish(c)
    \/ \E q \in Processes : ProcessDies(q)

Spec == Init /\ [][Next]_vars

-----------------------------------------------------------------------------
(***************************************************************************)
(* Properties.                                                             *)
(***************************************************************************)

\* A call is a sequence of executions, one for each test of its file.
Executions == Calls \X (1 .. MaxTests)

\* Whether call c came to the i-th test of its file.
CameTo(c, i) ==
    \/ i \in DOMAIN results[c]
    \/ i = Len(results[c]) + 1 /\ pc[c] \in {"running", "lost"}

Phase(c, i) ==
    IF ~CameTo(c, i) THEN "idle"
    ELSE IF i \notin DOMAIN results[c] THEN pc[c]
    ELSE IF results[c][i] = "blocked" THEN "refused" ELSE results[c][i]

Gate == INSTANCE GatedExecution WITH
    Runs <- Executions,
    Permitted <- {p \in Plans : Allowed(p)},
    Guarded <- {p \in Plans : RequiresApproval(p)},
    granted <- {p \in Plans : Fingerprint(p) \in approvals},
    phase <- [e \in Executions |-> Phase(e[1], e[2])],
    subject <- [e \in Executions |-> IF CameTo(e[1], e[2]) THEN plans[e[1]][e[2]] ELSE NoPlan]

\* "The same policy gate applies as for a DSL plan" (mcp_server.py:200-201): each test of a file,
\* however many are run in one call and whatever is approved and withdrawn meanwhile, is an
\* execution of its own, permitted by a grant of exactly the content that is run.
FileKeepsTheGate == Gate!Spec

\* A file has passed exactly when every test in it was permitted, run and passed.
\* "A blocked plan is never a pass." (docs/MANUAL-TESTING.md:822)  (run_plain's counts)
FileVerdictIsHonest ==
    \A c \in Calls : pc[c] = "done" =>
        (overall[c] = "passed" <=>
            /\ Len(results[c]) = Len(PlansOf(asked[c]))
            /\ \A i \in DOMAIN results[c] : results[c][i] = "passed")

\* What a process has resolved by the time it answers is in no answer, also when it was
\* another call, or a test further up in the file, that resolved it: the plans in the answer
\* are older than that.  (run_plain scrubs what compile_plain has scrubbed)
SecretsStayInside ==
    [][\A c \in Calls : pc'[c] = "done" /\ pc[c] # "done" =>
           \A i \in DOMAIN returned'[c] : TokensOf(returned'[c][i]) \cap Known(c)' = {}]_vars

JustBegun(c) == pc[c] = "going" /\ results[c] = <<>>

\* The lines between the heading at h and the next.
Below(text, h) == {k \in h + 1 .. Len(text) : \A j \in h + 1 .. k : text[j].kind # "heading"}

\* What some lines say of a key: the last header counts, and a blank one says nothing.
Said(text, lines, key) ==
    LET headers == {k \in lines : text[k].kind = "header" /\ text[k].key = key}
    IN  IF headers = {} THEN "" ELSE text[Max(headers)].value

OrElse(value, otherwise) == IF value = "" THEN otherwise ELSE value

\* A blank `Test:` above no sentence begins no test.
BeginsTest(text, h) ==
    /\ text[h].kind = "heading"
    /\ text[h].name # "" \/ \E k \in Below(text, h) : text[k].kind = "sentence"

\* "Nothing is ever silently ignored." (plain/compiler.py:7)  A file is run only when every
\* sentence of it has become its steps, in the order it was written, and the plan of every
\* heading has what the headers below that heading say, and nothing another says.  (Headers
\* above the first heading are the exception, and those of a blank heading above no
\* sentence: they are forgotten.)
NothingIgnored ==
    \A c \in Calls : JustBegun(c) =>
        LET text == asked[c]
            written == PlansOf(text)
            sentences == {k \in DOMAIN text : text[k].kind = "sentence"}
        IN  /\ Len(plans[c]) = Len(written)
            /\ \A k \in sentences : Understood(text[k])
            /\ FlattenSeq([i \in DOMAIN written |-> written[i].steps]) =
                   FlattenSeq([k \in DOMAIN text |-> IF k \in sentences THEN StepsOf(text[k]) ELSE <<>>])
            /\ \A h \in DOMAIN text : BeginsTest(text, h) =>
                   \E i \in DOMAIN written :
                       /\ written[i].name = OrElse(TestName(text[h].name), "Untitled test")
                       /\ written[i].risk = OrElse(Said(text, Below(text, h), "risk"), "low")
                       /\ written[i].environment =
                              OrElse(Said(text, Below(text, h), "environment"), DefaultEnvironment)

NamesSomebody(steps) == \A i \in DOMAIN steps : steps[i].who # Placeholder

ReadyToRun(plan) ==
    /\ plan.name # "" /\ plan.steps # <<>> /\ NamesSomebody(plan.steps)
    /\ Environments # {} => plan.environment \in Environments

\* The steps whose sentences the grammar takes for what they are.
Clear(steps) == {i \in DOMAIN steps : Gist(SentenceFor(steps[i])) \notin DOMAIN Misread}

ReadsBack(d) ==
    LET plan == Scrub(DraftPlan(d[1], d[2]), {})
        file == FileOf[d]
        back == PlansOf(file)[1]
        clear == Clear(plan.steps)
    IN  /\ Len(SplitTests(file)) = 1
        /\ Understands(file) => ReadyToRun(plan)
        /\ ReadyToRun(plan) /\ clear = DOMAIN plan.steps => Understands(file)
        /\ Understands(file) =>
               /\ back.name = TestName(plan.name) /\ back.environment = plan.environment
               /\ DOMAIN back.steps = DOMAIN plan.steps
               /\ \A i \in clear : back.steps[i] = plan.steps[i]

\* "What comes out here must compile back to the same plan." (plain/writer.py:4-5)  The file of a
\* draft is one test with the draft's environment and its steps in their order, each step the
\* same whose sentence is clear, and with the draft's name but for a test id.  It is understood
\* unless a sentence is not clear or a person has something to do first: give the test a name or
\* a step, say who signs in, or name an environment that policy knows.  (That is as far as the
\* promise is kept: the risk is not written, a test id is dropped, and a step becomes another
\* when its words are taken for something else.)
DraftsReadBack == [][\A d \in drafted' \ drafted : ReadsBack(d)]_vars

AccountedFor(d) ==
    LET case == d[1]
        draft == Drafted(case, d[2])
        Asserts(e) == AssertionFor(e) # <<>> /\ Head(AssertionFor(e)) \in ToSet(draft.steps)
    IN  /\ \A i \in DOMAIN case.steps :
               /\ i \in draft.mapped \/ <<"step", i>> \in draft.todos
               /\ \/ case.steps[i].kind \in {"verify", "other"}
                  \/ case.steps[i].expected = Nothing
                  \/ Asserts(case.steps[i].expected)
                  \/ <<"expectation", i>> \in draft.todos
               /\ case.steps[i].kind = "verify" => Asserts(case.steps[i].checks) \/ <<"step", i>> \in draft.todos
        /\ \A i \in DOMAIN case.expects :
               Asserts(case.expects[i]) \/ <<"result", i>> \in draft.todos

\* "maps the step phrasings it can recognise with high confidence and refuses to guess at the
\* rest, listing them as TODOs" (ingest/drafter.py:3-5)  Each step of the case is mapped or
\* is something to do; what is expected, of the whole or of a step, and what is verified, is an
\* assertion of the draft or something to do, although assertions made twice are dropped.  (What
\* is expected besides of a verification, or of a step that is not understood, is lost.)
DraftsAreAccountedFor == [][\A d \in drafted' \ drafted : AccountedFor(d)]_vars

\* VIOLATED.  What the writer is told while still editing: "someone has to approve it before it can
\* run: qa-copilot approve <fingerprint>" (engine.py:404-405).  A test that is not run for
\* want of an approval does not have that one.
ApprovedAsShownRuns ==
    [][\A c \in Calls :
           Len(results'[c]) > Len(results[c]) /\ results'[c][Len(results'[c])] = "blocked" =>
               LET shown == PlansOf(asked[c])[Len(results'[c])]
               IN  Allowed(shown) => Fingerprint(shown) \notin approvals]_vars
=============================================================================
