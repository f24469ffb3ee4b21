------------------------------ MODULE PlanRuns ------------------------------
(***************************************************************************)
(* Concurrent plan executions inside one MCP server process:               *)
(* QACopilot.run (engine.py), the approval records (policy/engine.py,      *)
(* written by the CLI, another process) and PlanRunner                     *)
(* (executor/runner.py).                                                   *)
(*                                                                         *)
(* The server runs its tool calls as tasks of one event loop.  loop names  *)
(* the task that is executing Python between two suspension points; while  *)
(* it is set no other task of the server moves, but people's commands,     *)
(* which are other processes, do.                                          *)
(*                                                                         *)
(* All calls share ONE PlanRunner, and with it lastApiStatus.              *)
(***************************************************************************)
EXTENDS PolicyGate, FiniteSets

CONSTANTS
    Runs,       \* run_test_plan calls the server receives
    NoRun,      \* the event loop is idle
    NoPlan,     \* a call that has not arrived yet
    Answered    \* the calls whose awaits all end: answered, failed or timed out

ASSUME RunsAssumption ==
    /\ IsFiniteSet(Runs)
    /\ NoRun \notin Runs
    /\ NoPlan \notin Plans
    /\ Answered \subseteq Runs

VARIABLES
    approvals,      \* the fingerprints with a record under state/approvals
    granted,        \* history: the contents people have granted and not withdrawn
    loop,           \* the call whose code the event loop is executing
    lastApiStatus,  \* PlanRunner._last_api_status
    pc,             \* where each call is
    plan,           \* the content each call runs
    results,        \* the runner's per-step entries
    session,        \* the browser session of the call
    verdict,        \* the status the call reported
    audit,          \* audit.jsonl, the one file all calls append to
    server,         \* the server process there is now
    process         \* history: the server process each call arrived at

journal == <<audit, server, process>>

vars == <<approvals, granted, loop, lastApiStatus, pc, plan, results, session,
          verdict, journal>>

humanVars == <<approvals, granted>>

Positions == {"idle", "opening", "stepping", "awaiting", "shooting", "closing",
              "reporting", "done", "lost"}

\* Suspended at an await: the event loop may run somebody else.
Suspended == {"opening", "awaiting", "shooting", "closing"}

\* status and told: what the report says of the step (told: it has a detail);
\* answer: what the step learned from the outside.
Entry == [status : {"passed", "failed", "error"}, told : BOOLEAN,
          answer : Statuses \cup {NoStatus, TextStatus}]

Verdicts == {"none", "passed", "failed", "error", "blocked"}
Events == {"plan.blocked", "plan.start", "plan.error", "plan.finish"}

\* A line of the audit file: it has the name of the plan, not the call it is about.
\* status: of a plan.finish.  pid: no two of the servers have had the same.
Lines == [event : Events, plan : STRING, status : Verdicts, pid : Nat]

TypeOK ==
    /\ approvals \subseteq {Fingerprint(p) : p \in Plans}
    /\ granted \subseteq Plans
    /\ loop \in Runs \cup {NoRun}
    /\ lastApiStatus \in Statuses \cup {NoStatus, TextStatus}
    /\ pc \in [Runs -> Positions]
    /\ plan \in [Runs -> Plans \cup {NoPlan}]
    /\ results \in [Runs -> Seq(Entry)]
    /\ session \in [Runs -> {"none", "open", "closed"}]
    /\ verdict \in [Runs -> Verdicts]
    /\ audit \in Seq(Lines)
    /\ server \in Nat
    /\ process \in [Runs -> Nat]

Init ==
    /\ approvals = {}
    /\ granted = {}
    /\ loop = NoRun
    /\ lastApiStatus = NoStatus
    /\ pc = [r \in Runs |-> "idle"]
    /\ plan = [r \in Runs |-> NoPlan]
    /\ results = [r \in Runs |-> <<>>]
    /\ session = [r \in Runs |-> "none"]
    /\ verdict = [r \in Runs |-> "none"]
    /\ audit = <<>>
    /\ server = 0
    /\ process = [r \in Runs |-> 0]

-----------------------------------------------------------------------------
\* People, at the command line.

\* `qa-copilot approve`, for the fingerprint of a content somebody reviewed.
Approve(p) ==
    /\ approvals' = approvals \cup {Fingerprint(p)}
    /\ granted' = granted \cup {p}
    /\ UNCHANGED <<loop, lastApiStatus, pc, plan, results, session, verdict, journal>>

\* `qa-copilot revoke`; nothing happens when there is no such record.
Revoke(p) ==
    /\ Fingerprint(p) \in approvals
    /\ approvals' = approvals \ {Fingerprint(p)}
    /\ granted' = granted \ {p}
    /\ UNCHANGED <<loop, lastApiStatus, pc, plan, results, session, verdict, journal>>

-----------------------------------------------------------------------------
\* The gate.

Line(event, p, status, pid) ==
    [event |-> event, plan |-> p.name, status |-> status, pid |-> pid]

\* AuditLog.write: one whole line, under a lock of the process.
Log(event, p, status) == audit' = Append(audit, Line(event, p, status, server))

Arrive(r, p) ==
    /\ plan' = [plan EXCEPT ![r] = p]
    /\ process' = [process EXCEPT ![r] = server]
Goto(r, where) == pc' = [pc EXCEPT ![r] = where]

\* The call arrives and the gate refuses it.
Block(r, p) ==
    /\ loop = NoRun /\ pc[r] = "idle"
    /\ ~CanExecute(p, approvals)
    /\ Arrive(r, p)
    /\ verdict' = [verdict EXCEPT ![r] = "blocked"]
    /\ Log("plan.blocked", p, "none")
    /\ Goto(r, "done")
    /\ UNCHANGED <<humanVars, loop, lastApiStatus, results, session, server>>

\* The call arrives, passes the gate and runs up to its first suspension:
\* the browser being opened or, with no browser, its first step.
Start(r, p) ==
    /\ loop = NoRun /\ pc[r] = "idle"
    /\ CanExecute(p, approvals)
    /\ Arrive(r, p)
    /\ lastApiStatus' = NoStatus
    /\ Log("plan.start", p, "none")
    /\ IF NeedsBrowser(p)
         THEN Goto(r, "opening") /\ UNCHANGED loop
         ELSE Goto(r, "stepping") /\ loop' = r
    /\ UNCHANGED <<humanVars, results, session, verdict, server>>

Opened(r) ==
    /\ loop = NoRun /\ pc[r] = "opening"
    /\ loop' = r
    /\ session' = [session EXCEPT ![r] = "open"]
    /\ Goto(r, "stepping")
    /\ UNCHANGED <<humanVars, lastApiStatus, plan, results, verdict, journal>>

\* Mutant of OpenFailed: the audit file is not told.
OpenFailedSilently(r) ==
    /\ loop = NoRun /\ pc[r] = "opening"
    /\ verdict' = [verdict EXCEPT ![r] = "error"]
    /\ Goto(r, "done")
    /\ UNCHANGED <<humanVars, loop, lastApiStatus, plan, results, session, journal>>

\* open_session cleans up after itself, so no session is left behind.
OpenFailed(r) ==
    /\ loop = NoRun /\ pc[r] = "opening"
    /\ verdict' = [verdict EXCEPT ![r] = "error"]
    /\ Log("plan.error", plan[r], "none")
    /\ Goto(r, "done")
    /\ UNCHANGED <<humanVars, loop, lastApiStatus, plan, results, session, server, process>>

-----------------------------------------------------------------------------
\* The steps.

Current(r) == plan[r].steps[Len(results[r]) + 1]
HasNext(r) == Len(results[r]) < Len(plan[r].steps)

\* Mutant of Record: a failed step does not end the run, only an error does.
RecordAndGoOn(r, entry) ==
    /\ results' = [results EXCEPT ![r] = Append(@, entry)]
    /\ IF entry.status # "error" THEN Goto(r, "stepping") /\ loop' = r
       ELSE IF session[r] = "open" THEN Goto(r, "shooting") /\ loop' = NoRun
       ELSE Goto(r, "reporting") /\ loop' = r
    /\ UNCHANGED <<humanVars, plan, session, verdict, journal>>

\* Enter the step in the report.  A step that passed leaves the task running, on
\* to the next step; one that did not ends the steps: a screenshot of the failure
\* if there is a browser to take it, else straight to the report.
Record(r, entry) ==
    /\ results' = [results EXCEPT ![r] = Append(@, entry)]
    /\ IF entry.status = "passed" THEN Goto(r, "stepping") /\ loop' = r
       ELSE IF session[r] = "open" THEN Goto(r, "shooting") /\ loop' = NoRun
       ELSE Goto(r, "reporting") /\ loop' = r
    /\ UNCHANGED <<humanVars, plan, session, verdict, journal>>

\* `assert status` reads the runner's status without suspending.
AssertStatus(r) ==
    /\ loop = r /\ pc[r] = "stepping" /\ HasNext(r)
    /\ Current(r).action = "assert_status"
    /\ Record(r, [status |-> IF lastApiStatus = Current(r).expects THEN "passed" ELSE "failed",
                  told |-> TRUE, answer |-> NoStatus])
    /\ UNCHANGED lastApiStatus

\* The identity or the secret the step names cannot be resolved: an exception
\* before anything is awaited.
CannotResolve(r) ==
    /\ loop = r /\ pc[r] = "stepping" /\ HasNext(r)
    /\ Current(r).action \in {"authenticate", "api_request", "fill_secret"}
    /\ Record(r, [status |-> "error", told |-> TRUE, answer |-> NoStatus])
    /\ UNCHANGED lastApiStatus

\* Every other step is awaited.
Await(r) ==
    /\ loop = r /\ pc[r] = "stepping" /\ HasNext(r)
    /\ Current(r).action # "assert_status"
    /\ loop' = NoRun
    /\ Goto(r, "awaiting")
    /\ UNCHANGED <<humanVars, lastApiStatus, plan, results, session, verdict, journal>>

\* Mutant of ApiAnswered: an answer nothing was expected of is not kept.
ApiAnsweredUnkept(r) ==
    /\ loop = NoRun /\ pc[r] = "awaiting" /\ Current(r).action = "api_request"
    /\ \E answer \in Statuses :
        LET met == Current(r).expects \in {NoStatus, answer} IN
        /\ lastApiStatus' = IF Current(r).expects = answer THEN answer ELSE lastApiStatus
        /\ Record(r, [status |-> IF met THEN "passed" ELSE "failed",
                      told |-> TRUE, answer |-> answer])

\* An API answered.  The runner's status is only replaced when the expectation
\* of the step, if it has one, is met.
ApiAnswered(r) ==
    /\ loop = NoRun /\ pc[r] = "awaiting" /\ Current(r).action = "api_request"
    /\ \E answer \in Statuses :
        LET met == Current(r).expects \in {NoStatus, answer} IN
        /\ lastApiStatus' = IF met THEN answer ELSE lastApiStatus
        /\ Record(r, [status |-> IF met THEN "passed" ELSE "failed",
                      told |-> TRUE, answer |-> answer])

\* Mutant of NoWindowFound: a status of its own, which no report knows.
NoWindowSkipped(r) ==
    /\ loop = NoRun /\ pc[r] = "awaiting" /\ Current(r).action = "switch_window"
    /\ lastApiStatus' = TextStatus
    /\ Record(r, [status |-> "skipped", told |-> FALSE, answer |-> TextStatus])

\* switch_window waited and no window came.  _run_step returns (None, message):
\* the message stands where the API status does, the detail is missing.
NoWindowFound(r) ==
    /\ loop = NoRun /\ pc[r] = "awaiting" /\ Current(r).action = "switch_window"
    /\ lastApiStatus' = TextStatus
    /\ Record(r, [status |-> "passed", told |-> FALSE, answer |-> TextStatus])

\* Any awaited step ends well, fails (an assertion, an element that cannot be
\* resolved) or raises; an API request only raises here (see ApiAnswered).
StepEnded(r) ==
    /\ loop = NoRun /\ pc[r] = "awaiting"
    /\ \E status \in {"passed", "failed", "error"} :
        /\ Current(r).action = "api_request" => status = "error"
        /\ Current(r).action = "pause" => status = "passed"
        /\ Record(r, [status |-> status, told |-> TRUE, answer |-> NoStatus])
    /\ UNCHANGED lastApiStatus

-----------------------------------------------------------------------------
\* The end of a run.

\* Whatever became of the screenshot, the session is closed next.
ShotTaken(r) ==
    /\ loop = NoRun /\ pc[r] = "shooting"
    /\ Goto(r, "closing")
    /\ UNCHANGED <<humanVars, loop, lastApiStatus, plan, results, session, verdict, journal>>

\* Mutant of AllStepsPassed: the browser is closed after a failure only.
PassedUnclosed(r) ==
    /\ loop = r /\ pc[r] = "stepping" /\ ~HasNext(r)
    /\ Goto(r, "reporting")
    /\ UNCHANGED <<humanVars, loop, lastApiStatus, plan, results, session, verdict, journal>>

\* Mutant of AllStepsPassed: closing the browser does not let the loop go.
PassedBlocking(r) ==
    /\ loop = r /\ pc[r] = "stepping" /\ ~HasNext(r)
    /\ Goto(r, IF session[r] = "open" THEN "closing" ELSE "reporting")
    /\ UNCHANGED <<humanVars, loop, lastApiStatus, plan, results, session, verdict, journal>>

AllStepsPassed(r) ==
    /\ loop = r /\ pc[r] = "stepping" /\ ~HasNext(r)
    /\ IF session[r] = "open"
         THEN Goto(r, "closing") /\ loop' = NoRun
         ELSE Goto(r, "reporting") /\ UNCHANGED loop
    /\ UNCHANGED <<humanVars, lastApiStatus, plan, results, session, verdict, journal>>

\* Mutant of Closed: the call is not resumed.
ClosedForGood(r) ==
    /\ loop = NoRun /\ pc[r] = "closing"
    /\ session' = [session EXCEPT ![r] = "closed"]
    /\ Goto(r, "reporting")
    /\ UNCHANGED <<humanVars, loop, lastApiStatus, plan, results, verdict, journal>>

\* BrowserSession.close swallows its own failures.
Closed(r) ==
    /\ loop = NoRun /\ pc[r] = "closing"
    /\ session' = [session EXCEPT ![r] = "closed"]
    /\ loop' = r
    /\ Goto(r, "reporting")
    /\ UNCHANGED <<humanVars, lastApiStatus, plan, results, verdict, journal>>

\* The status of the report is that of its last entry.
Report(r) ==
    /\ loop = r /\ pc[r] = "reporting"
    /\ LET status == results[r][Len(results[r])].status IN
        /\ verdict' = [verdict EXCEPT ![r] = status]
        /\ Log("plan.finish", plan[r], status)
    /\ Goto(r, "done")
    /\ loop' = NoRun
    /\ UNCHANGED <<humanVars, lastApiStatus, plan, results, session, server, process>>

\* The host stops the server: every call in flight is lost, and so is the
\* runner; the approval records and the audit file stay.  The host starts another.
ServerDies ==
    /\ \E r \in Runs : pc[r] \notin {"idle", "done", "lost"}
    /\ loop' = NoRun
    /\ lastApiStatus' = NoStatus
    /\ pc' = [r \in Runs |-> IF pc[r] \in {"idle", "done"} THEN pc[r] ELSE "lost"]
    /\ session' = [r \in Runs |-> IF session[r] = "open" THEN "closed" ELSE session[r]]
    /\ server' = server + 1
    /\ UNCHANGED <<humanVars, plan, results, verdict, audit, process>>

-----------------------------------------------------------------------------

Progress(r) ==
    \/ Opened(r) \/ OpenFailed(r)
    \/ AssertStatus(r) \/ CannotResolve(r) \/ Await(r)
    \/ ApiAnswered(r) \/ NoWindowFound(r) \/ StepEnded(r)
    \/ ShotTaken(r) \/ AllStepsPassed(r) \/ Closed(r) \/ Report(r)

Next ==
    \/ \E p \in Plans : Approve(p) \/ Revoke(p)
    \/ \E r \in Runs, p \in Plans : Block(r, p) \/ Start(r, p)
    \/ \E r \in Runs : Progress(r)
    \/ ServerDies

Spec == Init /\ [][Next]_vars

\* The event loop goes on with the task it executes; a call of Answered is resumed
\* whenever it waits.  Not every await has a timeout (page.title, page.evaluate and
\* browser.close have none), so the other calls may wait for ever.  Nobody has to approve,
\* call or kill anything.
Fairness ==
    /\ \A r \in Runs : WF_vars(loop = r /\ Progress(r))
    /\ \A r \in Answered : WF_vars(Progress(r))
FairSpec == Spec /\ Fairness

-----------------------------------------------------------------------------
(***************************************************************************)
(* Properties.                                                             *)
(***************************************************************************)

Live == {"opening", "stepping", "awaiting", "shooting", "closing", "reporting"}

\* What GatedExecution sees of a call.
Phase(r) ==
    IF pc[r] \in Live THEN "running"
    ELSE IF pc[r] # "done" THEN pc[r]
    ELSE IF verdict[r] = "blocked" THEN "refused"
    ELSE verdict[r]

Gate == INSTANCE GatedExecution WITH
    Permitted <- {p \in Plans : Allowed(p)},
    Guarded <- {p \in Plans : RequiresApproval(p)},
    phase <- [r \in Runs |-> Phase(r)],
    subject <- plan

\* The core implements the promise: no plan begins without the policy's leave and,
\* when it needs one, a person's grant of exactly its content standing at that
\* moment; every call ends once.  (engine.run's gate against approve and revoke.)
GateIsKept == Gate!Spec

\* The records under state/approvals say exactly which contents people granted: no
\* grant or withdrawal for one content leaks to another.  (ApprovalStore, fingerprint)
RecordsMatchGrants == approvals = {Fingerprint(p) : p \in granted}

\* A run that reports "passed" entered a passed entry for every step of the plan; one
\* that reports otherwise after a step stopped at that step, the only one not passed.
\* (PlanRunner.run's loop and its break, over every way a step can end)
ReportIsTrue ==
    \A r \in Runs : pc[r] = "done" /\ results[r] # <<>> =>
        /\ \A i \in 1 .. Len(results[r]) - 1 : results[r][i].status = "passed"
        /\ results[r][Len(results[r])].status = verdict[r]
        /\ verdict[r] = "passed" => Len(results[r]) = Len(plan[r].steps)

\* A browser is open only while its call is between opening and closing it: none
\* outlives its call, however the steps ended.  (the finally of PlanRunner.run)
NoAbandonedBrowser ==
    \A r \in Runs : session[r] = "open" =>
        pc[r] \in {"stepping", "awaiting", "shooting", "closing"}

\* What the audit file has been told of a call.
Told(r) ==
    IF pc[r] = "idle" THEN {}
    ELSE IF verdict[r] = "blocked" THEN {Line("plan.blocked", plan[r], "none", process[r])}
    ELSE {Line("plan.start", plan[r], "none", process[r])} \cup
         (IF pc[r] # "done" THEN {}
          ELSE IF results[r] = <<>> THEN {Line("plan.error", plan[r], "none", process[r])}
          ELSE {Line("plan.finish", plan[r], verdict[r], process[r])})

Written(line) == {i \in DOMAIN audit : audit[i] = line}
Tellers(line) == {r \in Runs : line \in Told(r)}

\* The audit file names no call, but it adds up: of every server process and every name, it
\* has as many refusals and ends of each kind as calls came to them, and the starts without
\* an end are the calls under way in the server there is now or lost with an earlier one.
\* Which of two calls of one name that was, the file cannot say.
\* (audit.write in engine.run and PlanRunner.run, from several calls, over the server's end)
AuditAddsUp ==
    \A line \in {audit[i] : i \in DOMAIN audit} \cup UNION {Told(r) : r \in Runs} :
        Cardinality(Written(line)) = Cardinality(Tellers(line))

StatusAssertionPassed(r, i) ==
    plan[r].steps[i].action = "assert_status" /\ results[r][i].status = "passed"

\* A status assertion right behind a request is about that request, whatever other
\* calls do to the shared status: nothing suspends between the two.
\* (PlanRunner.run and _run_assert under the event loop)
AdjacentStatusIsOwn ==
    \A r \in Runs : \A i \in 2 .. Len(results[r]) :
        /\ StatusAssertionPassed(r, i)
        /\ plan[r].steps[i - 1].action = "api_request"
        => results[r][i - 1].answer = plan[r].steps[i].expects

\* A call whose awaits end reports, or is lost with the server, even while other calls wait
\* for an answer that never comes: no call holds up another.
\* (PlanRunner.run gives the event loop back at everything it waits for)
AnsweredCallsReport == \A r \in Answered : pc[r] \in Live ~> pc[r] \in {"done", "lost"}

\* The strengthening that makes the invariants inductive.
\* The task that executes between two suspensions is the one the loop names.
LoopOwner == \A r \in Runs : (pc[r] \in {"stepping", "reporting"}) <=> (loop = r)

\* A call that arrived runs a content of Plans; what it awaits is a step that suspends;
\* its report has entries once it ends, and never more than the plan has steps.
WithinPlan ==
    \A r \in Runs :
        /\ pc[r] \in {"idle", "opening"} => results[r] = <<>>
        /\ pc[r] # "idle" => plan[r] \in Plans /\ Len(results[r]) <= Len(plan[r].steps)
        /\ pc[r] = "awaiting" => HasNext(r) /\ Current(r).action # "assert_status"
        /\ pc[r] \in {"shooting", "closing", "reporting"} => results[r] # <<>>

\* Right behind its own request the running task finds its own answer in the slot.
FreshAnswer ==
    \A r \in Runs :
        /\ pc[r] = "stepping" /\ results[r] # <<>>
        /\ plan[r].steps[Len(results[r])].action = "api_request"
        => lastApiStatus = results[r][Len(results[r])].answer

\* TypeOK and AdjacentStatusIsOwn with what they need to be inductive.
IndInv == TypeOK /\ LoopOwner /\ WithinPlan /\ FreshAnswer /\ AdjacentStatusIsOwn

\* VIOLATED.  "no api_request has run yet, nothing to assert status on"
\* (runner.py:356): a status assertion passes only on a request of its own run.
StatusNeedsOwnRequest ==
    \A r \in Runs : \A i \in 1 .. Len(results[r]) :
        StatusAssertionPassed(r, i) =>
            \E j \in 1 .. i - 1 : /\ plan[r].steps[j].action = "api_request"
                                  /\ results[r][j].answer = plan[r].steps[i].expects
=============================================================================
