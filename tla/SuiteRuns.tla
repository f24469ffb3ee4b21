------------------------------ MODULE SuiteRuns -----------------------------
(***************************************************************************)
(* Suites over the plan library: QACopilot.run_suite and save_plan         *)
(* (engine.py), PlanLibrary (library.py) and the gate of PolicyGate,       *)
(* evaluated for each plan as it is loaded.  A plan's execution is one     *)
(* step here; PlanRuns has its detail.                                     *)
(*                                                                         *)
(* The suites are calls of one server.  Approvals and saves come from      *)
(* other processes (the CLI, an editor), so a plan file can be seen half   *)
(* written.                                                                *)
(***************************************************************************)
EXTENDS PolicyGate

CONSTANTS
    Suites,     \* run_test_suite calls
    Slugs,      \* file names of the library
    SlugOf,     \* slugify, as a function on the names of Plans
    Requests,   \* what a call may ask for: [names, defined, stop]
    MaxNames,   \* the longest list of names in Requests
    Absent,     \* there is no such file
    Broken,     \* the file is there and is not a plan
    NoPlan      \* nothing is being run, or written

\* defined: the names come from suites.yaml, and must all be in the library.
Request == [names : Seq(Slugs), defined : BOOLEAN, stop : BOOLEAN]
NoRequest == [names |-> <<>>, defined |-> FALSE, stop |-> FALSE]

ASSUME SuitesAssumption ==
    /\ \A p \in Plans : SlugOf[p.name] \in Slugs
    /\ Requests \subseteq Request
    /\ MaxNames \in Nat
    /\ \A q \in Requests : Len(q.names) \in 1 .. MaxNames
    /\ Absent \notin Plans /\ Broken \notin Plans /\ NoPlan \notin Plans /\ Absent # Broken

VARIABLES
    files,      \* the library
    saving,     \* the content each file is being given
    approvals,  \* the fingerprints with a record
    granted,    \* history: the contents people have granted and not withdrawn
    pc,         \* where each suite is
    asked,      \* what each suite was asked
    plan,       \* the content a suite is running
    results,    \* its entries
    overall     \* its verdict

libraryVars == <<files, saving>>
humanVars == <<approvals, granted>>
vars == <<files, saving, approvals, granted, pc, asked, plan, results, overall>>

Slug(p) == SlugOf[p.name]

\* subject: history, the content an entry is about; NoPlan when it was not loaded.
Entry == [status : {"passed", "failed", "error", "blocked"}, subject : Plans \cup {NoPlan}]

TypeOK ==
    /\ files \in [Slugs -> Plans \cup {Absent, Broken}]
    /\ saving \in [Slugs -> Plans \cup {NoPlan}]
    /\ approvals \subseteq {Fingerprint(p) : p \in Plans}
    /\ granted \subseteq Plans
    /\ pc \in [Suites -> {"idle", "going", "running", "done", "refused", "raised", "lost"}]
    /\ asked \in [Suites -> Requests \cup {NoRequest}]
    /\ plan \in [Suites -> Plans \cup {NoPlan}]
    /\ results \in [Suites -> Seq(Entry)]
    /\ overall \in [Suites -> {"none", "passed", "failed"}]

Init ==
    /\ files = [n \in Slugs |-> Absent]
    /\ saving = [n \in Slugs |-> NoPlan]
    /\ approvals = {} /\ granted = {}
    /\ pc = [s \in Suites |-> "idle"]
    /\ asked = [s \in Suites |-> NoRequest]
    /\ plan = [s \in Suites |-> NoPlan]
    /\ results = [s \in Suites |-> <<>>]
    /\ overall = [s \in Suites |-> "none"]

-----------------------------------------------------------------------------
\* People.

Approve(p) ==
    /\ approvals' = approvals \cup {Fingerprint(p)}
    /\ granted' = granted \cup {p}
    /\ UNCHANGED <<libraryVars, pc, asked, plan, results, overall>>

Revoke(p) ==
    /\ Fingerprint(p) \in approvals
    /\ approvals' = approvals \ {Fingerprint(p)}
    /\ granted' = granted \ {p}
    /\ UNCHANGED <<libraryVars, pc, asked, plan, results, overall>>

\* write_text truncates the file and then fills it.
BeginSave(p, overwrite) ==
    LET n == Slug(p) IN
    /\ saving[n] = NoPlan
    /\ files[n] = Absent \/ overwrite
    /\ files' = [files EXCEPT ![n] = Broken]
    /\ saving' = [saving EXCEPT ![n] = p]
    /\ UNCHANGED <<humanVars, pc, asked, plan, results, overall>>

EndSave(n) ==
    /\ saving[n] # NoPlan
    /\ files' = [files EXCEPT ![n] = saving[n]]
    /\ saving' = [saving EXCEPT ![n] = NoPlan]
    /\ UNCHANGED <<humanVars, pc, asked, plan, results, overall>>

\* The saving process is gone; what it truncated stays empty.
AbandonSave(n) ==
    /\ saving[n] # NoPlan
    /\ saving' = [saving EXCEPT ![n] = NoPlan]
    /\ UNCHANGED <<files, humanVars, pc, asked, plan, results, overall>>

-----------------------------------------------------------------------------
\* A suite.

Goto(s, where) == pc' = [pc EXCEPT ![s] = where]

Begin(s, q) ==
    /\ pc[s] = "idle"
    /\ asked' = [asked EXCEPT ![s] = q]
    /\ Goto(s, IF q.defined /\ \E i \in DOMAIN q.names : files[q.names[i]] = Absent
                 THEN "refused" ELSE "going")
    /\ UNCHANGED <<libraryVars, humanVars, plan, results, overall>>

HasNext(s) == Len(results[s]) < Len(asked[s].names)

\* A suite that was asked to stop on failure takes no name after one that did not pass.
Stopped(s) ==
    /\ asked[s].stop
    /\ \E i \in DOMAIN results[s] : results[s][i].status # "passed"

\* The file the suite loads next.
File(s) == files[asked[s].names[Len(results[s]) + 1]]

AtName(s) == pc[s] = "going" /\ HasNext(s) /\ ~Stopped(s)

Enter(s, status, p) ==
    results' = [results EXCEPT ![s] = Append(@, [status |-> status, subject |-> p])]

\* A missing plan is an entry like any other.
NotInLibrary(s) ==
    /\ AtName(s) /\ File(s) = Absent
    /\ Enter(s, "error", NoPlan)
    /\ UNCHANGED <<libraryVars, humanVars, pc, asked, plan, overall>>

\* A file that is not a plan raises what run_suite does not catch: the call ends there,
\* with no verdict, no audit entry and none of its results.
NotAPlan(s) ==
    /\ AtName(s) /\ File(s) = Broken
    /\ Goto(s, "raised")
    /\ UNCHANGED <<libraryVars, humanVars, asked, plan, results, overall>>

\* Mutant of RunNext: the decision is not consulted for a plan from the library.
RunNextTrusted(s) ==
    /\ AtName(s) /\ File(s) \in Plans
    /\ Goto(s, "running") /\ plan' = [plan EXCEPT ![s] = File(s)] /\ UNCHANGED results
    /\ UNCHANGED <<libraryVars, humanVars, asked, overall>>

\* The plan is loaded and the gate decides about what was loaded, without a suspension.
RunNext(s) ==
    /\ AtName(s) /\ File(s) \in Plans
    /\ IF CanExecute(File(s), approvals)
         THEN Goto(s, "running") /\ plan' = [plan EXCEPT ![s] = File(s)] /\ UNCHANGED results
         ELSE Enter(s, "blocked", File(s)) /\ UNCHANGED <<pc, plan>>
    /\ UNCHANGED <<libraryVars, humanVars, asked, overall>>

\* Mutant of Ended: a run that raised is entered with a status no report knows.
EndedAborted(s) ==
    /\ pc[s] = "running"
    /\ \E status \in {"passed", "failed", "aborted"} : Enter(s, status, plan[s])
    /\ plan' = [plan EXCEPT ![s] = NoPlan]
    /\ Goto(s, "going")
    /\ UNCHANGED <<libraryVars, humanVars, asked, overall>>

Ended(s) ==
    /\ pc[s] = "running"
    /\ \E status \in {"passed", "failed", "error"} : Enter(s, status, plan[s])
    /\ plan' = [plan EXCEPT ![s] = NoPlan]
    /\ Goto(s, "going")
    /\ UNCHANGED <<libraryVars, humanVars, asked, overall>>

Count(s, status) == {i \in DOMAIN results[s] : results[s][i].status = status}

\* Mutant of AllPassed: what was blocked has not failed.
NoneFailed(s) == Count(s, "failed") = {} /\ Count(s, "error") = {}

\* counts["passed"] == len(results) and results
AllPassed(s) == results[s] # <<>> /\ Count(s, "passed") = DOMAIN results[s]

\* Mutant of Finish: the first name that is blocked ends the suite.
FinishAtBlocked(s) ==
    /\ pc[s] = "going"
    /\ ~HasNext(s) \/ Stopped(s) \/ Count(s, "blocked") # {}
    /\ overall' = [overall EXCEPT ![s] = IF AllPassed(s) THEN "passed" ELSE "failed"]
    /\ Goto(s, "done")
    /\ UNCHANGED <<libraryVars, humanVars, asked, plan, results>>

Finish(s) ==
    /\ pc[s] = "going"
    /\ ~HasNext(s) \/ Stopped(s)
    /\ overall' = [overall EXCEPT ![s] = IF AllPassed(s) THEN "passed" ELSE "failed"]
    /\ Goto(s, "done")
    /\ UNCHANGED <<libraryVars, humanVars, asked, plan, results>>

ServerDies ==
    /\ \E s \in Suites : pc[s] \in {"going", "running"}
    /\ pc' = [s \in Suites |-> IF pc[s] \in {"going", "running"} THEN "lost" ELSE pc[s]]
    /\ UNCHANGED <<libraryVars, humanVars, asked, plan, results, overall>>

Next ==
    \/ \E p \in Plans : \/ Approve(p) \/ Revoke(p)
                        \/ \E overwrite \in BOOLEAN : BeginSave(p, overwrite)
    \/ \E n \in Slugs : EndSave(n) \/ AbandonSave(n)
    \/ \E s \in Suites : \/ \E q \in Requests : Begin(s, q)
                         \/ NotInLibrary(s) \/ NotAPlan(s) \/ RunNext(s) \/ Ended(s)
                         \/ Finish(s)
    \/ ServerDies

Spec == Init /\ [][Next]_vars

-----------------------------------------------------------------------------
(***************************************************************************)
(* Properties.                                                             *)
(***************************************************************************)

\* A suite is a sequence of executions, one for each name it was asked to run.
Executions == Suites \X (1 .. MaxNames)

Subject(s, i) ==
    IF i \in DOMAIN results[s] THEN results[s][i].subject
    ELSE IF i = Len(results[s]) + 1 THEN plan[s] ELSE NoPlan

Phase(s, i) ==
    IF Subject(s, i) = NoPlan THEN "idle"
    ELSE IF i \in DOMAIN results[s]
      THEN IF results[s][i].status = "blocked" THEN "refused" ELSE results[s][i].status
    ELSE IF pc[s] = "lost" THEN "lost" ELSE "running"

Gate == INSTANCE GatedExecution WITH
    Runs <- Executions,
    Permitted <- {p \in Plans : Allowed(p)},
    Guarded <- {p \in Plans : RequiresApproval(p)},
    phase <- [e \in Executions |-> Phase(e[1], e[2])],
    subject <- [e \in Executions |-> Subject(e[1], e[2])]

\* "each passes the same gate" (README.md:174): whatever was saved, approved or withdrawn
\* since the suite began, each execution in it is permitted as an execution of its own,
\* by a grant of the content that is run.  (run_suite loads, then run decides)
SuiteKeepsTheGate == Gate!Spec

\* A suite passes exactly when every plan it was asked to run was loaded, permitted,
\* run and passed.  "A blocked plan is never a pass." (docs/MANUAL-TESTING.md:822)
VerdictIsHonest ==
    \A s \in Suites : pc[s] = "done" =>
        (overall[s] = "passed" <=>
            /\ Len(results[s]) = Len(asked[s].names)
            /\ \A i \in DOMAIN results[s] : results[s][i].status = "passed")

\* A suite leaves names out only when it was asked to stop on failure, behind the first
\* that did not pass: a missing or blocked plan "did not stop the other one from running"
\* (docs/MANUAL-TESTING.md:821).
OnlyFailureStops ==
    \A s \in Suites : pc[s] = "done" /\ HasNext(s) =>
        /\ asked[s].stop
        /\ results[s][Len(results[s])].status # "passed"
        /\ \A i \in 1 .. Len(results[s]) - 1 : results[s][i].status = "passed"
=============================================================================
