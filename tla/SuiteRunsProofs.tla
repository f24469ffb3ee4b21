--------------------------- MODULE SuiteRunsProofs ---------------------------
(***************************************************************************)
(* Theorems about SuiteRuns, for every library, every set of suites and    *)
(* whatever is saved, approved and withdrawn while they run.               *)
(***************************************************************************)
EXTENDS SuiteRuns, SequenceTheorems, TLAPS

Passed(s, i) == results[s][i].status = "passed"

\* What is being asked, and where a suite is in it.
PlaceFits(s) ==
    /\ pc[s] # "idle" => asked[s] \in Requests
    /\ pc[s] = "idle" => results[s] = <<>> /\ asked[s] = NoRequest
    /\ pc[s] = "running" => plan[s] \in Plans /\ HasNext(s) /\ ~Stopped(s)
    /\ pc[s] \notin {"running", "lost"} => plan[s] = NoPlan
    /\ Len(results[s]) <= Len(asked[s].names)

\* A suite that stops on failure took no name behind one that did not pass, and the verdict is
\* about the entries there are.
VerdictFits(s) ==
    /\ asked[s].stop => \A i \in 1 .. Len(results[s]) - 1 : Passed(s, i)
    /\ pc[s] = "done" =>
        /\ overall[s] = "passed" <=> AllPassed(s)
        /\ ~HasNext(s) \/ Stopped(s)

SuiteFits(s) == PlaceFits(s) /\ VerdictFits(s)
SuiteInv == TypeOK /\ \A s \in Suites : SuiteFits(s)

-----------------------------------------------------------------------------

\* A suite that nothing happened to.
LEMMA UnmovedFits ==
    ASSUME NEW s, SuiteFits(s), pc'[s] = pc[s], asked'[s] = asked[s], plan'[s] = plan[s],
           results'[s] = results[s], overall'[s] = overall[s]
    PROVE  SuiteFits(s)'
BY DEF SuiteFits, PlaceFits, VerdictFits, HasNext, Stopped, AllPassed, Count, Passed

LEMMA MoveKeepsInv ==
    ASSUME SuiteInv, TypeOK', NEW s \in Suites, SuiteFits(s)',
           \A t \in Suites \ {s} :
               /\ pc'[t] = pc[t] /\ asked'[t] = asked[t] /\ plan'[t] = plan[t]
               /\ results'[t] = results[t] /\ overall'[t] = overall[t]
    PROVE  SuiteInv'
BY UnmovedFits DEF SuiteInv

LEMMA RequestFacts ==
    ASSUME NEW q \in Requests
    PROVE  /\ q.names \in Seq(Slugs) /\ Len(q.names) \in 1 .. MaxNames
           /\ q.stop \in BOOLEAN /\ MaxNames \in Nat
BY SuitesAssumption DEF SuitesAssumption, Request

\* What is known of a suite between two names.
LEMMA AtNameFacts ==
    ASSUME SuiteInv, NEW s \in Suites, pc[s] \in {"going", "running"}
    PROVE  /\ results[s] \in Seq(Entry) /\ Len(results[s]) \in Nat
           /\ DOMAIN results[s] = 1 .. Len(results[s])
           /\ asked[s] \in Requests /\ asked[s].names \in Seq(Slugs)
           /\ Len(asked[s].names) \in 1 .. MaxNames /\ MaxNames \in Nat
           /\ Len(results[s]) <= Len(asked[s].names)
           /\ HasNext(s) => Len(results[s]) + 1 \in 1 .. Len(asked[s].names)
<1>1. results[s] \in Seq(Entry) /\ asked[s] \in Requests
  BY DEF SuiteInv, TypeOK, SuiteFits, PlaceFits
<1>2. Len(results[s]) \in Nat /\ DOMAIN results[s] = 1 .. Len(results[s])
  BY <1>1
<1>3. Len(results[s]) <= Len(asked[s].names)
  BY DEF SuiteInv, SuiteFits, PlaceFits
<1> QED
  BY <1>1, <1>2, <1>3, RequestFacts DEF HasNext

\* An entry is added behind those that are there.
LEMMA EnterAppends ==
    ASSUME SuiteInv, NEW s \in Suites, NEW status \in {"passed", "failed", "error", "blocked"},
           NEW p \in Plans \cup {NoPlan}, Enter(s, status, p)
    PROVE  /\ results' \in [Suites -> Seq(Entry)]
           /\ Len(results'[s]) = Len(results[s]) + 1
           /\ \A i \in 1 .. Len(results[s]) : results'[s][i] = results[s][i]
           /\ results'[s][Len(results[s]) + 1] = [status |-> status, subject |-> p]
           /\ \A t \in Suites \ {s} : results'[t] = results[t]
<1> DEFINE e == [status |-> status, subject |-> p]
<1>1. e \in Entry
  BY DEF Entry
<1>2. results[s] \in Seq(Entry) /\ results \in [Suites -> Seq(Entry)]
  BY DEF SuiteInv, TypeOK
<1>3. results' = [results EXCEPT ![s] = Append(results[s], e)]
  BY DEF Enter
<1> HIDE DEF e
<1>4. /\ Append(results[s], e) \in Seq(Entry)
      /\ Len(Append(results[s], e)) = Len(results[s]) + 1
      /\ Append(results[s], e)[Len(results[s]) + 1] = e
      /\ \A i \in 1 .. Len(results[s]) : Append(results[s], e)[i] = results[s][i]
  BY <1>1, <1>2, AppendProperties
<1>5. results'[s] = Append(results[s], e)
  BY <1>2, <1>3
<1> QED
  BY <1>2, <1>3, <1>4, <1>5 DEF e

\* An entry, and then the next name.
LEMMA EnterFits ==
    ASSUME SuiteInv, NEW s \in Suites, NEW status \in {"passed", "failed", "error", "blocked"},
           NEW p \in Plans \cup {NoPlan}, Enter(s, status, p),
           pc[s] \in {"going", "running"}, HasNext(s), ~Stopped(s),
           pc'[s] = "going", plan'[s] = NoPlan, asked'[s] = asked[s]
    PROVE  SuiteFits(s)'
<1> DEFINE n == Len(results[s])
<1>1. /\ n \in Nat /\ DOMAIN results[s] = 1 .. n /\ asked[s] \in Requests
      /\ n + 1 \in 1 .. Len(asked[s].names)
  BY AtNameFacts
<1>2. /\ Len(results'[s]) = n + 1
      /\ \A i \in 1 .. n : results'[s][i] = results[s][i]
  BY EnterAppends
<1>3. PlaceFits(s)'
  BY <1>1, <1>2 DEF PlaceFits
<1>4. asked[s].stop => \A i \in 1 .. n : results[s][i].status = "passed"
  BY <1>1 DEF Stopped
<1>5. VerdictFits(s)'
  BY <1>1, <1>2, <1>4 DEF VerdictFits, Passed
<1> QED
  BY <1>3, <1>5 DEF SuiteFits

LEMMA FileType ==
    ASSUME SuiteInv, NEW s \in Suites, AtName(s)
    PROVE  File(s) \in Plans \cup {Absent, Broken}
<1>1. pc[s] = "going" /\ HasNext(s)
  BY DEF AtName
<1>2. asked[s].names[Len(results[s]) + 1] \in Slugs
  BY <1>1, AtNameFacts
<1> QED
  BY <1>2 DEF File, SuiteInv, TypeOK

LEMMA StepKeepsSuiteInv == SuiteInv /\ [Next]_vars => SuiteInv'
<1> SUFFICES ASSUME SuiteInv, [Next]_vars
             PROVE  SuiteInv'
  OBVIOUS
<1> USE SuitesAssumption DEF SuitesAssumption
<1>1. ASSUME NEW p \in Plans, Approve(p) \/ Revoke(p)
      PROVE  SuiteInv'
  <2>1. TypeOK'
    BY <1>1 DEF SuiteInv, TypeOK, Approve, Revoke, libraryVars
  <2> QED
    BY <1>1, <2>1, UnmovedFits DEF SuiteInv, Approve, Revoke
<1>2. ASSUME NEW p \in Plans, NEW overwrite \in BOOLEAN, BeginSave(p, overwrite)
      PROVE  SuiteInv'
  <2>1. Slug(p) \in Slugs
    BY DEF Slug
  <2>2. TypeOK'
    BY <1>2, <2>1 DEF SuiteInv, TypeOK, BeginSave, humanVars
  <2> QED
    BY <1>2, <2>2, UnmovedFits DEF SuiteInv, BeginSave
<1>3. ASSUME NEW n \in Slugs, EndSave(n) \/ AbandonSave(n)
      PROVE  SuiteInv'
  <2>1. TypeOK'
    BY <1>3 DEF SuiteInv, TypeOK, EndSave, AbandonSave, humanVars
  <2> QED
    BY <1>3, <2>1, UnmovedFits DEF SuiteInv, EndSave, AbandonSave
<1>4. ASSUME NEW s \in Suites, NEW q \in Requests, Begin(s, q)
      PROVE  SuiteInv'
  <2>1. TypeOK'
    BY <1>4 DEF SuiteInv, TypeOK, Begin, Goto, libraryVars, humanVars
  <2>2. /\ results[s] = <<>> /\ results' = results /\ plan'[s] = NoPlan /\ asked'[s] = q
        /\ pc'[s] \in {"refused", "going"}
    BY <1>4 DEF SuiteInv, TypeOK, SuiteFits, PlaceFits, Begin, Goto
  <2>3. SuiteFits(s)'
    BY <2>2, RequestFacts DEF SuiteFits, PlaceFits, VerdictFits, Passed
  <2> QED
    BY <1>4, <2>1, <2>3, MoveKeepsInv DEF SuiteInv, TypeOK, Begin, Goto
<1>5. ASSUME NEW s \in Suites, NotInLibrary(s)
      PROVE  SuiteInv'
  <2>1. /\ pc[s] = "going" /\ HasNext(s) /\ ~Stopped(s) /\ Enter(s, "error", NoPlan)
        /\ UNCHANGED <<libraryVars, humanVars, pc, asked, plan, overall>>
    BY <1>5 DEF NotInLibrary, AtName
  <2>2. TypeOK'
    BY <2>1, EnterAppends DEF SuiteInv, TypeOK, libraryVars, humanVars
  <2>3. SuiteFits(s)'
    BY <2>1, EnterFits DEF SuiteInv, SuiteFits, PlaceFits
  <2> QED
    BY <2>1, <2>2, <2>3, EnterAppends, MoveKeepsInv
<1>6. ASSUME NEW s \in Suites, NotAPlan(s)
      PROVE  SuiteInv'
  <2>1. TypeOK'
    BY <1>6 DEF SuiteInv, TypeOK, NotAPlan, Goto, libraryVars, humanVars
  <2>2. /\ pc[s] = "going" /\ pc'[s] = "raised"
        /\ UNCHANGED <<asked, plan, results, overall>>
        /\ \A t \in Suites \ {s} : pc'[t] = pc[t]
    BY <1>6 DEF SuiteInv, TypeOK, NotAPlan, AtName, Goto
  <2>3. SuiteFits(s)'
    BY <2>2 DEF SuiteInv, SuiteFits, PlaceFits, VerdictFits, Passed
  <2> QED
    BY <2>1, <2>2, <2>3, MoveKeepsInv
<1>7. ASSUME NEW s \in Suites, RunNext(s)
      PROVE  SuiteInv'
  <2>1. /\ pc[s] = "going" /\ HasNext(s) /\ ~Stopped(s) /\ File(s) \in Plans
        /\ UNCHANGED <<libraryVars, humanVars, asked, overall>>
    BY <1>7 DEF RunNext, AtName
  <2>2. CASE CanExecute(File(s), approvals)
    <3>1. /\ pc' = [pc EXCEPT ![s] = "running"] /\ plan' = [plan EXCEPT ![s] = File(s)]
          /\ results' = results
      BY <1>7, <2>2 DEF RunNext, Goto
    <3>2. TypeOK'
      BY <2>1, <3>1 DEF SuiteInv, TypeOK, libraryVars, humanVars
    <3>3. /\ pc'[s] = "running" /\ plan'[s] \in Plans
          /\ \A t \in Suites \ {s} : pc'[t] = pc[t] /\ plan'[t] = plan[t]
      BY <2>1, <3>1 DEF SuiteInv, TypeOK
    <3>4. SuiteFits(s)'
      BY <2>1, <3>1, <3>3 DEF SuiteInv, SuiteFits, PlaceFits, VerdictFits, HasNext, Stopped, Passed
    <3> QED
      BY <2>1, <3>1, <3>2, <3>3, <3>4, MoveKeepsInv
  <2>3. CASE ~CanExecute(File(s), approvals)
    <3>1. Enter(s, "blocked", File(s)) /\ UNCHANGED <<pc, plan>>
      BY <1>7, <2>3 DEF RunNext
    <3>2. TypeOK'
      BY <2>1, <3>1, EnterAppends DEF SuiteInv, TypeOK, libraryVars, humanVars
    <3>3. SuiteFits(s)'
      BY <2>1, <3>1, EnterFits DEF SuiteInv, SuiteFits, PlaceFits
    <3> QED
      BY <2>1, <3>1, <3>2, <3>3, EnterAppends, MoveKeepsInv
  <2> QED
    BY <2>2, <2>3
<1>8. ASSUME NEW s \in Suites, Ended(s)
      PROVE  SuiteInv'
  <2>1. PICK status \in {"passed", "failed", "error"} : Enter(s, status, plan[s])
    BY <1>8 DEF Ended
  <2>2. /\ pc[s] = "running" /\ plan[s] \in Plans /\ HasNext(s) /\ ~Stopped(s)
        /\ plan' = [plan EXCEPT ![s] = NoPlan] /\ pc' = [pc EXCEPT ![s] = "going"]
        /\ UNCHANGED <<libraryVars, humanVars, asked, overall>>
    BY <1>8 DEF Ended, Goto, SuiteInv, SuiteFits, PlaceFits
  <2> DEFINE p == plan[s]
  <2>3. /\ status \in {"passed", "failed", "error", "blocked"} /\ p \in Plans \cup {NoPlan}
        /\ Enter(s, status, p)
    BY <2>1, <2>2
  <2> HIDE DEF p
  <2>4. /\ results' \in [Suites -> Seq(Entry)]
        /\ \A t \in Suites \ {s} : results'[t] = results[t]
    BY <2>3, EnterAppends
  <2>5. TypeOK'
    BY <2>4, <2>2 DEF SuiteInv, TypeOK, libraryVars, humanVars
  <2>6. /\ pc'[s] = "going" /\ plan'[s] = NoPlan
        /\ \A t \in Suites \ {s} : pc'[t] = pc[t] /\ plan'[t] = plan[t]
    BY <2>2 DEF SuiteInv, TypeOK
  <2>7. SuiteFits(s)'
    BY <2>3, <2>2, <2>6, EnterFits
  <2> QED
    BY <2>4, <2>2, <2>5, <2>6, <2>7, MoveKeepsInv
<1>9. ASSUME NEW s \in Suites, Finish(s)
      PROVE  SuiteInv'
  <2>1. /\ pc[s] = "going" /\ (~HasNext(s) \/ Stopped(s))
        /\ pc' = [pc EXCEPT ![s] = "done"]
        /\ overall' = [overall EXCEPT ![s] = IF AllPassed(s) THEN "passed" ELSE "failed"]
        /\ UNCHANGED <<libraryVars, humanVars, asked, plan, results>>
    BY <1>9 DEF Finish, Goto
  <2>2. TypeOK'
    BY <2>1 DEF SuiteInv, TypeOK, libraryVars, humanVars
  <2>3. /\ pc'[s] = "done" /\ (overall'[s] = "passed" <=> AllPassed(s))
        /\ \A t \in Suites \ {s} : pc'[t] = pc[t] /\ overall'[t] = overall[t]
    BY <2>1 DEF SuiteInv, TypeOK
  <2>4. PlaceFits(s)'
    BY <2>1, <2>3 DEF SuiteInv, SuiteFits, PlaceFits
  <2>5. VerdictFits(s)'
    BY <2>1, <2>3
       DEF SuiteInv, SuiteFits, VerdictFits, HasNext, Stopped, AllPassed, Count, Passed
  <2> QED
    BY <2>1, <2>2, <2>3, <2>4, <2>5, MoveKeepsInv DEF SuiteFits
<1>10. ASSUME ServerDies
       PROVE  SuiteInv'
  <2>1. TypeOK'
    BY <1>10 DEF SuiteInv, TypeOK, ServerDies, libraryVars, humanVars
  <2>2. ASSUME NEW s \in Suites
        PROVE  SuiteFits(s)'
    <3>1. /\ pc'[s] = (IF pc[s] \in {"going", "running"} THEN "lost" ELSE pc[s])
          /\ UNCHANGED <<asked, plan, results, overall>>
      BY <1>10 DEF ServerDies
    <3> QED
      BY <3>1 DEF SuiteInv, SuiteFits, PlaceFits, VerdictFits, HasNext, Stopped, AllPassed, Count,
         Passed
  <2> QED
    BY <2>1, <2>2 DEF SuiteInv
<1>11. CASE UNCHANGED vars
  <2>1. TypeOK'
    BY <1>11 DEF vars, SuiteInv, TypeOK
  <2> QED
    BY <1>11, <2>1, UnmovedFits DEF vars, SuiteInv
<1> QED
  BY <1>1, <1>2, <1>3, <1>4, <1>5, <1>6, <1>7, <1>8, <1>9, <1>10, <1>11 DEF Next

LEMMA InitEstablishesSuiteInv == Init => SuiteInv
<1> SUFFICES ASSUME Init
             PROVE  SuiteInv
  OBVIOUS
<1>1. TypeOK
  BY DEF Init, TypeOK
<1>2. ASSUME NEW s \in Suites
      PROVE  SuiteFits(s)
  BY DEF Init, NoRequest, SuiteFits, PlaceFits, VerdictFits, Passed
<1> QED
  BY <1>1, <1>2 DEF SuiteInv

LEMMA SuiteInvHolds == Spec => []SuiteInv
BY InitEstablishesSuiteInv, StepKeepsSuiteInv, PTL DEF Spec

-----------------------------------------------------------------------------
(***************************************************************************)
(* The theorems.                                                           *)
(***************************************************************************)

\* Every variable keeps its type.
THEOREM SuiteTypes == Spec => []TypeOK
<1>1. SuiteInv => TypeOK
  BY DEF SuiteInv
<1> QED
  BY <1>1, SuiteInvHolds, PTL

\* What a suite that is done has, in one place.
LEMMA DoneFacts ==
    ASSUME SuiteInv, NEW s \in Suites, pc[s] = "done"
    PROVE  /\ results[s] \in Seq(Entry) /\ Len(results[s]) \in Nat
           /\ DOMAIN results[s] = 1 .. Len(results[s])
           /\ Len(asked[s].names) \in Nat /\ Len(asked[s].names) >= 1
           /\ Len(results[s]) <= Len(asked[s].names)
           /\ AllPassed(s) <=> results[s] # <<>> /\ \A i \in 1 .. Len(results[s]) : Passed(s, i)
           /\ overall[s] = "passed" <=> AllPassed(s)
           /\ ~HasNext(s) \/ Stopped(s)
<1>1. results[s] \in Seq(Entry) /\ asked[s] \in Requests
  BY DEF SuiteInv, TypeOK, SuiteFits, PlaceFits
<1>2. DOMAIN results[s] = 1 .. Len(results[s]) /\ Len(results[s]) \in Nat
  BY <1>1
<1>3. AllPassed(s) <=> results[s] # <<>> /\ \A i \in 1 .. Len(results[s]) : Passed(s, i)
  BY <1>2 DEF AllPassed, Count, Passed
<1> QED
  BY <1>1, <1>2, <1>3, RequestFacts DEF SuiteInv, SuiteFits, PlaceFits, VerdictFits

\* A suite that says "passed" ran everything it was asked to run, and all of it passed.
THEOREM VerdictsAreHonest == Spec => []VerdictIsHonest
<1>1. ASSUME SuiteInv, NEW s \in Suites, pc[s] = "done"
      PROVE  overall[s] = "passed" <=>
                 /\ Len(results[s]) = Len(asked[s].names)
                 /\ \A i \in DOMAIN results[s] : results[s][i].status = "passed"
  <2>1. CASE overall[s] = "passed"
    <3>1. \A i \in 1 .. Len(results[s]) : Passed(s, i)
      BY <1>1, <2>1, DoneFacts
    <3>2. ~Stopped(s)
      BY <1>1, <3>1, DoneFacts DEF Stopped, Passed
    <3> QED
      BY <1>1, <2>1, <3>1, <3>2, DoneFacts DEF HasNext, Passed
  <2>2. ASSUME Len(results[s]) = Len(asked[s].names),
               \A i \in DOMAIN results[s] : results[s][i].status = "passed"
        PROVE  overall[s] = "passed"
    <3>1. results[s] # <<>>
      BY <1>1, <2>2, DoneFacts
    <3> QED
      BY <1>1, <2>2, <3>1, DoneFacts DEF Passed
  <2> QED
    BY <2>1, <2>2
<1>2. SuiteInv => VerdictIsHonest
  BY <1>1 DEF VerdictIsHonest
<1> QED
  BY <1>2, SuiteInvHolds, PTL

\* Nothing but a failure, in a suite that was asked to stop on one, leaves a name out.
THEOREM NothingElseStops == Spec => []OnlyFailureStops
<1>1. ASSUME SuiteInv, NEW s \in Suites, pc[s] = "done", HasNext(s)
      PROVE  /\ asked[s].stop
             /\ results[s][Len(results[s])].status # "passed"
             /\ \A i \in 1 .. Len(results[s]) - 1 : results[s][i].status = "passed"
  <2>1. Stopped(s)
    BY <1>1, DoneFacts
  <2>2. asked[s].stop /\ \A i \in 1 .. Len(results[s]) - 1 : Passed(s, i)
    BY <1>1, <2>1 DEF Stopped, SuiteInv, SuiteFits, VerdictFits
  <2>3. PICK i \in 1 .. Len(results[s]) : ~Passed(s, i)
    BY <1>1, <2>1, DoneFacts DEF Stopped, Passed
  <2>4. i = Len(results[s])
    BY <1>1, <2>2, <2>3, DoneFacts
  <2> QED
    BY <2>2, <2>3, <2>4 DEF Passed
<1>2. SuiteInv => OnlyFailureStops
  BY <1>1 DEF OnlyFailureStops
<1> QED
  BY <1>2, SuiteInvHolds, PTL

-----------------------------------------------------------------------------
(***************************************************************************)
(* A suite is a sequence of gated executions.                              *)
(***************************************************************************)

\* The records are the grants, as in PlanRuns.
RecordsMatch == approvals = {Fingerprint(p) : p \in granted}

LEMMA RecordsHold == Spec => []RecordsMatch
<1>1. Init => RecordsMatch
  BY DEF Init, RecordsMatch
<1>2. RecordsMatch /\ [Next]_vars => RecordsMatch'
  <2> SUFFICES ASSUME RecordsMatch, [Next]_vars
               PROVE  RecordsMatch'
    OBVIOUS
  <2>1. CASE \E p \in Plans : Approve(p) \/ Revoke(p)
    BY <2>1 DEF RecordsMatch, Approve, Revoke, Fingerprint
  <2>2. CASE ~\E p \in Plans : Approve(p) \/ Revoke(p)
    <3>1. UNCHANGED humanVars
      BY <2>2 DEF Next, BeginSave, EndSave, AbandonSave, Begin, NotInLibrary, NotAPlan, RunNext,
         Ended, Finish, ServerDies, vars, humanVars
    <3> QED
      BY <3>1 DEF RecordsMatch, humanVars
  <2> QED
    BY <2>1, <2>2
<1> QED
  BY <1>1, <1>2, PTL DEF Spec

LEMMA GateAgrees ==
    ASSUME RecordsMatch, NEW p \in Plans
    PROVE  CanExecute(p, approvals) <=> Gate!MayBegin(p)
BY DEF RecordsMatch, CanExecute, Gate!MayBegin, Fingerprint

Phases == [e \in Executions |-> Phase(e[1], e[2])]
Subjects == [e \in Executions |-> Subject(e[1], e[2])]

\* The executions of a suite whose entries and plan stay, and which is not lost now.
LEMMA RestStutters ==
    ASSUME NEW s, NEW i, results'[s] = results[s], plan'[s] = plan[s],
           pc[s] = "lost" <=> pc'[s] = "lost"
    PROVE  Subject(s, i)' = Subject(s, i) /\ Phase(s, i)' = Phase(s, i)
BY DEF Subject, Phase

\* Nothing is to be seen of a step that leaves every suite's entries and plan alone.
LEMMA QuietStutters ==
    ASSUME UNCHANGED <<granted, results, plan>>, \A s \in Suites : pc[s] = "lost" <=> pc'[s] = "lost"
    PROVE  UNCHANGED Gate!vars
<1>1. \A e \in Executions : e[1] \in Suites
  BY DEF Executions
<1>2. Phases' = Phases /\ Subjects' = Subjects
  BY <1>1, RestStutters DEF Phases, Subjects
<1> QED
  BY <1>2 DEF Gate!vars, Phases, Subjects

\* An entry behind the others, of what the suite was running or of a plan it did not run.
LEMMA EntryShows ==
    ASSUME SuiteInv, NEW s \in Suites, NEW status \in {"passed", "failed", "error", "blocked"},
           NEW p \in Plans \cup {NoPlan}, Enter(s, status, p), plan'[s] = NoPlan,
           pc[s] \in {"going", "running"}, pc'[s] # "lost", HasNext(s),
           \A t \in Suites \ {s} : pc'[t] = pc[t] /\ plan'[t] = plan[t]
    PROVE  LET e == <<s, Len(results[s]) + 1>> IN
           /\ e \in Executions
           /\ Subjects[e] = plan[s]
           /\ Phases[e] = IF plan[s] = NoPlan THEN "idle" ELSE "running"
           /\ Subjects' = [Subjects EXCEPT ![e] = p]
           /\ Phases' = [Phases EXCEPT ![e] = IF p = NoPlan THEN "idle"
                                              ELSE IF status = "blocked" THEN "refused" ELSE status]
<1>0. PICK n : n = Len(results[s])
  OBVIOUS
<1> DEFINE e == <<s, n + 1>>
<1>1. /\ n \in Nat /\ DOMAIN results[s] = 1 .. n /\ n + 1 \in 1 .. MaxNames
      /\ Len(asked[s].names) \in 1 .. MaxNames
  BY <1>0, AtNameFacts
<1>2. /\ results' \in [Suites -> Seq(Entry)] /\ Len(results'[s]) = n + 1
      /\ \A i \in 1 .. n : results'[s][i] = results[s][i]
      /\ results'[s][n + 1] = [status |-> status, subject |-> p]
      /\ \A t \in Suites \ {s} : results'[t] = results[t]
  BY <1>0, EnterAppends
<1>3. DOMAIN results'[s] = 1 .. n + 1
  BY <1>2
<1>4. e \in Executions /\ e[1] = s /\ e[2] = n + 1
  BY <1>1 DEF Executions
<1>5. Subjects[e] = plan[s] /\ Phases[e] = IF plan[s] = NoPlan THEN "idle" ELSE "running"
  BY <1>0, <1>1, <1>4 DEF Subjects, Phases, Subject, Phase
<1>6. /\ Subject(s, n + 1)' = p
      /\ Phase(s, n + 1)' = IF p = NoPlan THEN "idle"
                            ELSE IF status = "blocked" THEN "refused" ELSE status
  <2>1. n + 1 \in DOMAIN results'[s]
    BY <1>1, <1>3
  <2>2. results'[s][n + 1].status = status /\ results'[s][n + 1].subject = p
    BY <1>2
  <2>3. Subject(s, n + 1)' = p
    BY <2>1, <2>2 DEF Subject
  <2> QED
    BY <2>1, <2>2, <2>3 DEF Phase
<1>7. ASSUME NEW i \in 1 .. MaxNames, i # n + 1
      PROVE  Subject(s, i)' = Subject(s, i) /\ Phase(s, i)' = Phase(s, i)
  <2>1. CASE i \in 1 .. n
    BY <2>1, <1>1, <1>2, <1>3 DEF Subject, Phase
  <2>2. CASE i \notin 1 .. n
    <3>1. i \notin 1 .. n + 1
      BY <2>2, <1>1, <1>7
    <3>2. Subject(s, i) = NoPlan /\ Subject(s, i)' = NoPlan
      BY <2>2, <3>1, <1>0, <1>1, <1>2, <1>3, <1>7 DEF Subject
    <3> QED
      BY <3>2 DEF Phase
  <2> QED
    BY <2>1, <2>2
<1>8. ASSUME NEW f \in Executions, f # e
      PROVE  Subjects'[f] = Subjects[f] /\ Phases'[f] = Phases[f]
  <2>1. f[1] \in Suites /\ f[2] \in 1 .. MaxNames /\ f = <<f[1], f[2]>>
    BY DEF Executions
  <2>2. CASE f[1] = s
    BY <2>1, <2>2, <1>7, <1>8 DEF Subjects, Phases
  <2>3. CASE f[1] # s
    <3>1. results'[f[1]] = results[f[1]] /\ plan'[f[1]] = plan[f[1]] /\ pc'[f[1]] = pc[f[1]]
      BY <2>1, <2>3, <1>2
    <3>2. Subject(f[1], f[2])' = Subject(f[1], f[2]) /\ Phase(f[1], f[2])' = Phase(f[1], f[2])
      BY <3>1 DEF Subject, Phase
    <3> QED
      BY <3>2 DEF Subjects, Phases
  <2> QED
    BY <2>2, <2>3
<1>9. Subjects'[e] = p /\ Phases'[e] = Phase(s, n + 1)'
  <2>1. Subjects'[e] = Subject(e[1], e[2])' /\ Phases'[e] = Phase(e[1], e[2])'
    <3> HIDE DEF e
    <3> QED
      BY <1>4 DEF Subjects, Phases
  <2>2. Subject(e[1], e[2])' = Subject(s, n + 1)' /\ Phase(e[1], e[2])' = Phase(s, n + 1)'
    OBVIOUS
  <2> QED
    BY <2>1, <2>2, <1>6
<1> HIDE DEF e
<1>10. /\ Subjects' = [Subjects EXCEPT ![e] = p]
       /\ Phases' = [Phases EXCEPT ![e] = Phase(s, n + 1)']
  BY <1>4, <1>8, <1>9 DEF Subjects, Phases
<1> QED
  BY <1>0, <1>4, <1>5, <1>6, <1>10 DEF e

LEMMA StepImplementsGate ==
    SuiteInv /\ RecordsMatch /\ [Next]_vars => [Gate!Next]_(Gate!vars)
<1> SUFFICES ASSUME SuiteInv, RecordsMatch, [Next]_vars
             PROVE  [Gate!Next]_(Gate!vars)
  OBVIOUS
<1>1. ASSUME NEW p \in Plans, Approve(p) \/ Revoke(p)
      PROVE  Gate!Next
  <2>1. Phases' = Phases /\ Subjects' = Subjects
    BY <1>1 DEF Approve, Revoke, Phases, Subjects, Phase, Subject
  <2>2. Gate!Grant(p) \/ Gate!Withdraw(p)
    BY <1>1, <2>1 DEF Approve, Revoke, Gate!Grant, Gate!Withdraw, Phases, Subjects
  <2> QED
    BY <2>2 DEF Gate!Next
<1>2. CASE \/ \E p \in Plans, overwrite \in BOOLEAN : BeginSave(p, overwrite)
           \/ \E n \in Slugs : EndSave(n) \/ AbandonSave(n)
  BY <1>2, QuietStutters DEF BeginSave, EndSave, AbandonSave, humanVars
<1>3. ASSUME NEW s \in Suites, \/ \E q \in Requests : Begin(s, q)
                               \/ NotAPlan(s) \/ Finish(s)
      PROVE  UNCHANGED Gate!vars
  BY <1>3, QuietStutters DEF Begin, NotAPlan, Finish, AtName, Goto, humanVars, SuiteInv, TypeOK
<1>4. ASSUME NEW s \in Suites, NotInLibrary(s)
      PROVE  UNCHANGED Gate!vars
  <2>1. /\ Enter(s, "error", NoPlan) /\ pc[s] = "going" /\ HasNext(s) /\ plan[s] = NoPlan
        /\ UNCHANGED <<granted, pc, plan>>
    BY <1>4 DEF NotInLibrary, AtName, humanVars, SuiteInv, SuiteFits, PlaceFits
  <2> DEFINE e == <<s, Len(results[s]) + 1>>
  <2>2. /\ e \in Executions /\ Subjects[e] = NoPlan /\ Phases[e] = "idle"
        /\ Subjects' = [Subjects EXCEPT ![e] = NoPlan]
        /\ Phases' = [Phases EXCEPT ![e] = "idle"]
    BY <2>1, EntryShows
  <2>3. Subjects' = Subjects /\ Phases' = Phases
    BY <2>2 DEF Subjects, Phases
  <2> QED
    BY <2>1, <2>3 DEF Gate!vars, Subjects, Phases
<1>5. ASSUME NEW s \in Suites, RunNext(s)
      PROVE  Gate!Next
  <2> DEFINE p == File(s)
             e == <<s, Len(results[s]) + 1>>
  <2>1. /\ pc[s] = "going" /\ HasNext(s) /\ plan[s] = NoPlan /\ p \in Plans /\ p # NoPlan
        /\ UNCHANGED <<granted>>
    BY <1>5, SuitesAssumption
       DEF SuitesAssumption, RunNext, AtName, humanVars, SuiteInv, SuiteFits, PlaceFits
  <2>2. CASE CanExecute(p, approvals)
    <3>1. /\ plan' = [plan EXCEPT ![s] = p] /\ pc' = [pc EXCEPT ![s] = "running"]
          /\ results' = results
      BY <1>5, <2>2 DEF RunNext, Goto
    <3>2. /\ plan'[s] = p /\ pc'[s] = "running"
          /\ \A t \in Suites \ {s} : plan'[t] = plan[t] /\ pc'[t] = pc[t]
      BY <3>1 DEF SuiteInv, TypeOK
    <3>3. /\ Len(results[s]) \in Nat /\ DOMAIN results[s] = 1 .. Len(results[s])
          /\ e \in Executions /\ e[1] = s /\ e[2] = Len(results[s]) + 1
      BY <2>1, AtNameFacts DEF Executions
    <3>4. /\ Subjects[e] = NoPlan /\ Phases[e] = "idle"
          /\ Subjects'[e] = p /\ Phases'[e] = "running"
      BY <2>1, <3>1, <3>2, <3>3 DEF Subjects, Phases, Subject, Phase
    <3>5. ASSUME NEW f \in Executions, f # e
          PROVE  Subjects'[f] = Subjects[f] /\ Phases'[f] = Phases[f]
      <4>1. f[1] \in Suites /\ f[2] \in 1 .. MaxNames /\ f = <<f[1], f[2]>>
        BY DEF Executions
      <4>2. CASE f[1] = s
        <5>1. f[2] # Len(results[s]) + 1
          BY <3>5, <4>1, <4>2
        <5> QED
          BY <2>1, <3>1, <3>2, <4>1, <4>2, <5>1 DEF Subjects, Phases, Subject, Phase
      <4>3. CASE f[1] # s
        BY <4>1, <4>3, <3>1, <3>2, RestStutters DEF Subjects, Phases
      <4> QED
        BY <4>2, <4>3
    <3> HIDE DEF e, p
    <3>6. Subjects' = [Subjects EXCEPT ![e] = p] /\ Phases' = [Phases EXCEPT ![e] = "running"]
      BY <3>3, <3>4, <3>5 DEF Subjects, Phases
    <3>7. Gate!Begin(e, p)
      BY <2>1, <2>2, <3>4, <3>6, GateAgrees DEF Gate!Begin, Subjects, Phases
    <3> QED
      BY <2>1, <3>3, <3>7 DEF Gate!Next
  <2>3. CASE ~CanExecute(p, approvals)
    <3>1. Enter(s, "blocked", p) /\ UNCHANGED <<pc, plan>>
      BY <1>5, <2>3 DEF RunNext
    <3>2. /\ e \in Executions /\ Phases[e] = "idle"
          /\ Subjects' = [Subjects EXCEPT ![e] = p]
          /\ Phases' = [Phases EXCEPT ![e] = "refused"]
      BY <2>1, <3>1, EntryShows
    <3> HIDE DEF e, p
    <3>3. Gate!Refuse(e, p)
      BY <2>1, <2>3, <3>2, GateAgrees DEF Gate!Refuse, Subjects, Phases
    <3> QED
      BY <2>1, <3>2, <3>3 DEF Gate!Next
  <2> QED
    BY <2>2, <2>3
<1>6. ASSUME NEW s \in Suites, Ended(s)
      PROVE  Gate!Next
  <2> DEFINE p == plan[s]
             e == <<s, Len(results[s]) + 1>>
  <2>1. PICK status \in {"passed", "failed", "error"} : Enter(s, status, p)
    BY <1>6 DEF Ended
  <2>2. /\ pc[s] = "running" /\ HasNext(s) /\ p \in Plans /\ p # NoPlan
        /\ plan'[s] = NoPlan /\ pc'[s] = "going" /\ UNCHANGED <<granted>>
        /\ \A t \in Suites \ {s} : plan'[t] = plan[t] /\ pc'[t] = pc[t]
    BY <1>6, SuitesAssumption
       DEF SuitesAssumption, Ended, Goto, humanVars, SuiteInv, TypeOK, SuiteFits, PlaceFits
  <2>3. /\ e \in Executions /\ Phases[e] = "running" /\ Subjects[e] = p
        /\ Subjects' = [Subjects EXCEPT ![e] = p]
        /\ Phases' = [Phases EXCEPT ![e] = status]
    BY <2>1, <2>2, EntryShows
  <2> HIDE DEF e, p
  <2>4. Subjects' = Subjects
    BY <2>3 DEF Subjects
  <2>5. Gate!End(e, status)
    BY <2>2, <2>3, <2>4 DEF Gate!End, Subjects, Phases
  <2> QED
    BY <2>3, <2>5 DEF Gate!Next, Gate!Endings
<1>7. ASSUME ServerDies
      PROVE  Gate!Next
  <2> DEFINE gone == {e \in Executions : pc[e[1]] \in {"going", "running"}}
  <2>1. /\ \A s \in Suites : pc'[s] = IF pc[s] \in {"going", "running"} THEN "lost" ELSE pc[s]
        /\ UNCHANGED <<granted, plan, results>>
    BY <1>7 DEF ServerDies, humanVars
  <2>2. ASSUME NEW e \in Executions
        PROVE  /\ Subjects'[e] = Subjects[e]
               /\ Phases'[e] = IF e \in gone /\ Phases[e] = "running" THEN "lost" ELSE Phases[e]
    <3> DEFINE s == e[1]
               i == e[2]
    <3>1. /\ s \in Suites /\ Subjects[e] = Subject(s, i) /\ Subjects'[e] = Subject(s, i)'
          /\ Phases[e] = Phase(s, i) /\ Phases'[e] = Phase(s, i)'
      BY DEF Executions, Subjects, Phases
    <3>2. Subject(s, i)' = Subject(s, i)
      BY <2>1 DEF Subject
    <3>3. CASE Subject(s, i) = NoPlan
      BY <3>1, <3>2, <3>3 DEF Phase
    <3>4. CASE Subject(s, i) # NoPlan /\ i \in DOMAIN results[s]
      <4>1. results[s][i] \in Entry
        BY <3>1, <3>4 DEF SuiteInv, TypeOK
      <4>2. Phase(s, i) \in {"refused", "passed", "failed", "error"} /\ Phase(s, i)' = Phase(s, i)
        BY <2>1, <3>2, <3>4, <4>1 DEF Phase, Entry
      <4> QED
        BY <3>1, <3>2, <4>2
    <3>5. CASE Subject(s, i) # NoPlan /\ i \notin DOMAIN results[s]
      <4>1. plan[s] # NoPlan
        BY <3>5 DEF Subject
      <4>2. pc[s] \in {"running", "lost"}
        BY <3>1, <4>1 DEF SuiteInv, SuiteFits, PlaceFits
      <4> QED
        BY <2>1, <3>1, <3>2, <3>5, <4>2 DEF Phase
    <3> QED
      BY <3>3, <3>4, <3>5
  <2> HIDE DEF gone
  <2>3. /\ Subjects' = Subjects
        /\ Phases' = [e \in Executions |-> IF e \in gone /\ Phases[e] = "running" THEN "lost"
                                           ELSE Phases[e]]
    BY <2>2 DEF Subjects, Phases
  <2>4. Gate!Lose(gone)
    BY <2>1, <2>3 DEF Gate!Lose, Subjects, Phases
  <2> QED
    BY <2>4 DEF gone, Gate!Next
<1>8. CASE UNCHANGED vars
  BY <1>8, QuietStutters DEF vars
<1> QED
  BY <1>1, <1>2, <1>3, <1>4, <1>5, <1>6, <1>7, <1>8 DEF Next

\* However long a suite runs, each execution in it begins with the policy's leave and by a
\* grant of what it runs that stands at that moment, and ends once.
THEOREM SuitesKeepTheGate == Spec => SuiteKeepsTheGate
<1>1. Init => Gate!Init
  <2> SUFFICES ASSUME Init
               PROVE  Gate!Init
    OBVIOUS
  <2>1. \A e \in Executions : e[1] \in Suites
    BY DEF Executions
  <2>2. \A e \in Executions : Subject(e[1], e[2]) = NoPlan
    BY <2>1 DEF Init, Subject
  <2> QED
    BY <2>2 DEF Init, Gate!Init, Phase
<1> QED
  BY <1>1, StepImplementsGate, SuiteInvHolds, RecordsHold, PTL
     DEF Spec, SuiteKeepsTheGate, Gate!Spec
=============================================================================
