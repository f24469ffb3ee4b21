--------------------------- MODULE PlanRunsProofs ---------------------------
(***************************************************************************)
(* Theorems about PlanRuns, for every set of calls and plans.              *)
(***************************************************************************)
EXTENDS PlanRuns, SequenceTheorems, FiniteSetTheorems, TLAPS

\* What the assumptions say of one plan.
LEMMA PlanShape ==
    ASSUME NEW p \in Plans
    PROVE  /\ p.steps \in Seq(Step)
           /\ Len(p.steps) \in Nat
           /\ Len(p.steps) >= 1
           /\ \A i \in 1 .. Len(p.steps) :
                  /\ p.steps[i].action \in Actions
                  /\ p.steps[i].expects \in Statuses \cup {NoStatus}
                  /\ p.steps[i].action = "assert_status" => p.steps[i].expects \in Statuses
<1>1. p.steps \in Seq(Step)
  BY GateAssumption DEF GateAssumption, PlanContent
<1>2. Len(p.steps) \in Nat /\ Len(p.steps) >= 1 /\ DOMAIN p.steps = 1 .. Len(p.steps)
  BY <1>1, GateAssumption DEF GateAssumption
<1>3. ASSUME NEW i \in 1 .. Len(p.steps)
      PROVE  /\ p.steps[i].action \in Actions
             /\ p.steps[i].expects \in Statuses \cup {NoStatus}
             /\ p.steps[i].action = "assert_status" => p.steps[i].expects \in Statuses
  <2>1. p.steps[i] \in Step
    BY <1>1, <1>3
  <2>2. p.steps[i].action = "assert_status" => p.steps[i].expects # NoStatus
    BY <1>2, <1>3, GateAssumption DEF GateAssumption
  <2> QED
    BY <2>1, <2>2 DEF Step
<1> QED
  BY <1>1, <1>2, <1>3

\* Statuses are numbers apart from the two marks.
LEMMA StatusesApart == NoStatus \notin Statuses /\ TextStatus \notin Statuses
BY GateAssumption DEF GateAssumption, NoStatus, TextStatus

\* What an entry has to satisfy for the shared slot to stay meaningful to its call.
RecordIsFair(r, entry) ==
    entry.status = "passed" =>
        /\ Current(r).action = "api_request" => lastApiStatus' = entry.answer
        /\ (/\ Current(r).action = "assert_status"
            /\ Len(results[r]) >= 1
            /\ plan[r].steps[Len(results[r])].action = "api_request")
           => results[r][Len(results[r])].answer = Current(r).expects

\* Entering a step in the report keeps the invariant, provided the shared slot is
\* left fitting the entry.
LEMMA RecordKeepsIndInv ==
    ASSUME IndInv, NEW r \in Runs, NEW entry \in Entry,
           Record(r, entry), HasNext(r), pc[r] \in {"stepping", "awaiting"},
           loop \in {NoRun, r},
           lastApiStatus' \in Statuses \cup {NoStatus, TextStatus},
           RecordIsFair(r, entry)
    PROVE  IndInv'
<1> DEFINE n == Len(results[r])
<1>1. /\ results[r] \in Seq(Entry) /\ n \in Nat
      /\ results'[r] = Append(results[r], entry)
      /\ results' \in [Runs -> Seq(Entry)]
      /\ Len(results'[r]) = n + 1
      /\ results'[r][n + 1] = entry
      /\ \A i \in 1 .. n : results'[r][i] = results[r][i]
      /\ results'[r] # <<>>
      /\ \A q \in Runs \ {r} : results'[q] = results[q]
  <2>1. results \in [Runs -> Seq(Entry)]
    BY DEF IndInv, TypeOK
  <2>2. results' = [results EXCEPT ![r] = Append(results[r], entry)]
    BY DEF Record
  <2>3. results[r] \in Seq(Entry) /\ n \in Nat
    BY <2>1
  <2>4. /\ Append(results[r], entry) \in Seq(Entry)
        /\ Len(Append(results[r], entry)) = n + 1
        /\ Append(results[r], entry)[n + 1] = entry
        /\ \A i \in 1 .. n : Append(results[r], entry)[i] = results[r][i]
        /\ Append(results[r], entry) # <<>>
    BY <2>3, AppendProperties
  <2> QED
    BY <2>1, <2>2, <2>3, <2>4
<1>2. /\ plan[r] \in Plans /\ n < Len(plan[r].steps) /\ Len(plan[r].steps) \in Nat
      /\ plan' = plan /\ session' = session
  BY PlanShape DEF IndInv, WithinPlan, Record, HasNext
<1>3. /\ pc' \in [Runs -> Positions]
      /\ \A q \in Runs \ {r} : pc'[q] = pc[q]
      /\ pc'[r] \in {"stepping", "shooting", "reporting"}
      /\ pc'[r] \in {"stepping", "reporting"} <=> loop' = r
      /\ loop' \in {NoRun, r}
      /\ pc'[r] = "stepping" => entry.status = "passed"
  BY RunsAssumption DEF IndInv, TypeOK, Record, Goto, Positions, RunsAssumption
<1>4. TypeOK'
  BY <1>1, <1>3 DEF IndInv, TypeOK, Record, humanVars, journal
<1>5. LoopOwner'
  BY <1>3, RunsAssumption DEF IndInv, LoopOwner, RunsAssumption
<1>6. WithinPlan'
  <2> SUFFICES ASSUME NEW q \in Runs
               PROVE  /\ pc'[q] \in {"idle", "opening"} => results'[q] = <<>>
                      /\ pc'[q] # "idle" =>
                             plan'[q] \in Plans /\ Len(results'[q]) <= Len(plan'[q].steps)
                      /\ pc'[q] = "awaiting" =>
                             (HasNext(q) /\ Current(q).action # "assert_status")'
                      /\ pc'[q] \in {"shooting", "closing", "reporting"} => results'[q] # <<>>
    BY DEF WithinPlan
  <2>1. CASE q = r
    BY <2>1, <1>1, <1>2, <1>3
  <2>2. CASE q # r
    BY <2>2, <1>1, <1>2, <1>3 DEF IndInv, WithinPlan, HasNext, Current
  <2> QED
    BY <2>1, <2>2
<1>7. FreshAnswer'
  <2> SUFFICES ASSUME NEW q \in Runs, pc'[q] = "stepping", results'[q] # <<>>,
                      plan'[q].steps[Len(results'[q])].action = "api_request"
               PROVE  lastApiStatus' = results'[q][Len(results'[q])].answer
    BY DEF FreshAnswer
  <2>1. q = r
    BY <1>3, RunsAssumption DEF IndInv, LoopOwner, RunsAssumption
  <2> QED
    BY <2>1, <1>1, <1>2, <1>3 DEF Current, RecordIsFair
<1>8. AdjacentStatusIsOwn'
  <2> SUFFICES ASSUME NEW q \in Runs, NEW i \in 2 .. Len(results'[q]),
                      StatusAssertionPassed(q, i)',
                      plan'[q].steps[i - 1].action = "api_request"
               PROVE  results'[q][i - 1].answer = plan'[q].steps[i].expects
    BY DEF AdjacentStatusIsOwn
  <2>1. CASE q # r
    BY SMTT(30), <2>1, <1>1, <1>2 DEF IndInv, AdjacentStatusIsOwn, StatusAssertionPassed
  <2>2. CASE q = r /\ i <= n
    <3>1. i \in 2 .. n /\ i - 1 \in 1 .. n /\ i \in 1 .. n
      BY <2>2, <1>1
    <3> QED
      BY <2>2, <3>1, <1>1, <1>2 DEF IndInv, AdjacentStatusIsOwn, StatusAssertionPassed
  <2>3. CASE q = r /\ i = n + 1
    <3>1. n \in 1 .. n /\ i - 1 = n /\ n >= 1
      BY <2>3, <1>1
    <3> QED
      BY <2>3, <3>1, <1>1, <1>2 DEF StatusAssertionPassed, Current, RecordIsFair
  <2> QED
    BY <2>1, <2>2, <2>3, <1>1
<1> QED
  BY <1>4, <1>5, <1>6, <1>7, <1>8 DEF IndInv

LEMMA InitEstablishesIndInv == Init => IndInv
BY RunsAssumption DEF Init, IndInv, TypeOK, LoopOwner, WithinPlan, FreshAnswer,
   AdjacentStatusIsOwn, RunsAssumption, Positions, Verdicts, Lines

\* A step that moves only what the invariant's non-type parts do not look at, or
\* moves one call between positions without touching its report.
LEMMA MoveKeepsIndInv ==
    ASSUME IndInv, TypeOK', NEW r \in Runs, NEW where \in Positions,
           Goto(r, where), results' = results,
           \A q \in Runs \ {r} : plan'[q] = plan[q],
           plan'[r] = plan[r] \/ results[r] = <<>>,
           where # "idle" => plan'[r] \in Plans,
           where \in {"idle", "opening"} => results[r] = <<>>,
           Len(results[r]) <= Len(plan'[r].steps),
           where = "awaiting" => (HasNext(r) /\ Current(r).action # "assert_status")',
           where \in {"shooting", "closing", "reporting"} => results[r] # <<>>,
           loop \in {NoRun, r},
           loop' = IF where \in {"stepping", "reporting"} THEN r ELSE NoRun,
           where = "stepping" => results[r] = <<>>
    PROVE  IndInv'
<1>1. /\ \A q \in Runs \ {r} : pc'[q] = pc[q]
      /\ pc'[r] = where
  BY DEF IndInv, TypeOK, Goto
<1>2. LoopOwner'
  BY <1>1, RunsAssumption DEF IndInv, LoopOwner, RunsAssumption
<1>3. WithinPlan'
  BY <1>1 DEF IndInv, WithinPlan, HasNext, Current
<1>4. FreshAnswer'
  BY <1>1, <1>2, RunsAssumption DEF LoopOwner, FreshAnswer, RunsAssumption
<1>5. AdjacentStatusIsOwn'
  <2> SUFFICES ASSUME NEW q \in Runs, NEW i \in 2 .. Len(results[q]),
                      StatusAssertionPassed(q, i)',
                      plan'[q].steps[i - 1].action = "api_request"
               PROVE  results[q][i - 1].answer = plan'[q].steps[i].expects
    BY DEF AdjacentStatusIsOwn
  <2>1. plan'[q] = plan[q]
    OBVIOUS
  <2> QED
    BY <2>1 DEF IndInv, AdjacentStatusIsOwn, StatusAssertionPassed
<1> QED
  BY <1>2, <1>3, <1>4, <1>5 DEF IndInv

\* The line a step adds is of the right kind.
LEMMA LineType ==
    ASSUME NEW event \in Events, NEW p \in Plans, NEW status \in Verdicts, NEW pid \in Nat
    PROVE  Line(event, p, status, pid) \in Lines
<1>1. p.name \in STRING
  BY GateAssumption DEF GateAssumption, PlanContent
<1> QED
  BY <1>1 DEF Line, Lines

LEMMA LogType ==
    ASSUME TypeOK, NEW event \in Events, NEW p \in Plans, NEW status \in Verdicts,
           Log(event, p, status)
    PROVE  audit' \in Seq(Lines)
<1>1. Line(event, p, status, server) \in Lines /\ audit \in Seq(Lines)
  BY LineType DEF TypeOK
<1> HIDE DEF Line
<1> QED
  BY <1>1, AppendProperties DEF Log

LEMMA EntryType ==
    ASSUME NEW status \in {"passed", "failed", "error"}, NEW told \in BOOLEAN,
           NEW answer \in Statuses \cup {NoStatus, TextStatus}
    PROVE  [status |-> status, told |-> told, answer |-> answer] \in Entry
BY DEF Entry

LEMMA StepKeepsIndInv == IndInv /\ [Next]_vars => IndInv'
<1> SUFFICES ASSUME IndInv, [Next]_vars
             PROVE  IndInv'
  OBVIOUS
<1> USE StatusesApart, RunsAssumption DEF RunsAssumption
<1>1. ASSUME NEW p \in Plans, Approve(p) \/ Revoke(p)
      PROVE  IndInv'
  <2>1. TypeOK'
    BY <1>1 DEF IndInv, TypeOK, Approve, Revoke, journal
  <2>2. LoopOwner'
    BY <1>1 DEF IndInv, Approve, Revoke, LoopOwner
  <2>3. WithinPlan'
    BY <1>1 DEF IndInv, Approve, Revoke, WithinPlan, HasNext, Current
  <2>4. FreshAnswer'
    BY <1>1 DEF IndInv, Approve, Revoke, FreshAnswer
  <2>5. AdjacentStatusIsOwn'
    BY <1>1 DEF IndInv, Approve, Revoke, AdjacentStatusIsOwn, StatusAssertionPassed
  <2> QED
    BY <2>1, <2>2, <2>3, <2>4, <2>5 DEF IndInv
<1>2. ASSUME NEW r \in Runs, NEW p \in Plans, Block(r, p)
      PROVE  IndInv'
  <2>1. TypeOK'
    <3>1. audit' \in Seq(Lines)
      BY <1>2, LogType DEF IndInv, Block, Verdicts, Events
    <3> QED
      BY <1>2, <3>1
         DEF IndInv, TypeOK, Block, Arrive, humanVars, journal, Goto, Positions, Verdicts
  <2> QED
    BY SMTT(30), <2>1, <1>2, PlanShape, MoveKeepsIndInv
       DEF IndInv, TypeOK, WithinPlan, Block, Arrive, Positions
<1>3. ASSUME NEW r \in Runs, NEW p \in Plans, Start(r, p)
      PROVE  IndInv'
  <2>1. TypeOK'
    <3>1. audit' \in Seq(Lines)
      BY <1>3, LogType DEF IndInv, Start, Verdicts, Events
    <3> QED
      BY <1>3, <3>1 DEF IndInv, TypeOK, Start, Arrive, humanVars, journal, Goto, Positions
  <2>2. results[r] = <<>> /\ Len(p.steps) \in Nat /\ plan'[r] = p
    BY <1>3, PlanShape DEF IndInv, TypeOK, WithinPlan, Start, Arrive
  <2>3. CASE NeedsBrowser(p)
    <3>1. /\ Goto(r, "opening") /\ loop' = NoRun /\ results' = results
          /\ \A q \in Runs \ {r} : plan'[q] = plan[q]
      BY <2>3, <1>3 DEF IndInv, TypeOK, Start, Arrive
    <3> QED
      BY <2>1, <2>2, <3>1, <1>3, MoveKeepsIndInv DEF Positions, Start
  <2>4. CASE ~NeedsBrowser(p)
    BY <2>1, <2>2, <2>4, <1>3, MoveKeepsIndInv
       DEF IndInv, TypeOK, Start, Arrive, Positions
  <2> QED
    BY <2>3, <2>4
<1>4. ASSUME NEW r \in Runs, Opened(r) \/ OpenFailed(r)
      PROVE  IndInv'
  <2>1. TypeOK'
    <3>1. plan[r] \in Plans
      BY <1>4 DEF IndInv, WithinPlan, Opened, OpenFailed
    <3>2. audit' \in Seq(Lines)
      BY <1>4, <3>1, LogType DEF IndInv, TypeOK, Opened, OpenFailed, journal, Verdicts, Events
    <3> QED
      BY <1>4, <3>2
         DEF IndInv, TypeOK, Opened, OpenFailed, humanVars, journal, Goto, Positions, Verdicts
  <2>2. results[r] = <<>> /\ plan[r] \in Plans /\ Len(results[r]) <= Len(plan[r].steps)
    BY <1>4 DEF IndInv, WithinPlan, Opened, OpenFailed
  <2>3. CASE Opened(r)
    BY <2>1, <2>2, <2>3, MoveKeepsIndInv DEF Opened, Positions
  <2>4. CASE OpenFailed(r)
    BY <2>1, <2>2, <2>4, MoveKeepsIndInv DEF OpenFailed, Positions
  <2> QED
    BY <2>3, <2>4, <1>4
<1>5. ASSUME NEW r \in Runs, AssertStatus(r)
      PROVE  IndInv'
  <2>1. PICK entry \in Entry :
            /\ Record(r, entry)
            /\ entry.status = "passed" => lastApiStatus = Current(r).expects
    <3> DEFINE e == [status |-> IF lastApiStatus = Current(r).expects
                                THEN "passed" ELSE "failed",
                     told |-> TRUE, answer |-> NoStatus]
    <3>1. e \in Entry /\ Record(r, e)
      BY <1>5, EntryType DEF AssertStatus
    <3>2. e.status = "passed" => lastApiStatus = Current(r).expects
      OBVIOUS
    <3> HIDE DEF e
    <3> QED
      BY <3>1, <3>2
  <2>2. /\ HasNext(r) /\ loop = r /\ pc[r] = "stepping"
        /\ Current(r).action = "assert_status"
        /\ lastApiStatus' \in Statuses \cup {NoStatus, TextStatus}
    BY <1>5 DEF AssertStatus, IndInv, TypeOK
  <2>3. results[r] \in Seq(Entry) /\ (Len(results[r]) >= 1 => results[r] # <<>>)
    BY DEF IndInv, TypeOK
  <2>4. RecordIsFair(r, entry)
    BY <2>1, <2>2, <2>3 DEF IndInv, FreshAnswer, RecordIsFair
  <2> QED
    BY <2>1, <2>2, <2>4, RecordKeepsIndInv
<1>6. ASSUME NEW r \in Runs, CannotResolve(r)
      PROVE  IndInv'
  <2>1. PICK entry \in Entry : entry.status = "error" /\ Record(r, entry)
    BY <1>6, EntryType DEF CannotResolve
  <2>2. /\ HasNext(r) /\ loop = r /\ pc[r] = "stepping"
        /\ lastApiStatus' \in Statuses \cup {NoStatus, TextStatus}
    BY <1>6 DEF CannotResolve, IndInv, TypeOK
  <2>4. RecordIsFair(r, entry)
    BY <2>1, <2>2 DEF RecordIsFair
  <2> QED
    BY <2>1, <2>2, <2>4, RecordKeepsIndInv
<1>7. ASSUME NEW r \in Runs, Await(r)
      PROVE  IndInv'
  <2>1. TypeOK'
    BY <1>7 DEF IndInv, TypeOK, Await, humanVars, journal, Goto, Positions
  <2>2. /\ plan[r] \in Plans /\ Len(results[r]) <= Len(plan[r].steps)
        /\ (HasNext(r) /\ Current(r).action # "assert_status")'
    BY <1>7 DEF IndInv, WithinPlan, Await, HasNext, Current
  <2> QED
    BY <2>1, <2>2, <1>7, MoveKeepsIndInv DEF Await, Positions
<1>8. ASSUME NEW r \in Runs, ApiAnswered(r)
      PROVE  IndInv'
  <2>1. PICK answer \in Statuses :
            LET met == Current(r).expects \in {NoStatus, answer} IN
            /\ lastApiStatus' = IF met THEN answer ELSE lastApiStatus
            /\ Record(r, [status |-> IF met THEN "passed" ELSE "failed",
                          told |-> TRUE, answer |-> answer])
    BY <1>8 DEF ApiAnswered
  <2>2. PICK entry \in Entry :
            /\ Record(r, entry)
            /\ entry.status = "passed" => lastApiStatus' = entry.answer
    <3> DEFINE met == Current(r).expects \in {NoStatus, answer}
               e == [status |-> IF met THEN "passed" ELSE "failed",
                     told |-> TRUE, answer |-> answer]
    <3>1. e \in Entry /\ Record(r, e)
      BY <2>1, EntryType
    <3>2. e.status = "passed" => lastApiStatus' = e.answer
      BY <2>1
    <3> HIDE DEF e
    <3> QED
      BY <3>1, <3>2
  <2>3. /\ HasNext(r) /\ loop = NoRun /\ pc[r] = "awaiting"
        /\ Current(r).action = "api_request"
        /\ lastApiStatus' \in Statuses \cup {NoStatus, TextStatus}
    BY <1>8, <2>1 DEF ApiAnswered, IndInv, TypeOK, WithinPlan
  <2>4. RecordIsFair(r, entry)
    BY <2>2, <2>3 DEF RecordIsFair
  <2> QED
    BY <2>2, <2>3, <2>4, RecordKeepsIndInv
<1>9. ASSUME NEW r \in Runs, NoWindowFound(r)
      PROVE  IndInv'
  <2>1. PICK entry \in Entry : Record(r, entry)
    BY <1>9, EntryType DEF NoWindowFound
  <2>2. /\ HasNext(r) /\ loop = NoRun /\ pc[r] = "awaiting"
        /\ Current(r).action = "switch_window"
        /\ lastApiStatus' \in Statuses \cup {NoStatus, TextStatus}
    BY <1>9 DEF NoWindowFound, IndInv, WithinPlan
  <2>4. RecordIsFair(r, entry)
    BY <2>1, <2>2 DEF RecordIsFair
  <2> QED
    BY <2>1, <2>2, <2>4, RecordKeepsIndInv
<1>10. ASSUME NEW r \in Runs, StepEnded(r)
       PROVE  IndInv'
  <2>1. PICK status \in {"passed", "failed", "error"} :
            /\ Current(r).action = "api_request" => status = "error"
            /\ Record(r, [status |-> status, told |-> TRUE, answer |-> NoStatus])
    BY <1>10 DEF StepEnded
  <2>2. PICK entry \in Entry :
            /\ Record(r, entry)
            /\ Current(r).action = "api_request" => entry.status # "passed"
    <3> DEFINE e == [status |-> status, told |-> TRUE, answer |-> NoStatus]
    <3>1. e \in Entry /\ Record(r, e) /\ e.status = status
      BY <2>1, EntryType
    <3> HIDE DEF e
    <3> QED
      BY <2>1, <3>1
  <2>3. /\ HasNext(r) /\ loop = NoRun /\ pc[r] = "awaiting"
        /\ lastApiStatus' \in Statuses \cup {NoStatus, TextStatus}
        /\ Current(r).action # "assert_status"
    BY <1>10 DEF StepEnded, IndInv, TypeOK, WithinPlan
  <2>4. RecordIsFair(r, entry)
    BY <2>2, <2>3 DEF RecordIsFair
  <2> QED
    BY <2>2, <2>3, <2>4, RecordKeepsIndInv
<1>11. ASSUME NEW r \in Runs, ShotTaken(r) \/ AllStepsPassed(r) \/ Closed(r)
       PROVE  IndInv'
  <2>1. TypeOK'
    BY <1>11 DEF IndInv, TypeOK, ShotTaken, AllStepsPassed, Closed, humanVars, journal, Goto, Positions
  <2>2. /\ plan[r] \in Plans /\ Len(plan[r].steps) >= 1 /\ Len(plan[r].steps) \in Nat
        /\ results[r] \in Seq(Entry) /\ Len(results[r]) <= Len(plan[r].steps)
    BY <1>11, PlanShape
       DEF IndInv, TypeOK, WithinPlan, ShotTaken, AllStepsPassed, Closed
  <2>3. results[r] # <<>>
    BY <1>11, <2>2 DEF IndInv, WithinPlan, ShotTaken, AllStepsPassed, Closed, HasNext
  <2>4. CASE ShotTaken(r)
    BY <2>1, <2>2, <2>3, <2>4, MoveKeepsIndInv DEF ShotTaken, Positions
  <2>5. CASE AllStepsPassed(r)
    <3>1. CASE session[r] = "open"
      BY <2>1, <2>2, <2>3, <2>5, <3>1, MoveKeepsIndInv DEF AllStepsPassed, Positions
    <3>2. CASE session[r] # "open"
      BY <2>1, <2>2, <2>3, <2>5, <3>2, MoveKeepsIndInv DEF AllStepsPassed, Positions
    <3> QED
      BY <3>1, <3>2
  <2>6. CASE Closed(r)
    BY <2>1, <2>2, <2>3, <2>6, MoveKeepsIndInv DEF Closed, Positions
  <2> QED
    BY <2>4, <2>5, <2>6, <1>11
<1>12. ASSUME NEW r \in Runs, Report(r)
       PROVE  IndInv'
  <2>1. /\ results[r] \in Seq(Entry) /\ results[r] # <<>>
        /\ plan[r] \in Plans /\ Len(results[r]) <= Len(plan[r].steps)
    BY <1>12 DEF IndInv, TypeOK, WithinPlan, Report
  <2>2. results[r][Len(results[r])] \in Entry
    <3>1. Len(results[r]) \in 1 .. Len(results[r])
      BY <2>1
    <3> QED
      BY <2>1, <3>1
  <2>3. TypeOK'
    <3>1. results[r][Len(results[r])].status \in Verdicts
      BY <2>2 DEF Entry, Verdicts
    <3>2. audit' \in Seq(Lines)
      BY <1>12, <2>1, <3>1, LogType DEF IndInv, Report, Events
    <3> QED
      BY <1>12, <3>1, <3>2 DEF IndInv, TypeOK, Report, humanVars, Goto, Positions
  <2> QED
    BY <2>1, <2>3, <1>12, MoveKeepsIndInv DEF Report, Positions
<1>13. ASSUME ServerDies
       PROVE  IndInv'
  <2>1. TypeOK'
    BY <1>13 DEF IndInv, TypeOK, ServerDies, humanVars, journal, Positions
  <2>2. \A r \in Runs : pc'[r] \in {"idle", "done", "lost"} /\ (pc'[r] = "idle" <=> pc[r] = "idle")
    BY <1>13 DEF ServerDies
  <2>3. WithinPlan'
    BY <1>13, <2>2 DEF IndInv, WithinPlan, ServerDies
  <2>4. LoopOwner' /\ FreshAnswer' /\ AdjacentStatusIsOwn'
    BY <1>13, <2>2 DEF IndInv, LoopOwner, FreshAnswer, AdjacentStatusIsOwn,
       StatusAssertionPassed, ServerDies
  <2> QED
    BY <2>1, <2>3, <2>4 DEF IndInv
<1>14. CASE UNCHANGED vars
  BY <1>14 DEF vars, journal, IndInv, TypeOK, LoopOwner, WithinPlan, HasNext, Current, FreshAnswer,
     AdjacentStatusIsOwn, StatusAssertionPassed
<1> QED
  BY <1>1, <1>2, <1>3, <1>4, <1>5, <1>6, <1>7, <1>8, <1>9, <1>10, <1>11, <1>12, <1>13, <1>14
     DEF Next, Progress

-----------------------------------------------------------------------------
(***************************************************************************)
(* The theorems.                                                           *)
(***************************************************************************)

\* The inductive invariant holds throughout: every variable keeps its type, and the
\* task that executes is the one the event loop runs.
THEOREM IndInvHolds == Spec => []IndInv
BY InitEstablishesIndInv, StepKeepsIndInv, PTL DEF Spec

\* Every variable keeps its type.
THEOREM TypeCorrect == Spec => []TypeOK
<1>1. IndInv => TypeOK
  BY DEF IndInv
<1> QED
  BY <1>1, IndInvHolds, PTL

\* A status assertion right behind a request is judged by that request, for any
\* number of calls sharing the runner.
THEOREM AdjacentStatusIsSafe == Spec => []AdjacentStatusIsOwn
<1>1. IndInv => AdjacentStatusIsOwn
  BY DEF IndInv
<1> QED
  BY <1>1, IndInvHolds, PTL

-----------------------------------------------------------------------------
(***************************************************************************)
(* What a call leaves behind: its report and its browser.                  *)
(***************************************************************************)

LastStatus(r) == results[r][Len(results[r])].status
AllPassed(r) == \A i \in 1 .. Len(results[r]) : results[r][i].status = "passed"
Complete(r) == Len(results[r]) = Len(plan[r].steps)

\* Of the report: the entries before the last have passed, the last one too as long as steps
\* are run; a run ends because the plan does or because of its last entry.
ReportFits(r) ==
    /\ \A i \in 1 .. Len(results[r]) - 1 : results[r][i].status = "passed"
    /\ pc[r] \in {"stepping", "awaiting"} => AllPassed(r)
    /\ pc[r] = "shooting" => LastStatus(r) # "passed"
    /\ pc[r] \in {"closing", "reporting"} => (LastStatus(r) = "passed" => Complete(r))
    /\ pc[r] = "done" /\ results[r] # <<>> =>
           LastStatus(r) = verdict[r] /\ (verdict[r] = "passed" => Complete(r))

\* Of the browser.
BrowserFits(r) ==
    session[r] = "open" => pc[r] \in {"stepping", "awaiting", "shooting", "closing"}

StoryFits(r) == ReportFits(r) /\ BrowserFits(r)
StoryInv == \A r \in Runs : StoryFits(r)

\* A call that nothing happened to tells the same story.
LEMMA UnmovedFits ==
    ASSUME NEW q, StoryFits(q), pc'[q] = pc[q], results'[q] = results[q], plan'[q] = plan[q],
           session'[q] = session[q], verdict'[q] = verdict[q]
    PROVE  StoryFits(q)'
BY DEF StoryFits, ReportFits, BrowserFits, LastStatus, AllPassed, Complete

\* An entry in the report.
LEMMA RecordKeepsStory ==
    ASSUME IndInv, StoryInv, NEW r \in Runs, NEW entry \in Entry,
           Record(r, entry), pc[r] \in {"stepping", "awaiting"}
    PROVE  StoryInv'
<1> DEFINE n == Len(results[r])
<1>1. /\ results[r] \in Seq(Entry) /\ n \in Nat
      /\ results'[r] = Append(results[r], entry)
      /\ \A q \in Runs \ {r} : results'[q] = results[q]
  BY DEF IndInv, TypeOK, Record
<1>2. /\ Len(results'[r]) = n + 1
      /\ results'[r][n + 1] = entry
      /\ \A i \in 1 .. n : results'[r][i] = results[r][i]
      /\ results'[r] # <<>>
  BY <1>1, AppendProperties
<1>3. /\ \A q \in Runs \ {r} : pc'[q] = pc[q]
      /\ pc'[r] = IF entry.status = "passed" THEN "stepping"
                  ELSE IF session[r] = "open" THEN "shooting" ELSE "reporting"
      /\ plan' = plan /\ session' = session /\ verdict' = verdict
  BY DEF IndInv, TypeOK, Record, Goto
<1>4. \A i \in 1 .. n : results'[r][i].status = "passed"
  BY <1>2 DEF StoryInv, StoryFits, ReportFits, AllPassed
<1>5. ReportFits(r)'
  BY <1>1, <1>2, <1>3, <1>4 DEF ReportFits, AllPassed, LastStatus, Complete
<1>6. BrowserFits(r)'
  BY <1>3 DEF StoryInv, StoryFits, BrowserFits, Live
<1> QED
  BY <1>1, <1>3, <1>5, <1>6, UnmovedFits DEF StoryInv, StoryFits

\* A call that goes from one place to another without an entry.
LEMMA MoveKeepsStory ==
    ASSUME StoryInv, NEW r \in Runs, StoryFits(r)',
           \A q \in Runs \ {r} :
               /\ pc'[q] = pc[q] /\ results'[q] = results[q] /\ plan'[q] = plan[q]
               /\ session'[q] = session[q] /\ verdict'[q] = verdict[q]
    PROVE  StoryInv'
BY UnmovedFits DEF StoryInv

LEMMA StepKeepsStory == IndInv /\ StoryInv /\ [Next]_vars => StoryInv'
<1> SUFFICES ASSUME IndInv, StoryInv, [Next]_vars
             PROVE  StoryInv'
  OBVIOUS
<1>1. ASSUME NEW p \in Plans, Approve(p) \/ Revoke(p)
      PROVE  StoryInv'
  BY <1>1, UnmovedFits DEF StoryInv, Approve, Revoke
<1>2. ASSUME NEW r \in Runs, NEW p \in Plans, Block(r, p) \/ Start(r, p)
      PROVE  StoryInv'
  <2>1. /\ results[r] = <<>> /\ results' = results /\ session' = session
        /\ session[r] # "open"
    BY <1>2 DEF Block, Start, IndInv, WithinPlan, StoryInv, StoryFits, BrowserFits
  <2>2. \A q \in Runs \ {r} :
            /\ pc'[q] = pc[q] /\ plan'[q] = plan[q]
            /\ verdict'[q] = verdict[q]
    BY <1>2 DEF Block, Start, Arrive, IndInv, TypeOK, Goto, Log
  <2>3. CASE Block(r, p)
    <3>1. pc'[r] = "done" /\ verdict'[r] = "blocked"
      BY <2>1, <2>3 DEF Block, IndInv, TypeOK, Goto, Log
    <3>2. StoryFits(r)'
      BY <2>1, <3>1 DEF StoryFits, ReportFits, BrowserFits, AllPassed, LastStatus, Complete, Live
    <3> QED
      BY <2>1, <2>2, <3>2, MoveKeepsStory
  <2>4. CASE Start(r, p)
    <3>1. pc'[r] \in {"opening", "stepping"}
      BY <2>1, <2>4 DEF Start, IndInv, TypeOK, Goto, Log
    <3>2. StoryFits(r)'
      BY <2>1, <3>1 DEF StoryFits, ReportFits, BrowserFits, AllPassed, LastStatus, Complete, Live
    <3> QED
      BY <2>1, <2>2, <3>2, MoveKeepsStory
  <2> QED
    BY <1>2, <2>3, <2>4
<1>3. ASSUME NEW r \in Runs, Opened(r) \/ OpenFailed(r)
      PROVE  StoryInv'
  <2>1. /\ results[r] = <<>> /\ results' = results /\ plan' = plan
        /\ session[r] # "open"
    BY <1>3 DEF Opened, OpenFailed, IndInv, WithinPlan, StoryInv, StoryFits, BrowserFits, Live
  <2>2. \A q \in Runs \ {r} :
            /\ pc'[q] = pc[q] /\ session'[q] = session[q]
            /\ verdict'[q] = verdict[q]
    BY <1>3 DEF Opened, OpenFailed, IndInv, TypeOK, Goto, Log
  <2>3. \/ /\ pc'[r] = "stepping"
        \/ /\ pc'[r] = "done" /\ verdict'[r] = "error" /\ session'[r] # "open"
    BY <1>3, <2>1 DEF Opened, OpenFailed, IndInv, TypeOK, Goto, Log
  <2>4. StoryFits(r)'
    BY <2>1, <2>3 DEF StoryFits, ReportFits, BrowserFits, AllPassed, LastStatus, Complete, Live
  <2> QED
    BY <2>1, <2>2, <2>4, MoveKeepsStory
<1>4. ASSUME NEW r \in Runs,
             \/ AssertStatus(r) \/ CannotResolve(r) \/ ApiAnswered(r)
             \/ NoWindowFound(r) \/ StepEnded(r)
      PROVE  StoryInv'
  <2>1. PICK entry \in Entry : Record(r, entry)
    BY <1>4, EntryType
       DEF AssertStatus, CannotResolve, ApiAnswered, NoWindowFound, StepEnded
  <2>2. pc[r] \in {"stepping", "awaiting"}
    BY <1>4 DEF AssertStatus, CannotResolve, ApiAnswered, NoWindowFound, StepEnded
  <2> QED
    BY <2>1, <2>2, RecordKeepsStory
<1>5. ASSUME NEW r \in Runs, Await(r)
      PROVE  StoryInv'
  <2>1. /\ pc[r] = "stepping" /\ pc'[r] = "awaiting"
        /\ \A q \in Runs \ {r} : pc'[q] = pc[q]
        /\ UNCHANGED <<results, plan, session, verdict>>
    BY <1>5 DEF Await, IndInv, TypeOK, Goto
  <2>2. StoryFits(r)'
    BY <2>1 DEF StoryInv, StoryFits, ReportFits, BrowserFits, AllPassed, LastStatus, Complete, Live
  <2> QED
    BY <2>1, <2>2, MoveKeepsStory
<1>6. ASSUME NEW r \in Runs, ShotTaken(r) \/ Closed(r)
      PROVE  StoryInv'
  <2>1. /\ \/ pc[r] = "shooting" /\ pc'[r] = "closing" /\ session' = session
           \/ pc[r] = "closing" /\ pc'[r] = "reporting" /\ session'[r] = "closed"
        /\ \A q \in Runs \ {r} : pc'[q] = pc[q] /\ session'[q] = session[q]
        /\ UNCHANGED <<results, plan, verdict>>
    BY <1>6 DEF ShotTaken, Closed, IndInv, TypeOK, Goto
  <2>2. StoryFits(r)'
    BY <2>1 DEF StoryInv, StoryFits, ReportFits, BrowserFits, AllPassed, LastStatus, Complete, Live
  <2> QED
    BY <2>1, <2>2, MoveKeepsStory
<1>7. ASSUME NEW r \in Runs, AllStepsPassed(r)
      PROVE  StoryInv'
  <2>1. /\ pc[r] = "stepping"
        /\ pc'[r] = IF session[r] = "open" THEN "closing" ELSE "reporting"
        /\ \A q \in Runs \ {r} : pc'[q] = pc[q]
        /\ UNCHANGED <<results, plan, session, verdict>>
    BY <1>7 DEF AllStepsPassed, IndInv, TypeOK, Goto
  <2>2. Complete(r)'
    <3>1. Len(results[r]) <= Len(plan[r].steps) /\ plan[r] \in Plans
      BY <1>7 DEF AllStepsPassed, IndInv, WithinPlan
    <3>2. Len(results[r]) \in Nat /\ Len(plan[r].steps) \in Nat
      BY <3>1, PlanShape DEF IndInv, TypeOK
    <3> QED
      BY <1>7, <2>1, <3>1, <3>2 DEF AllStepsPassed, HasNext, Complete
  <2>3. StoryFits(r)'
    BY <2>1, <2>2 DEF StoryInv, StoryFits, ReportFits, BrowserFits, AllPassed, LastStatus, Live
  <2> QED
    BY <2>1, <2>3, MoveKeepsStory
<1>8. ASSUME NEW r \in Runs, Report(r)
      PROVE  StoryInv'
  <2>1. /\ pc[r] = "reporting" /\ pc'[r] = "done"
        /\ verdict'[r] = LastStatus(r)
        /\ \A q \in Runs \ {r} :
               pc'[q] = pc[q] /\ verdict'[q] = verdict[q]
        /\ UNCHANGED <<results, plan, session>>
    BY <1>8 DEF Report, IndInv, TypeOK, Goto, Log, LastStatus
  <2>2. results[r] # <<>> /\ LastStatus(r) # "blocked"
    <3>1. results[r] # <<>> /\ results[r] \in Seq(Entry)
      BY <2>1 DEF IndInv, TypeOK, WithinPlan
    <3>2. Len(results[r]) \in 1 .. Len(results[r])
      BY <3>1
    <3>3. results[r][Len(results[r])] \in Entry
      BY <3>1, <3>2
    <3> QED
      BY <3>1, <3>3 DEF LastStatus, Entry
  <2>4. ReportFits(r)'
    BY <2>1, <2>2 DEF StoryInv, StoryFits, ReportFits, AllPassed, LastStatus, Complete
  <2>5. BrowserFits(r)'
    BY <2>1, <2>2 DEF StoryInv, StoryFits, BrowserFits, Live
  <2> QED
    BY <2>1, <2>4, <2>5, MoveKeepsStory DEF StoryFits
<1>9. ASSUME ServerDies
      PROVE  StoryInv'
  <2> SUFFICES ASSUME NEW r \in Runs
               PROVE  StoryFits(r)'
    BY DEF StoryInv
  <2>1. /\ pc'[r] = (IF pc[r] \in {"idle", "done"} THEN pc[r] ELSE "lost")
        /\ session'[r] # "open"
        /\ session[r] # "open" => session'[r] = session[r]
        /\ UNCHANGED <<results, plan, verdict>>
    BY <1>9 DEF ServerDies
  <2>2. CASE pc[r] \in {"idle", "done"}
    BY <2>1, <2>2
       DEF StoryInv, StoryFits, ReportFits, BrowserFits, AllPassed, LastStatus, Complete, Live
  <2>3. CASE pc[r] \notin {"idle", "done"}
    <3>1. pc[r] \in Live \cup {"lost"}
      BY <2>3 DEF IndInv, TypeOK, Positions, Live
    <3> QED
      BY <2>1, <2>3, <3>1
         DEF StoryInv, StoryFits, ReportFits, BrowserFits, AllPassed, LastStatus, Complete, Live
  <2> QED
    BY <2>2, <2>3
<1>10. CASE UNCHANGED vars
  BY <1>10, UnmovedFits DEF vars, StoryInv
<1> QED
  BY <1>1, <1>2, <1>3, <1>4, <1>5, <1>6, <1>7, <1>8, <1>9, <1>10 DEF Next, Progress

LEMMA StoryHolds == Spec => []StoryInv
<1>1. Init => StoryInv
  BY DEF Init, StoryInv, StoryFits, ReportFits, BrowserFits, AllPassed, LastStatus, Complete, Live
<1> QED
  BY <1>1, StepKeepsStory, IndInvHolds, PTL DEF Spec

\* Whatever else the server is doing, a run says "passed" only of a plan whose every step has
\* an entry that passed, and otherwise stops at the one that did not.
THEOREM ReportsAreTrue == Spec => []ReportIsTrue
<1>1. StoryInv => ReportIsTrue
  BY DEF StoryInv, StoryFits, ReportFits, LastStatus, Complete, ReportIsTrue
<1> QED
  BY <1>1, StoryHolds, PTL

\* No browser outlives the call it was opened for, on any path through the runner.
THEOREM BrowsersAreClosed == Spec => []NoAbandonedBrowser
<1>1. StoryInv => NoAbandonedBrowser
  BY DEF StoryInv, StoryFits, BrowserFits, NoAbandonedBrowser
<1> QED
  BY <1>1, StoryHolds, PTL

-----------------------------------------------------------------------------
(***************************************************************************)
(* The audit file: lines are counted as they are written, and so are the   *)
(* calls they tell of.                                                     *)
(***************************************************************************)

Counts(line) == Cardinality(Written(line)) = Cardinality(Tellers(line))

\* A call that is not done has not been refused; a live one is this server's.
JournalFits(r) ==
    /\ pc[r] # "done" => verdict[r] # "blocked"
    /\ pc[r] \in Live => process[r] = server

JournalInv == (\A line : Counts(line)) /\ (\A r \in Runs : JournalFits(r))

LEMMA WrittenGrows ==
    ASSUME NEW line, NEW new \in Lines, audit \in Seq(Lines), audit' = Append(audit, new)
    PROVE  Cardinality(Written(line)') = Cardinality(Written(line)) + (IF line = new THEN 1 ELSE 0)
<1> DEFINE n == Len(audit)
<1>1. /\ n \in Nat /\ DOMAIN audit = 1 .. n
      /\ DOMAIN audit' = 1 .. n + 1
      /\ audit'[n + 1] = new
      /\ \A i \in 1 .. n : audit'[i] = audit[i]
  BY AppendProperties
<1>2. IsFiniteSet(Written(line)) /\ n + 1 \notin Written(line)
  <2>1. IsFiniteSet(1 .. n)
    BY <1>1, FS_Interval
  <2>2. Written(line) \subseteq 1 .. n
    BY <1>1 DEF Written
  <2> QED
    BY <1>1, <2>1, <2>2, FS_Subset
<1>3. Cardinality(Written(line)) \in Nat
  BY <1>2, FS_CardinalityType
<1> HIDE DEF n
<1>4. CASE line = new
  <2>1. Written(line)' = Written(line) \cup {n + 1}
    BY <1>1, <1>4 DEF Written
  <2>2. Cardinality(Written(line) \cup {n + 1}) = Cardinality(Written(line)) + 1
    BY <1>2, FS_AddElement
  <2> QED
    BY <1>4, <2>1, <2>2
<1>5. CASE line # new
  <2>1. Written(line)' = Written(line)
    BY <1>1, <1>5 DEF Written
  <2> QED
    BY <1>3, <1>5, <2>1
<1> QED
  BY <1>4, <1>5

LEMMA TellersGrow ==
    ASSUME NEW line, NEW new, NEW r \in Runs, new \notin Told(r),
           Told(r)' = Told(r) \cup {new},
           \A q \in Runs \ {r} : Told(q)' = Told(q)
    PROVE  Cardinality(Tellers(line)') = Cardinality(Tellers(line)) + (IF line = new THEN 1 ELSE 0)
<1>1. IsFiniteSet(Tellers(line))
  BY RunsAssumption, FS_Subset DEF RunsAssumption, Tellers
<1>2. Cardinality(Tellers(line)) \in Nat
  BY <1>1, FS_CardinalityType
<1>3. CASE line = new
  <2>1. Tellers(line)' = Tellers(line) \cup {r} /\ r \notin Tellers(line)
    BY <1>3 DEF Tellers
  <2>2. Cardinality(Tellers(line) \cup {r}) = Cardinality(Tellers(line)) + 1
    BY <1>1, <2>1, FS_AddElement
  <2> QED
    BY <1>3, <2>1, <2>2
<1>4. CASE line # new
  <2>1. Tellers(line)' = Tellers(line)
    BY <1>4 DEF Tellers
  <2> QED
    BY <1>2, <1>4, <2>1
<1> QED
  BY <1>3, <1>4

\* A line is written, and one call has it to tell.
LEMMA LineKeepsCounts ==
    ASSUME TypeOK, NEW r \in Runs, NEW new \in Lines, \A line : Counts(line),
           audit' = Append(audit, new), new \notin Told(r),
           Told(r)' = Told(r) \cup {new},
           \A q \in Runs \ {r} : Told(q)' = Told(q)
    PROVE  \A line : Counts(line)'
<1> SUFFICES ASSUME NEW line
             PROVE  Counts(line)'
  OBVIOUS
<1>1. audit \in Seq(Lines) /\ Counts(line)
  BY DEF TypeOK
<1>2. Cardinality(Written(line)') = Cardinality(Written(line)) + (IF line = new THEN 1 ELSE 0)
  BY <1>1, WrittenGrows
<1>3. Cardinality(Tellers(line)') = Cardinality(Tellers(line)) + (IF line = new THEN 1 ELSE 0)
  BY TellersGrow
<1> QED
  BY <1>1, <1>2, <1>3 DEF Counts

\* Nothing is written, and no call has anything new to tell.
LEMMA SilenceKeepsCounts ==
    ASSUME \A line : Counts(line), audit' = audit, \A q \in Runs : Told(q)' = Told(q)
    PROVE  \A line : Counts(line)'
<1> SUFFICES ASSUME NEW line
             PROVE  Counts(line)'
  OBVIOUS
<1>1. Written(line)' = Written(line) /\ Tellers(line)' = Tellers(line)
  BY DEF Written, Tellers
<1> QED
  BY <1>1 DEF Counts

\* A call goes on in the server, and the file is not told.
LEMMA GoingOnIsSilent ==
    ASSUME IndInv, JournalInv, NEW r \in Runs, NEW where \in Live, Goto(r, where),
           pc[r] \in Live, UNCHANGED <<plan, verdict, journal>>,
           \A q \in Runs \ {r} : results'[q] = results[q]
    PROVE  JournalInv'
<1>1. /\ pc'[r] = where /\ \A q \in Runs \ {r} : pc'[q] = pc[q]
      /\ audit' = audit /\ process' = process /\ server' = server
  BY DEF IndInv, TypeOK, Goto, journal
<1>2. \A q \in Runs : JournalFits(q)'
  BY <1>1 DEF JournalInv, JournalFits, Live
<1>3. \A q \in Runs : Told(q)' = Told(q)
  BY ZenonT(60), <1>1 DEF Told, Line, Live
<1>4. \A line : Counts(line)'
  BY <1>1, <1>3, SilenceKeepsCounts DEF JournalInv
<1> QED
  BY <1>2, <1>4 DEF JournalInv

LEMMA StepKeepsJournal == IndInv /\ JournalInv /\ [Next]_vars => JournalInv'
<1> SUFFICES ASSUME IndInv, JournalInv, [Next]_vars
             PROVE  JournalInv'
  OBVIOUS
<1>1. ASSUME NEW p \in Plans, Approve(p) \/ Revoke(p)
      PROVE  JournalInv'
  <2>1. UNCHANGED <<pc, plan, results, verdict, audit, server, process>>
    BY <1>1 DEF Approve, Revoke, journal
  <2>2. \A q \in Runs : Told(q)' = Told(q) /\ JournalFits(q)'
    BY <2>1 DEF Told, Line, JournalInv, JournalFits
  <2> QED
    BY <2>1, <2>2, SilenceKeepsCounts DEF JournalInv
<1>2. ASSUME NEW r \in Runs, NEW p \in Plans, Block(r, p) \/ Start(r, p)
      PROVE  JournalInv'
  <2> DEFINE event == IF Block(r, p) THEN "plan.blocked" ELSE "plan.start"
             new == Line(event, p, "none", server)
  <2>1. /\ pc[r] = "idle" /\ plan'[r] = p /\ process'[r] = server /\ server' = server
        /\ results[r] = <<>> /\ results' = results /\ verdict[r] # "blocked"
        /\ \A q \in Runs \ {r} :
               /\ pc'[q] = pc[q] /\ plan'[q] = plan[q]
               /\ verdict'[q] = verdict[q] /\ process'[q] = process[q]
    BY <1>2 DEF Block, Start, Arrive, Goto, IndInv, TypeOK, WithinPlan, JournalInv, JournalFits
  <2>2. /\ audit' = Append(audit, new)
        /\ \/ Block(r, p) /\ pc'[r] = "done" /\ verdict'[r] = "blocked"
           \/ ~Block(r, p) /\ pc'[r] \in {"opening", "stepping"} /\ verdict'[r] # "blocked"
    <3>1. CASE Block(r, p)
      BY <3>1 DEF Block, Goto, Log, IndInv, TypeOK
    <3>2. CASE ~Block(r, p)
      BY <1>2, <2>1, <3>2 DEF Start, Goto, Log, IndInv, TypeOK
    <3> QED
      BY <3>1, <3>2
  <2>3. new \in Lines
    BY LineType DEF IndInv, TypeOK, Events, Verdicts
  <2>4. Told(r) = {} /\ Told(r)' = {new}
    BY <2>1, <2>2 DEF Told, Line
  <2>5. \A q \in Runs \ {r} : Told(q)' = Told(q) /\ JournalFits(q)'
    BY <2>1 DEF Told, Line, JournalInv, JournalFits
  <2>6. JournalFits(r)'
    BY <2>1, <2>2 DEF JournalFits
  <2> HIDE DEF new
  <2>7. \A line : Counts(line)'
    BY <2>2, <2>3, <2>4, <2>5, LineKeepsCounts DEF IndInv, JournalInv
  <2> QED
    BY <2>5, <2>6, <2>7 DEF JournalInv
<1>3. ASSUME NEW r \in Runs, OpenFailed(r) \/ Report(r)
      PROVE  JournalInv'
  <2> DEFINE event == IF OpenFailed(r) THEN "plan.error" ELSE "plan.finish"
             status == IF OpenFailed(r) THEN "none" ELSE LastStatus(r)
             new == Line(event, plan[r], status, server)
             start == Line("plan.start", plan[r], "none", server)
  <2>1. /\ pc[r] \in Live /\ pc'[r] = "done" /\ server' = server /\ process' = process
        /\ process[r] = server /\ plan[r] \in Plans /\ plan' = plan /\ results' = results
        /\ pc[r] # "done" /\ pc[r] # "idle" /\ verdict[r] # "blocked"
        /\ \A q \in Runs \ {r} : pc'[q] = pc[q] /\ verdict'[q] = verdict[q]
    BY <1>3 DEF OpenFailed, Report, Goto, Live, IndInv, TypeOK, WithinPlan, JournalInv,
       JournalFits
  <2>2. status \in {"none", "passed", "failed", "error"}
    <3>1. CASE OpenFailed(r)
      BY <3>1
    <3>2. CASE Report(r)
      <4>1. results[r] \in Seq(Entry) /\ results[r] # <<>>
        BY <3>2 DEF Report, IndInv, TypeOK, WithinPlan
      <4>2. Len(results[r]) \in 1 .. Len(results[r])
        BY <4>1
      <4>3. results[r][Len(results[r])] \in Entry
        BY <4>1, <4>2
      <4> QED
        BY <3>2, <4>3 DEF LastStatus, Entry
    <3> QED
      BY <1>3, <3>1, <3>2
  <2>3. /\ audit' = Append(audit, new)
        /\ \/ OpenFailed(r) /\ results[r] = <<>> /\ verdict'[r] = "error"
           \/ ~OpenFailed(r) /\ results[r] # <<>> /\ verdict'[r] = status
    BY <1>3 DEF OpenFailed, Report, Log, LastStatus, IndInv, TypeOK, WithinPlan
  <2>4. new \in Lines
    BY <2>1, <2>2, LineType DEF IndInv, TypeOK, Events, Verdicts
  <2>5. new # start
    <3>1. new.event # start.event
      BY DEF Line
    <3> QED
      BY <3>1
  <2>6. Told(r) = {start}
    BY <2>1 DEF Told
  <2>7. Told(r)' = {start} \cup {new}
    BY <2>1, <2>2, <2>3 DEF Told, Line
  <2>8. \A q \in Runs \ {r} : Told(q)' = Told(q) /\ JournalFits(q)'
    BY <2>1 DEF Told, Line, JournalInv, JournalFits
  <2>9. JournalFits(r)'
    BY <2>1 DEF JournalFits, Live
  <2> HIDE DEF new, start
  <2>10. \A line : Counts(line)'
    BY <2>3, <2>4, <2>5, <2>6, <2>7, <2>8, LineKeepsCounts DEF IndInv, JournalInv
  <2> QED
    BY <2>8, <2>9, <2>10 DEF JournalInv
<1>4. ASSUME NEW r \in Runs,
             \/ Opened(r) \/ Await(r) \/ ShotTaken(r) \/ AllStepsPassed(r) \/ Closed(r)
      PROVE  JournalInv'
  <2>1. PICK where \in Live : Goto(r, where)
    BY <1>4 DEF Opened, Await, ShotTaken, AllStepsPassed, Closed, Live
  <2>2. pc[r] \in Live /\ UNCHANGED <<plan, verdict, journal>> /\ results' = results
    BY <1>4 DEF Opened, Await, ShotTaken, AllStepsPassed, Closed, Live
  <2> QED
    BY <2>1, <2>2, GoingOnIsSilent
<1>5. ASSUME NEW r \in Runs,
             \/ AssertStatus(r) \/ CannotResolve(r) \/ ApiAnswered(r)
             \/ NoWindowFound(r) \/ StepEnded(r)
      PROVE  JournalInv'
  <2>1. PICK entry : Record(r, entry)
    BY <1>5 DEF AssertStatus, CannotResolve, ApiAnswered, NoWindowFound, StepEnded
  <2>2. PICK where \in Live : Goto(r, where)
    BY <2>1 DEF Record, Live
  <2>3. pc[r] \in Live
    BY <1>5 DEF AssertStatus, CannotResolve, ApiAnswered, NoWindowFound, StepEnded, Live
  <2>4. UNCHANGED <<plan, verdict, journal>>
    BY <2>1 DEF Record
  <2>5. \A q \in Runs \ {r} : results'[q] = results[q]
    BY <2>1 DEF Record, IndInv, TypeOK
  <2> QED
    BY <2>2, <2>3, <2>4, <2>5, GoingOnIsSilent
<1>6. ASSUME ServerDies
      PROVE  JournalInv'
  <2>1. /\ \A q \in Runs : pc'[q] = IF pc[q] \in {"idle", "done"} THEN pc[q] ELSE "lost"
        /\ UNCHANGED <<plan, results, verdict, audit, process>>
    BY <1>6 DEF ServerDies
  <2>2. \A q \in Runs : Told(q)' = Told(q)
    BY <2>1 DEF Told, Line
  <2>3. \A q \in Runs : JournalFits(q)'
    BY <2>1 DEF JournalInv, JournalFits, Live
  <2> QED
    BY <2>1, <2>2, <2>3, SilenceKeepsCounts DEF JournalInv
<1>7. CASE UNCHANGED vars
  <2>1. UNCHANGED <<pc, plan, results, verdict, audit, server, process>>
    BY <1>7 DEF vars, journal
  <2>2. \A q \in Runs : Told(q)' = Told(q) /\ JournalFits(q)'
    BY <2>1 DEF Told, Line, JournalInv, JournalFits
  <2> QED
    BY <2>1, <2>2, SilenceKeepsCounts DEF JournalInv
<1> QED
  BY <1>1, <1>2, <1>3, <1>4, <1>5, <1>6, <1>7 DEF Next, Progress

LEMMA InitEstablishesJournal == Init => JournalInv
<1> SUFFICES ASSUME Init
             PROVE  JournalInv
  OBVIOUS
<1>1. \A r \in Runs : JournalFits(r)
  BY DEF Init, JournalFits, Live
<1>2. ASSUME NEW line
      PROVE  Counts(line)
  <2>1. Written(line) = {} /\ Tellers(line) = {}
    BY DEF Init, Written, Tellers, Told
  <2> QED
    BY <2>1 DEF Counts
<1> QED
  BY <1>1, <1>2 DEF JournalInv

\* For any number of calls, over any number of servers: the shared audit file adds up.
THEOREM AuditIsComplete == Spec => []AuditAddsUp
<1>1. JournalInv => AuditAddsUp
  BY DEF JournalInv, Counts, AuditAddsUp
<1> QED
  BY <1>1, InitEstablishesJournal, StepKeepsJournal, IndInvHolds, PTL DEF Spec

\* The approval records are exactly the contents people granted.
THEOREM RecordsAreGrants == Spec => []RecordsMatchGrants
<1>1. Init => RecordsMatchGrants
  BY DEF Init, RecordsMatchGrants
<1>2. RecordsMatchGrants /\ [Next]_vars => RecordsMatchGrants'
  <2> SUFFICES ASSUME RecordsMatchGrants, [Next]_vars
               PROVE  RecordsMatchGrants'
    OBVIOUS
  <2>1. CASE \E p \in Plans : Approve(p) \/ Revoke(p)
    BY <2>1 DEF RecordsMatchGrants, Approve, Revoke, Fingerprint
  <2>2. ASSUME NEW r \in Runs, NEW p \in Plans, Block(r, p) \/ Start(r, p)
        PROVE  RecordsMatchGrants'
    BY <2>2 DEF RecordsMatchGrants, Block, Start, humanVars
  <2>3. ASSUME NEW r \in Runs, Progress(r)
        PROVE  RecordsMatchGrants'
    BY <2>3 DEF RecordsMatchGrants, Progress, Opened, OpenFailed, AssertStatus,
       CannotResolve, Await, ApiAnswered, NoWindowFound, StepEnded, Record,
       ShotTaken, AllStepsPassed, Closed, Report, humanVars
  <2>4. CASE ServerDies \/ UNCHANGED vars
    BY <2>4 DEF RecordsMatchGrants, ServerDies, humanVars, vars
  <2> QED
    BY <2>1, <2>2, <2>3, <2>4 DEF Next
<1> QED
  BY <1>1, <1>2, PTL DEF Spec

\* With the records in step with the grants, the gate is the abstract one.
LEMMA GateAgrees ==
    ASSUME RecordsMatchGrants, NEW p \in Plans
    PROVE  CanExecute(p, approvals) <=> Gate!MayBegin(p)
BY DEF RecordsMatchGrants, CanExecute, Gate!MayBegin, Fingerprint

\* A step of one call that keeps it running is invisible to the promise.
LEMMA InnerStepStutters ==
    ASSUME IndInv, NEW r \in Runs, pc[r] \in Live,
           NEW where \in Live, Goto(r, where),
           UNCHANGED <<granted, plan, verdict>>
    PROVE  UNCHANGED Gate!vars
<1>1. \A q \in Runs : Phase(q)' = Phase(q)
  BY DEF IndInv, TypeOK, Goto, Phase, Live
<1> QED
  BY <1>1 DEF Gate!vars

LEMMA StepImplementsGate ==
    IndInv /\ RecordsMatchGrants /\ [Next]_vars => [Gate!Next]_(Gate!vars)
<1> SUFFICES ASSUME IndInv, RecordsMatchGrants, [Next]_vars
             PROVE  [Gate!Next]_(Gate!vars)
  OBVIOUS
<1> DEFINE phase == [r \in Runs |-> Phase(r)]
<1>1. ASSUME NEW p \in Plans, Approve(p) \/ Revoke(p)
      PROVE  Gate!Next
  <2>1. phase' = phase
    BY <1>1 DEF Approve, Revoke, Phase
  <2>2. Gate!Grant(p) \/ Gate!Withdraw(p)
    BY <1>1, <2>1 DEF Approve, Revoke, Gate!Grant, Gate!Withdraw
  <2> QED
    BY <2>2 DEF Gate!Next
<1>2. ASSUME NEW r \in Runs, NEW p \in Plans, Block(r, p) \/ Start(r, p)
      PROVE  Gate!Next
  <2>1. CASE Block(r, p)
    <3>1. /\ Phase(r) = "idle"
          /\ phase' = [phase EXCEPT ![r] = "refused"]
      BY <2>1 DEF Block, IndInv, TypeOK, Phase, Goto, Live
    <3>2. Gate!Refuse(r, p)
      BY <2>1, <3>1, GateAgrees DEF Block, Arrive, Gate!Refuse, humanVars
    <3> QED
      BY <3>2 DEF Gate!Next
  <2>2. CASE Start(r, p)
    <3>1. Phase(r) = "idle" /\ pc'[r] \in Live
      BY <2>2 DEF Start, IndInv, TypeOK, Phase, Goto, Live
    <3>2. phase' = [phase EXCEPT ![r] = "running"]
      BY <2>2, <3>1 DEF Start, IndInv, TypeOK, Phase, Goto, Live
    <3>3. Gate!Begin(r, p)
      BY <2>2, <3>1, <3>2, GateAgrees DEF Start, Arrive, Gate!Begin, humanVars
    <3> QED
      BY <3>3 DEF Gate!Next
  <2> QED
    BY <1>2, <2>1, <2>2
<1>3. ASSUME NEW r \in Runs, OpenFailed(r) \/ Report(r)
      PROVE  Gate!Next
  <2>1. Phase(r) = "running"
    BY <1>3 DEF OpenFailed, Report, Phase, Live
  <2>2. verdict'[r] \in {"passed", "failed", "error"}
    <3>1. CASE OpenFailed(r)
      BY <3>1 DEF OpenFailed, IndInv, TypeOK
    <3>2. CASE Report(r)
      <4>1. results[r] \in Seq(Entry) /\ results[r] # <<>>
        BY <3>2 DEF Report, IndInv, TypeOK, WithinPlan
      <4>2. Len(results[r]) \in 1 .. Len(results[r])
        BY <4>1
      <4>3. results[r][Len(results[r])] \in Entry
        BY <4>1, <4>2
      <4> QED
        BY <3>2, <4>3 DEF Report, IndInv, TypeOK, Entry
    <3> QED
      BY <1>3, <3>1, <3>2
  <2>3. Phase(r)' = verdict'[r] /\ \A q \in Runs \ {r} : Phase(q)' = Phase(q)
    BY <1>3, <2>2 DEF OpenFailed, Report, IndInv, TypeOK, Goto, Phase, Live
  <2>4. phase' = [phase EXCEPT ![r] = verdict'[r]]
    BY <2>3
  <2>5. UNCHANGED <<granted, plan>>
    BY <1>3 DEF OpenFailed, Report, humanVars
  <2>6. Gate!End(r, verdict'[r])
    BY <2>1, <2>4, <2>5 DEF Gate!End
  <2> QED
    BY <2>2, <2>6 DEF Gate!Next, Gate!Endings
<1>4. ASSUME NEW r \in Runs,
             \/ Opened(r) \/ Await(r) \/ ShotTaken(r) \/ AllStepsPassed(r) \/ Closed(r)
      PROVE  UNCHANGED Gate!vars
  <2>1. PICK where \in Live : Goto(r, where)
    BY <1>4 DEF Opened, Await, ShotTaken, AllStepsPassed, Closed, Live
  <2>2. pc[r] \in Live /\ UNCHANGED <<granted, plan, verdict>>
    BY <1>4 DEF Opened, Await, ShotTaken, AllStepsPassed, Closed, Live, humanVars
  <2> QED
    BY <2>1, <2>2, InnerStepStutters
<1>5. ASSUME NEW r \in Runs,
             \/ AssertStatus(r) \/ CannotResolve(r) \/ ApiAnswered(r)
             \/ NoWindowFound(r) \/ StepEnded(r)
      PROVE  UNCHANGED Gate!vars
  <2>1. \E entry : Record(r, entry)
    BY <1>5 DEF AssertStatus, CannotResolve, ApiAnswered, NoWindowFound, StepEnded
  <2>2. PICK where \in Live : Goto(r, where)
    BY <2>1 DEF Record, Live
  <2>3. pc[r] \in Live
    BY <1>5 DEF AssertStatus, CannotResolve, ApiAnswered, NoWindowFound, StepEnded, Live
  <2>4. UNCHANGED <<granted, plan, verdict>>
    BY <2>1 DEF Record, humanVars
  <2> QED
    BY <2>2, <2>3, <2>4, InnerStepStutters
<1>6. ASSUME ServerDies
      PROVE  Gate!Next
  <2>1. \A r \in Runs : Phase(r)' = IF Phase(r) = "running" THEN "lost" ELSE Phase(r)
    BY <1>6 DEF ServerDies, IndInv, TypeOK, Positions, Verdicts, Phase, Live
  <2>2. phase' = [r \in Runs |-> IF phase[r] = "running" THEN "lost" ELSE phase[r]]
    BY <2>1
  <2>3. Gate!Lose(Runs)
    BY <1>6, <2>2 DEF ServerDies, Gate!Lose, humanVars
  <2> QED
    BY <2>3 DEF Gate!Next
<1>7. CASE UNCHANGED vars
  <2>1. phase' = phase
    BY <1>7 DEF vars, Phase
  <2> QED
    BY <1>7, <2>1 DEF vars, Gate!vars
<1> QED
  BY <1>1, <1>2, <1>3, <1>4, <1>5, <1>6, <1>7 DEF Next, Progress

\* The engine, the approval records and the runner keep the promise of
\* GatedExecution: what begins was permitted and granted, as exactly that content.
THEOREM EngineKeepsTheGate == Spec => GateIsKept
<1>1. Init => Gate!Init
  BY DEF Init, Gate!Init, Phase, Live
<1>2. QED
  BY <1>1, StepImplementsGate, IndInvHolds, RecordsAreGrants, PTL
     DEF Spec, GateIsKept, Gate!Spec
=============================================================================
