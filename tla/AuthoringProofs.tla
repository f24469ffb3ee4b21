--------------------------- MODULE AuthoringProofs --------------------------
(***************************************************************************)
(* Theorems about Authoring, for every set of texts, drafts, calls,        *)
(* processes and credentials.                                              *)
(***************************************************************************)
EXTENDS AuthoringLemmas

\* A call that is given a file it understands runs one plan for each test of it.
PlaceFits(c) ==
    /\ pc[c] \in {"idle", "refused"} => plans[c] = <<>>
    /\ pc[c] \notin {"idle", "refused"} =>
        /\ Understands(asked[c]) /\ asked[c] \in Files(Drafts)
        /\ Len(plans[c]) = Len(PlansOf(asked[c]))
        /\ \E S \in SUBSET Secrets : plans[c] = ScrubAll(PlansOf(asked[c]), S)
    /\ Len(results[c]) <= Len(plans[c])
    /\ pc[c] \in {"running", "lost"} => HasNext(c)

\* The verdict is about all of its tests.
VerdictFits(c) ==
    pc[c] = "done" => ~HasNext(c) /\ (overall[c] = "passed" <=> AllPassed(c))

CallFits(c) == PlaceFits(c) /\ VerdictFits(c)
CallInv == TypeOK /\ \A c \in Calls : CallFits(c)

-----------------------------------------------------------------------------
(***************************************************************************)
(* What the sanitizer leaves of a plan.                                    *)
(***************************************************************************)

\* A file that is understood, scrubbed, is as many plans as it has tests.
LEMMA ScrubbedFile ==
    ASSUME NEW text \in Files(Drafts), Understands(text), NEW S \in SUBSET Secrets
    PROVE  /\ ScrubAll(PlansOf(text), S) \in Seq(Plans)
           /\ Len(ScrubAll(PlansOf(text), S)) = Len(PlansOf(text))
           /\ Len(PlansOf(text)) \in 1 .. MaxTests /\ MaxTests \in Nat
<1>1. /\ PlansOf(text) \in Seq(PlanContent) /\ Len(PlansOf(text)) \in 1 .. MaxTests
      /\ \A i \in DOMAIN PlansOf(text) : Scrub(PlansOf(text)[i], S) \in Plans
      /\ MaxTests \in Nat
  BY AuthoringAssumption DEF AuthoringAssumption
<1> DEFINE n == Len(PlansOf(text))
<1>2. n \in Nat /\ DOMAIN PlansOf(text) = 1 .. n
  BY <1>1
<1>3. ScrubAll(PlansOf(text), S) \in [1 .. n -> Plans]
  BY <1>1, <1>2 DEF ScrubAll
<1> HIDE DEF n
<1>4. ScrubAll(PlansOf(text), S) \in Seq(Plans)
  BY <1>2, <1>3, SeqDef
<1>5. DOMAIN ScrubAll(PlansOf(text), S) = 1 .. n
  BY <1>3
<1>6. Len(ScrubAll(PlansOf(text), S)) = n
  BY <1>2, <1>4, <1>5, LenProperties
<1> QED
  BY <1>1, <1>4, <1>6 DEF n

\* No token of a scrubbed plan is one of the secrets.
LEMMA ScrubHides ==
    ASSUME NEW p \in PlanContent, NEW S, Redacted \notin S
    PROVE  TokensOf(Scrub(p, S)) \cap S = {}
<1> DEFINE q == Scrub(p, S)
<1>1. ASSUME NEW t PROVE ScrubText(t, S) \notin S
  BY DEF ScrubText
<1>2. /\ q.name = ScrubText(p.name, S) /\ q.environment = ScrubText(p.environment, S)
      /\ q.steps = [i \in DOMAIN p.steps |-> ScrubStep(p.steps[i], S)]
  BY DEF Scrub, PlanContent
<1>3. ASSUME NEW i \in DOMAIN p.steps
      PROVE  /\ q.steps[i].who = ScrubText(p.steps[i].who, S)
             /\ q.steps[i].words = ScrubWords(p.steps[i].words, S)
  <2>1. p.steps[i] \in Step
    BY DEF PlanContent
  <2>2. q.steps[i] = ScrubStep(p.steps[i], S)
    BY <1>2
  <2> HIDE DEF q
  <2> QED
    BY <2>1, <2>2 DEF ScrubStep, Step
<1>4. DOMAIN q.steps = DOMAIN p.steps
  BY <1>2
<1> HIDE DEF q
<1>5. ASSUME NEW i \in DOMAIN q.steps, NEW j \in DOMAIN q.steps[i].words
      PROVE  q.steps[i].words[j] \notin S
  <2>1. q.steps[i].words = ScrubWords(p.steps[i].words, S)
    BY <1>3, <1>4
  <2>2. j \in DOMAIN p.steps[i].words
    BY <2>1 DEF ScrubWords
  <2>3. q.steps[i].words[j] = ScrubText(p.steps[i].words[j], S)
    BY <2>1, <2>2 DEF ScrubWords
  <2> QED
    BY <2>3, <1>1
<1>6. ASSUME NEW t \in TokensOf(q) PROVE t \notin S
  <2>1. CASE t \in {q.name, q.environment}
    BY <2>1, <1>1, <1>2
  <2>2. CASE \E i \in DOMAIN q.steps : t = q.steps[i].who
    BY <2>2, <1>1, <1>3, <1>4
  <2>3. CASE \E i \in DOMAIN q.steps : \E j \in DOMAIN q.steps[i].words : t = q.steps[i].words[j]
    BY <2>3, <1>5
  <2> QED
    BY <2>1, <2>2, <2>3 DEF TokensOf
<1> QED
  BY <1>6 DEF q

\* What was scrubbed is scrubbed again as if all the secrets had been known at once.
LEMMA ScrubTwice ==
    ASSUME NEW p \in PlanContent, NEW S, NEW T
    PROVE  Scrub(Scrub(p, S), T) = Scrub(p, S \cup T)
<1>1. ASSUME NEW t PROVE ScrubText(ScrubText(t, S), T) = ScrubText(t, S \cup T)
  BY DEF ScrubText
<1>2. ASSUME NEW w PROVE ScrubWords(ScrubWords(w, S), T) = ScrubWords(w, S \cup T)
  BY <1>1 DEF ScrubWords
<1>3. ASSUME NEW step \in Step
      PROVE  ScrubStep(ScrubStep(step, S), T) = ScrubStep(step, S \cup T)
  <2> DEFINE once == ScrubStep(step, S)
  <2>1. /\ once = [step EXCEPT !.words = ScrubWords(step.words, S), !.who = ScrubText(step.who, S),
                               !.destructive = Destructive(ScrubWords(step.words, S))]
        /\ once.words = ScrubWords(step.words, S) /\ once.who = ScrubText(step.who, S)
    BY DEF ScrubStep, Step
  <2> HIDE DEF once
  <2>2. ScrubStep(once, T) =
            [once EXCEPT !.words = ScrubWords(step.words, S \cup T),
                         !.who = ScrubText(step.who, S \cup T),
                         !.destructive = Destructive(ScrubWords(step.words, S \cup T))]
    BY <1>1, <1>2, <2>1 DEF ScrubStep
  <2> QED
    BY <2>1, <2>2 DEF once, ScrubStep, Step
<1>4. p.steps \in Seq(Step)
  BY DEF PlanContent
<1> DEFINE once == Scrub(p, S)
<1>5. /\ once = [p EXCEPT !.name = ScrubText(p.name, S), !.environment = ScrubText(p.environment, S),
                          !.steps = [i \in DOMAIN p.steps |-> ScrubStep(p.steps[i], S)]]
      /\ once.name = ScrubText(p.name, S) /\ once.environment = ScrubText(p.environment, S)
      /\ once.steps = [i \in DOMAIN p.steps |-> ScrubStep(p.steps[i], S)]
  BY DEF Scrub, PlanContent
<1> HIDE DEF once
<1>6. DOMAIN once.steps = DOMAIN p.steps
  BY <1>5
<1>7. [i \in DOMAIN once.steps |-> ScrubStep(once.steps[i], T)] =
          [i \in DOMAIN p.steps |-> ScrubStep(p.steps[i], S \cup T)]
  <2>1. ASSUME NEW i \in DOMAIN p.steps
        PROVE  ScrubStep(once.steps[i], T) = ScrubStep(p.steps[i], S \cup T)
    <3>1. p.steps[i] \in Step
      BY <1>4
    <3>2. once.steps[i] = ScrubStep(p.steps[i], S)
      BY <1>5
    <3> QED
      BY <3>1, <3>2, <1>3
  <2> QED
    BY <2>1, <1>6
<1>8. Scrub(once, T) =
          [once EXCEPT !.name = ScrubText(p.name, S \cup T),
                       !.environment = ScrubText(p.environment, S \cup T),
                       !.steps = [i \in DOMAIN p.steps |-> ScrubStep(p.steps[i], S \cup T)]]
  BY <1>1, <1>5, <1>7 DEF Scrub
<1> QED
  BY <1>5, <1>8 DEF once, Scrub, PlanContent

\* What a call answers with are plans.
LEMMA ScrubbedAgain ==
    ASSUME NEW text \in Files(Drafts), Understands(text), NEW S \in SUBSET Secrets,
           NEW T \in SUBSET Secrets
    PROVE  ScrubAll(ScrubAll(PlansOf(text), S), T) = ScrubAll(PlansOf(text), S \cup T)
<1>1. PlansOf(text) \in Seq(PlanContent)
  BY AuthoringAssumption DEF AuthoringAssumption
<1>2. DOMAIN ScrubAll(PlansOf(text), S) = DOMAIN PlansOf(text)
  BY DEF ScrubAll
<1>3. ASSUME NEW i \in DOMAIN PlansOf(text)
      PROVE  Scrub(ScrubAll(PlansOf(text), S)[i], T) = Scrub(PlansOf(text)[i], S \cup T)
  <2>1. PlansOf(text)[i] \in PlanContent
    BY <1>1
  <2>2. ScrubAll(PlansOf(text), S)[i] = Scrub(PlansOf(text)[i], S)
    BY DEF ScrubAll
  <2> QED
    BY <2>1, <2>2, ScrubTwice
<1> QED
  BY <1>2, <1>3 DEF ScrubAll

-----------------------------------------------------------------------------
(***************************************************************************)
(* The invariant.                                                          *)
(***************************************************************************)

\* A call that nothing happened to.
LEMMA UnmovedFits ==
    ASSUME NEW c, CallFits(c), pc'[c] = pc[c], asked'[c] = asked[c], plans'[c] = plans[c],
           results'[c] = results[c], overall'[c] = overall[c]
    PROVE  CallFits(c)'
BY DEF CallFits, PlaceFits, VerdictFits, HasNext, AllPassed, Count

LEMMA MoveKeepsInv ==
    ASSUME CallInv, TypeOK', NEW c \in Calls, CallFits(c)',
           \A d \in Calls \ {c} :
               /\ pc'[d] = pc[d] /\ asked'[d] = asked[d] /\ plans'[d] = plans[d]
               /\ results'[d] = results[d] /\ overall'[d] = overall[d]
    PROVE  CallInv'
BY UnmovedFits DEF CallInv

\* What is known of a call between two tests.
LEMMA AtTestFacts ==
    ASSUME CallInv, NEW c \in Calls
    PROVE  /\ results[c] \in Seq(Entry) /\ Len(results[c]) \in Nat
           /\ DOMAIN results[c] = 1 .. Len(results[c])
           /\ plans[c] \in Seq(Plans) /\ Len(plans[c]) \in 0 .. MaxTests
           /\ DOMAIN plans[c] = 1 .. Len(plans[c]) /\ MaxTests \in Nat
           /\ Len(results[c]) <= Len(plans[c])
           /\ pc[c] \notin {"idle", "refused"} => Len(plans[c]) >= 1
           /\ HasNext(c) => /\ Len(results[c]) + 1 \in 1 .. Len(plans[c])
                            /\ Current(c) \in Plans
<1>1. /\ results[c] \in Seq(Entry) /\ plans[c] \in Seq(Plans) /\ MaxTests \in Nat
      /\ Len(results[c]) <= Len(plans[c])
  BY AuthoringAssumption DEF AuthoringAssumption, CallInv, TypeOK, CallFits, PlaceFits
<1>2. CASE pc[c] \in {"idle", "refused"}
  <2>1. plans[c] = <<>>
    BY <1>2 DEF CallInv, CallFits, PlaceFits
  <2> QED
    BY <1>1, <1>2, <2>1 DEF HasNext
<1>3. CASE pc[c] \notin {"idle", "refused"}
  <2>1. Len(plans[c]) \in 1 .. MaxTests
    BY <1>3, AuthoringAssumption DEF AuthoringAssumption, CallInv, CallFits, PlaceFits
  <2> QED
    BY <1>1, <1>3, <2>1 DEF HasNext, Current
<1> QED
  BY <1>2, <1>3

\* An entry is added behind those that are there.
LEMMA EnterAppends ==
    ASSUME CallInv, NEW c \in Calls, NEW status \in Entry, Enter(c, status)
    PROVE  /\ results' \in [Calls -> Seq(Entry)]
           /\ Len(results'[c]) = Len(results[c]) + 1
           /\ \A i \in 1 .. Len(results[c]) : results'[c][i] = results[c][i]
           /\ results'[c][Len(results[c]) + 1] = status
           /\ \A d \in Calls \ {c} : results'[d] = results[d]
<1>1. results[c] \in Seq(Entry) /\ results \in [Calls -> Seq(Entry)]
  BY DEF CallInv, TypeOK
<1>2. results' = [results EXCEPT ![c] = Append(results[c], status)]
  BY DEF Enter
<1>3. /\ Append(results[c], status) \in Seq(Entry)
      /\ Len(Append(results[c], status)) = Len(results[c]) + 1
      /\ Append(results[c], status)[Len(results[c]) + 1] = status
      /\ \A i \in 1 .. Len(results[c]) : Append(results[c], status)[i] = results[c][i]
  BY <1>1, AppendProperties
<1>4. results'[c] = Append(results[c], status)
  BY <1>1, <1>2
<1> QED
  BY <1>1, <1>2, <1>3, <1>4

\* An entry, and then the next test.
LEMMA EnterFits ==
    ASSUME CallInv, NEW c \in Calls, NEW status \in Entry, Enter(c, status),
           pc[c] \in {"going", "running"}, HasNext(c), pc'[c] = "going",
           plans'[c] = plans[c], asked'[c] = asked[c]
    PROVE  CallFits(c)'
<1>1. Len(results'[c]) = Len(results[c]) + 1
  BY EnterAppends
<1>2. Len(results'[c]) <= Len(plans[c])
  BY <1>1, AtTestFacts DEF HasNext
<1> QED
  BY <1>2 DEF CallFits, PlaceFits, VerdictFits, CallInv

LEMMA StepKeepsCallInv == CallInv /\ [Next]_vars => CallInv'
<1> SUFFICES ASSUME CallInv, [Next]_vars
             PROVE  CallInv'
  OBVIOUS
<1>1. CASE \/ \E p \in Plans : Approve(p) \/ Revoke(p)
           \/ \E d \in Drafts : Draft(d)
  <2>1. UNCHANGED <<callVars, known>>
    BY <1>1 DEF Approve, Revoke, Draft
  <2>2. TypeOK'
    BY <1>1, <2>1 DEF CallInv, TypeOK, Approve, Revoke, Draft, callVars
  <2> QED
    BY <2>1, <2>2, UnmovedFits DEF CallInv, callVars
<1>2. ASSUME NEW c \in Calls, NEW text \in Files(drafted), Begin(c, text)
      PROVE  CallInv'
  <2>1. text \in Files(Drafts)
    BY DEF Files, CallInv, TypeOK
  <2>2. Known(c) \in SUBSET Secrets
    BY AuthoringAssumption DEF AuthoringAssumption, Known, CallInv, TypeOK
  <2>3. /\ pc[c] = "idle" /\ plans[c] = <<>> /\ results[c] = <<>>
        /\ asked' = [asked EXCEPT ![c] = text]
        /\ UNCHANGED <<drafted, approvals, known, results, overall, returned>>
    <3>1. Len(results[c]) <= 0 /\ results[c] \in Seq(Entry)
      BY <1>2 DEF Begin, CallInv, TypeOK, CallFits, PlaceFits
    <3> QED
      BY <1>2, <3>1 DEF Begin, CallInv, CallFits, PlaceFits
  <2>4. CASE Understands(text)
    <3> DEFINE run == ScrubAll(PlansOf(text), Known(c))
    <3>1. run \in Seq(Plans) /\ Len(run) = Len(PlansOf(text)) /\ Len(PlansOf(text)) \in 1 .. MaxTests
      BY <2>1, <2>2, <2>4, ScrubbedFile
    <3>2. plans' = [plans EXCEPT ![c] = run] /\ pc' = [pc EXCEPT ![c] = "going"]
      BY <1>2, <2>4 DEF Begin, Goto
    <3> HIDE DEF run
    <3>3. TypeOK'
      BY <2>1, <2>3, <3>1, <3>2 DEF CallInv, TypeOK
    <3>4. pc'[c] = "going" /\ plans'[c] = run /\ asked'[c] = text
      BY <2>3, <3>2 DEF CallInv, TypeOK
    <3>5. CallFits(c)'
      BY <2>1, <2>2, <2>3, <2>4, <3>1, <3>4 DEF CallFits, PlaceFits, VerdictFits, run
    <3> QED
      BY <2>3, <3>2, <3>3, <3>5, MoveKeepsInv DEF CallInv, TypeOK
  <2>5. CASE ~Understands(text)
    <3>1. plans' = plans /\ pc' = [pc EXCEPT ![c] = "refused"]
      BY <1>2, <2>5 DEF Begin, Goto
    <3>2. TypeOK'
      BY <2>1, <2>3, <3>1 DEF CallInv, TypeOK
    <3>3. CallFits(c)'
      BY <2>3, <3>1 DEF CallFits, PlaceFits, VerdictFits, CallInv, TypeOK
    <3> QED
      BY <2>3, <3>1, <3>2, <3>3, MoveKeepsInv DEF CallInv, TypeOK
  <2> QED
    BY <2>4, <2>5
<1>3. ASSUME NEW c \in Calls, RunNext(c)
      PROVE  CallInv'
  <2>1. pc[c] = "going" /\ HasNext(c) /\ UNCHANGED <<drafted, approvals, known, asked, plans, overall, returned>>
    BY <1>3 DEF RunNext
  <2>2. CASE CanExecute(Current(c), approvals)
    <3>1. pc' = [pc EXCEPT ![c] = "running"] /\ results' = results
      BY <1>3, <2>2 DEF RunNext, Goto
    <3>2. TypeOK'
      BY <2>1, <3>1 DEF CallInv, TypeOK
    <3>3. CallFits(c)'
      BY <2>1, <3>1 DEF CallFits, PlaceFits, VerdictFits, CallInv, TypeOK, HasNext
    <3> QED
      BY <2>1, <3>1, <3>2, <3>3, MoveKeepsInv DEF CallInv, TypeOK
  <2>3. CASE ~CanExecute(Current(c), approvals)
    <3>1. Enter(c, "blocked") /\ pc' = pc /\ "blocked" \in Entry
      BY <1>3, <2>3 DEF RunNext, Entry
    <3>2. TypeOK'
      BY <2>1, <3>1, EnterAppends DEF CallInv, TypeOK
    <3>3. CallFits(c)'
      BY <2>1, <3>1, EnterFits
    <3> QED
      BY <2>1, <3>1, <3>2, <3>3, EnterAppends, MoveKeepsInv
  <2> QED
    BY <2>2, <2>3
<1>4. ASSUME NEW c \in Calls, SignIn(c)
      PROVE  CallInv'
  <2>1. PICK who \in DOMAIN CredentialsOf :
            /\ known' = [known EXCEPT ![ProcessOf[c]] = @ \cup CredentialsOf[who]]
            /\ UNCHANGED <<drafted, approvals, callVars>>
    BY <1>4 DEF SignIn, Actors
  <2>2. CredentialsOf[who] \subseteq Secrets
    BY DEF Secrets
  <2>3. TypeOK'
    BY <2>1, <2>2, AuthoringAssumption DEF AuthoringAssumption, CallInv, TypeOK, callVars
  <2> QED
    BY <2>1, <2>3, UnmovedFits DEF CallInv, callVars
<1>5. ASSUME NEW c \in Calls, Ended(c)
      PROVE  CallInv'
  <2>1. PICK status \in {"passed", "failed", "error"} : Enter(c, status)
    BY <1>5 DEF Ended
  <2>2. /\ pc[c] = "running" /\ pc' = [pc EXCEPT ![c] = "going"] /\ HasNext(c)
        /\ UNCHANGED <<drafted, approvals, known, asked, plans, overall, returned>>
        /\ status \in Entry
    BY <1>5 DEF Ended, Goto, Entry, CallInv, CallFits, PlaceFits
  <2>3. TypeOK'
    BY <2>1, <2>2, EnterAppends DEF CallInv, TypeOK
  <2>4. pc'[c] = "going" /\ \A d \in Calls \ {c} : pc'[d] = pc[d]
    BY <1>1, <2>2 DEF CallInv, TypeOK
  <2>5. CallFits(c)'
    BY <2>1, <2>2, <2>4, EnterFits
  <2> QED
    BY <2>1, <2>2, <2>3, <2>4, <2>5, EnterAppends, MoveKeepsInv
<1>6. ASSUME NEW c \in Calls, Finish(c)
      PROVE  CallInv'
  <2>1. /\ pc[c] = "going" /\ ~HasNext(c) /\ pc' = [pc EXCEPT ![c] = "done"]
        /\ overall' = [overall EXCEPT ![c] = IF AllPassed(c) THEN "passed" ELSE "failed"]
        /\ returned' = [returned EXCEPT ![c] = ScrubAll(plans[c], Known(c))]
        /\ UNCHANGED <<drafted, approvals, known, asked, plans, results>>
    BY <1>6 DEF Finish, Goto
  <2>2. ScrubAll(plans[c], Known(c)) \in Seq(Plans)
    <3>1. Known(c) \in SUBSET Secrets
      BY AuthoringAssumption DEF AuthoringAssumption, Known, CallInv, TypeOK
    <3>2. PICK S \in SUBSET Secrets : plans[c] = ScrubAll(PlansOf(asked[c]), S)
      BY <2>1 DEF CallInv, CallFits, PlaceFits
    <3>3. asked[c] \in Files(Drafts) /\ Understands(asked[c])
      BY <2>1 DEF CallInv, CallFits, PlaceFits
    <3>4. S \cup Known(c) \in SUBSET Secrets
      BY <3>1
    <3>5. ScrubAll(plans[c], Known(c)) = ScrubAll(PlansOf(asked[c]), S \cup Known(c))
      BY <3>1, <3>2, <3>3, ScrubbedAgain
    <3>6. ScrubAll(PlansOf(asked[c]), S \cup Known(c)) \in Seq(Plans)
      BY <3>3, <3>4, ScrubbedFile
    <3> QED
      BY <3>5, <3>6
  <2>3. TypeOK'
    BY <2>1, <2>2 DEF CallInv, TypeOK
  <2>4. CallFits(c)'
    BY <2>1 DEF CallFits, PlaceFits, VerdictFits, CallInv, TypeOK, HasNext, AllPassed, Count
  <2> QED
    BY <2>1, <2>3, <2>4, MoveKeepsInv DEF CallInv, TypeOK
<1>7. ASSUME NEW q \in Processes, ProcessDies(q)
      PROVE  CallInv'
  <2>1. /\ \A c \in Calls : pc'[c] = pc[c] \/ (pc[c] = "running" /\ pc'[c] = "lost")
                                          \/ (pc[c] = "going" /\ pc'[c] = "stopped")
        /\ UNCHANGED <<drafted, approvals, asked, plans, results, overall, returned>>
        /\ known' = [known EXCEPT ![q] = {}]
    BY <1>7 DEF ProcessDies
  <2>2. pc' \in [Calls -> {"idle", "going", "running", "done", "refused", "lost", "stopped"}]
    BY <1>7 DEF ProcessDies, CallInv, TypeOK
  <2>3. TypeOK'
    BY <2>1, <2>2 DEF CallInv, TypeOK
  <2>4. ASSUME NEW c \in Calls PROVE CallFits(c)'
    BY <2>1 DEF CallInv, CallFits, PlaceFits, VerdictFits, HasNext, AllPassed, Count
  <2> QED
    BY <2>3, <2>4 DEF CallInv
<1>8. CASE UNCHANGED vars
  <2>1. TypeOK'
    BY <1>8 DEF CallInv, TypeOK, vars, callVars
  <2> QED
    BY <1>8, <2>1, UnmovedFits DEF CallInv, vars, callVars
<1> QED
  BY <1>1, <1>2, <1>3, <1>4, <1>5, <1>6, <1>7, <1>8 DEF Next

LEMMA CallInvHolds == Spec => []CallInv
<1>1. Init => CallInv
  <2> SUFFICES ASSUME Init
               PROVE  CallInv
    OBVIOUS
  <2>1. TypeOK
    <3>1. drafted \subseteq Drafts /\ approvals \subseteq {Fingerprint(p) : p \in Plans}
      BY DEF Init
    <3>2. known \in [Processes -> SUBSET Secrets]
      BY DEF Init
    <3>3. /\ pc \in [Calls -> {"idle", "going", "running", "done", "refused", "lost", "stopped"}]
          /\ overall \in [Calls -> {"none", "passed", "failed"}]
      BY DEF Init
    <3>4. asked \in [Calls -> Files(Drafts) \cup {NoText}]
      BY DEF Init
    <3>5. plans \in [Calls -> Seq(Plans)] /\ results \in [Calls -> Seq(Entry)] /\ returned \in [Calls -> Seq(Plans)]
      BY DEF Init
    <3> QED
      BY <3>1, <3>2, <3>3, <3>4, <3>5 DEF TypeOK
  <2>2. ASSUME NEW c \in Calls
        PROVE  CallFits(c)
    BY DEF Init, CallFits, PlaceFits, VerdictFits
  <2> QED
    BY <2>1, <2>2 DEF CallInv
<1> QED
  BY <1>1, StepKeepsCallInv, PTL DEF Spec

-----------------------------------------------------------------------------
(***************************************************************************)
(* The theorems.                                                           *)
(***************************************************************************)

\* Every variable keeps its type: whatever is scrubbed, and scrubbed again, is still a plan.
THEOREM AuthoringTypes == Spec => []TypeOK
<1>1. CallInv => TypeOK
  BY DEF CallInv
<1> QED
  BY <1>1, CallInvHolds, PTL

\* A call says "passed" of a file when every test of it was run and passed, and only then.
THEOREM FileVerdictsAreHonest == Spec => []FileVerdictIsHonest
<1>1. ASSUME CallInv, NEW c \in Calls, pc[c] = "done"
      PROVE  overall[c] = "passed" <=>
                 /\ Len(results[c]) = Len(PlansOf(asked[c]))
                 /\ \A i \in DOMAIN results[c] : results[c][i] = "passed"
  <2>1. /\ ~HasNext(c) /\ (overall[c] = "passed" <=> AllPassed(c))
        /\ Len(plans[c]) = Len(PlansOf(asked[c]))
    BY <1>1 DEF CallInv, CallFits, PlaceFits, VerdictFits
  <2>2. /\ Len(results[c]) \in Nat /\ Len(plans[c]) \in Nat /\ Len(plans[c]) >= 1
        /\ Len(results[c]) <= Len(plans[c]) /\ results[c] \in Seq(Entry)
    BY <1>1, AtTestFacts
  <2>3. Len(results[c]) = Len(PlansOf(asked[c]))
    BY <2>1, <2>2 DEF HasNext
  <2>4. results[c] # <<>>
    BY <2>1, <2>2, <2>3
  <2> QED
    BY <2>1, <2>3, <2>4 DEF AllPassed, Count
<1>2. CallInv => FileVerdictIsHonest
  BY <1>1 DEF FileVerdictIsHonest
<1> QED
  BY <1>2, CallInvHolds, PTL

\* No answer holds a secret its process has resolved by then, whichever call resolved it.
THEOREM SecretsStay == Spec => SecretsStayInside
<1>1. ASSUME CallInv, [Next]_vars, NEW c \in Calls, pc'[c] = "done", pc[c] # "done"
      PROVE  \A i \in DOMAIN returned'[c] : TokensOf(returned'[c][i]) \cap Known(c)' = {}
  <2>1. Finish(c)
    <3>1. pc \in [Calls -> {"idle", "going", "running", "done", "refused", "lost", "stopped"}]
      BY <1>1 DEF CallInv, TypeOK
    <3> QED
      BY <1>1, <3>1 DEF Next, Approve, Revoke, Draft, Begin, RunNext, SignIn, Ended, Finish,
         ProcessDies, Goto, vars, callVars
  <2>2. /\ returned' = [returned EXCEPT ![c] = ScrubAll(plans[c], Known(c))]
        /\ known' = known
    BY <2>1 DEF Finish
  <2>3. Known(c)' = Known(c) /\ Known(c) \in SUBSET Secrets
    BY <1>1, <2>2, AuthoringAssumption DEF AuthoringAssumption, Known, CallInv, TypeOK
  <2>4. returned'[c] = ScrubAll(plans[c], Known(c))
    BY <1>1, <2>2 DEF CallInv, TypeOK
  <2>5. ASSUME NEW i \in DOMAIN plans[c]
        PROVE  TokensOf(Scrub(plans[c][i], Known(c))) \cap Known(c) = {}
    <3>1. plans[c][i] \in PlanContent
      BY <1>1, AtTestFacts, GateAssumption DEF GateAssumption
    <3>2. Redacted \notin Known(c)
      BY <2>3, AuthoringAssumption DEF AuthoringAssumption
    <3> QED
      BY <3>1, <3>2, ScrubHides
  <2> QED
    BY <2>3, <2>4, <2>5 DEF ScrubAll
<1>2. CallInv /\ [Next]_vars =>
          [\A c \in Calls : pc'[c] = "done" /\ pc[c] # "done" =>
               \A i \in DOMAIN returned'[c] : TokensOf(returned'[c][i]) \cap Known(c)' = {}]_vars
  BY <1>1
<1> QED
  BY <1>2, CallInvHolds, PTL DEF Spec, SecretsStayInside

-----------------------------------------------------------------------------
(***************************************************************************)
(* A call is a sequence of gated executions.                               *)
(***************************************************************************)

Granted == {p \in Plans : Fingerprint(p) \in approvals}
Subject(c, i) == IF CameTo(c, i) THEN plans[c][i] ELSE NoPlan
Phases == [e \in Executions |-> Phase(e[1], e[2])]
Subjects == [e \in Executions |-> Subject(e[1], e[2])]

LEMMA GateVariables ==
    /\ Gate!vars = <<Granted, Phases, Subjects>>
    /\ Gate!vars' = <<Granted', Phases', Subjects'>>
BY DEF Gate!vars, Granted, Phases, Subjects, Subject

LEMMA GateAgrees ==
    ASSUME NEW p \in Plans
    PROVE  CanExecute(p, approvals) <=> Gate!MayBegin(p)
BY DEF CanExecute, Gate!MayBegin

\* The executions of a call whose plans and entries stay, and which does not begin, or lose, one.
LEMMA RestStutters ==
    ASSUME NEW c, NEW i, results'[c] = results[c], plans'[c] = plans[c],
           \/ pc'[c] = pc[c]
           \/ pc[c] \notin {"running", "lost"} /\ pc'[c] \notin {"running", "lost"}
    PROVE  Subject(c, i)' = Subject(c, i) /\ Phase(c, i)' = Phase(c, i)
BY DEF Subject, Phase, CameTo

Quiet(c) ==
    /\ results'[c] = results[c] /\ plans'[c] = plans[c]
    /\ \/ pc'[c] = pc[c]
       \/ pc[c] \notin {"running", "lost"} /\ pc'[c] \notin {"running", "lost"}

\* Nothing is to be seen of a step that leaves that alone in every call.
LEMMA QuietStutters ==
    ASSUME approvals' = approvals, \A c \in Calls : Quiet(c)
    PROVE  UNCHANGED Gate!vars
<1>1. \A e \in Executions : e[1] \in Calls
  BY DEF Executions
<1>2. Phases' = Phases /\ Subjects' = Subjects
  BY <1>1, RestStutters DEF Phases, Subjects, Quiet
<1>3. Granted' = Granted
  BY DEF Granted
<1> QED
  BY <1>2, <1>3, GateVariables

\* An entry behind the others, of the plan whose turn it is.
LEMMA EntryShows ==
    ASSUME CallInv, NEW c \in Calls, NEW status \in Entry, Enter(c, status), HasNext(c),
           pc[c] \in {"going", "running"}, pc'[c] = "going", plans' = plans,
           \A d \in Calls \ {c} : pc'[d] = pc[d]
    PROVE  LET e == <<c, Len(results[c]) + 1>> IN
           /\ e \in Executions
           /\ Subjects[e] = IF pc[c] = "running" THEN Current(c) ELSE NoPlan
           /\ Phases[e] = IF pc[c] = "running" THEN "running" ELSE "idle"
           /\ Subjects' = [Subjects EXCEPT ![e] = Current(c)]
           /\ Phases' = [Phases EXCEPT ![e] = IF status = "blocked" THEN "refused" ELSE status]
<1>0. PICK n : n = Len(results[c])
  OBVIOUS
<1> DEFINE e == <<c, n + 1>>
           p == Current(c)
<1>1. /\ n \in Nat /\ DOMAIN results[c] = 1 .. n /\ n + 1 \in 1 .. MaxTests
      /\ n + 1 \in 1 .. Len(plans[c]) /\ p = plans[c][n + 1] /\ MaxTests \in Nat
  BY <1>0, AtTestFacts DEF Current
<1>2. /\ results' \in [Calls -> Seq(Entry)] /\ Len(results'[c]) = n + 1
      /\ \A i \in 1 .. n : results'[c][i] = results[c][i]
      /\ results'[c][n + 1] = status
      /\ \A d \in Calls \ {c} : results'[d] = results[d]
  BY <1>0, EnterAppends
<1>3. DOMAIN results'[c] = 1 .. n + 1
  BY <1>2
<1>4. e \in Executions /\ e[1] = c /\ e[2] = n + 1
  BY <1>1 DEF Executions
<1>5. /\ Subjects[e] = IF pc[c] = "running" THEN p ELSE NoPlan
      /\ Phases[e] = IF pc[c] = "running" THEN "running" ELSE "idle"
  BY <1>0, <1>1, <1>4 DEF Subjects, Phases, Subject, Phase, CameTo
<1>6. /\ Subject(c, n + 1)' = p
      /\ Phase(c, n + 1)' = IF status = "blocked" THEN "refused" ELSE status
  <2>1. n + 1 \in DOMAIN results'[c]
    BY <1>1, <1>3
  <2> QED
    BY <1>1, <1>2, <2>1 DEF Subject, Phase, CameTo
<1>7. ASSUME NEW i \in 1 .. MaxTests, i # n + 1
      PROVE  Subject(c, i)' = Subject(c, i) /\ Phase(c, i)' = Phase(c, i)
  <2>1. CASE i \in 1 .. n
    BY <2>1, <1>1, <1>2, <1>3 DEF Subject, Phase, CameTo
  <2>2. CASE i \notin 1 .. n
    <3>1. ~CameTo(c, i)
      BY <2>2, <1>0, <1>1, <1>7 DEF CameTo
    <3>2. ~CameTo(c, i)'
      BY <2>2, <1>1, <1>2, <1>3, <1>7 DEF CameTo
    <3> QED
      BY <3>1, <3>2 DEF Subject, Phase
  <2> QED
    BY <2>1, <2>2
<1>8. ASSUME NEW f \in Executions, f # e
      PROVE  Subjects'[f] = Subjects[f] /\ Phases'[f] = Phases[f]
  <2>1. f[1] \in Calls /\ f[2] \in 1 .. MaxTests /\ f = <<f[1], f[2]>>
    BY DEF Executions
  <2>2. CASE f[1] = c
    BY <2>1, <2>2, <1>7, <1>8 DEF Subjects, Phases
  <2>3. CASE f[1] # c
    <3>1. results'[f[1]] = results[f[1]] /\ plans'[f[1]] = plans[f[1]] /\ pc'[f[1]] = pc[f[1]]
      BY <2>1, <2>3, <1>2
    <3>2. Subject(f[1], f[2])' = Subject(f[1], f[2]) /\ Phase(f[1], f[2])' = Phase(f[1], f[2])
      BY <3>1, RestStutters
    <3> QED
      BY <3>2 DEF Subjects, Phases
  <2> QED
    BY <2>2, <2>3
<1>9. Subjects'[e] = p /\ Phases'[e] = Phase(c, n + 1)'
  <2>1. Subjects'[e] = Subject(e[1], e[2])' /\ Phases'[e] = Phase(e[1], e[2])'
    <3> HIDE DEF e
    <3> QED
      BY <1>4 DEF Subjects, Phases
  <2>2. Subject(e[1], e[2])' = Subject(c, n + 1)' /\ Phase(e[1], e[2])' = Phase(c, n + 1)'
    OBVIOUS
  <2> QED
    BY <2>1, <2>2, <1>6
<1> HIDE DEF e, p
<1>10. /\ Subjects' = [Subjects EXCEPT ![e] = p]
       /\ Phases' = [Phases EXCEPT ![e] = Phase(c, n + 1)']
  BY <1>4, <1>8, <1>9 DEF Subjects, Phases
<1> QED
  BY <1>0, <1>4, <1>5, <1>6, <1>10 DEF e, p

LEMMA StepImplementsGate == CallInv /\ [Next]_vars => [Gate!Next]_(Gate!vars)
<1> SUFFICES ASSUME CallInv, [Next]_vars
             PROVE  [Gate!Next]_(Gate!vars)
  OBVIOUS
<1>1. ASSUME NEW p \in Plans, Approve(p) \/ Revoke(p)
      PROVE  Gate!Next
  <2>1. Phases' = Phases /\ Subjects' = Subjects
    BY <1>1 DEF Approve, Revoke, callVars, Phases, Subjects, Phase, Subject, CameTo
  <2>2. Granted' = Granted \cup {p} \/ Granted' = Granted \ {p}
    BY <1>1 DEF Approve, Revoke, Granted, Fingerprint
  <2>3. Gate!Grant(p) \/ Gate!Withdraw(p)
    BY <2>1, <2>2 DEF Gate!Grant, Gate!Withdraw, Granted, Phases, Subjects, Subject
  <2> QED
    BY <2>3 DEF Gate!Next
<1>2. ASSUME NEW d \in Drafts, Draft(d)
      PROVE  UNCHANGED Gate!vars
  <2>1. approvals' = approvals /\ \A c \in Calls : Quiet(c)
    BY <1>2 DEF Draft, callVars, Quiet
  <2> QED
    BY <2>1, QuietStutters
<1>3. ASSUME NEW c \in Calls, (\E text \in Files(drafted) : Begin(c, text)) \/ Finish(c)
      PROVE  UNCHANGED Gate!vars
  <2>1. CASE \E text \in Files(drafted) : Begin(c, text)
    <3>1. /\ UNCHANGED <<approvals, results>> /\ pc[c] = "idle" /\ results[c] = <<>>
          /\ \A d \in Calls \ {c} : pc'[d] = pc[d] /\ plans'[d] = plans[d]
          /\ pc'[c] \in {"going", "refused"}
      <4>1. Len(results[c]) <= 0 /\ results[c] \in Seq(Entry)
        BY <2>1 DEF Begin, CallInv, TypeOK, CallFits, PlaceFits
      <4> QED
        BY <2>1, <4>1 DEF Begin, Goto, CallInv, TypeOK
    <3>2. ASSUME NEW i PROVE Subject(c, i)' = Subject(c, i) /\ Phase(c, i)' = Phase(c, i)
      BY <3>1 DEF Subject, Phase, CameTo
    <3>3. Phases' = Phases /\ Subjects' = Subjects
      <4>1. ASSUME NEW e \in Executions
            PROVE  Subject(e[1], e[2])' = Subject(e[1], e[2]) /\ Phase(e[1], e[2])' = Phase(e[1], e[2])
        <5>1. e[1] \in Calls
          BY DEF Executions
        <5>2. CASE e[1] # c
          BY <5>1, <5>2, <3>1, RestStutters
        <5>3. CASE e[1] = c
          BY <5>3, <3>1 DEF Subject, Phase, CameTo
        <5> QED
          BY <5>2, <5>3
      <4> QED
        BY <4>1 DEF Phases, Subjects
    <3> QED
      BY <3>1, <3>3, GateVariables DEF Granted
  <2>2. CASE Finish(c)
    <3>1. approvals' = approvals /\ \A d \in Calls : Quiet(d)
      BY <2>2 DEF Finish, Goto, CallInv, TypeOK, Quiet
    <3> QED
      BY <3>1, QuietStutters
  <2> QED
    BY <1>3, <2>1, <2>2
<1>4. ASSUME NEW c \in Calls, RunNext(c)
      PROVE  Gate!Next
  <2> DEFINE p == Current(c)
             e == <<c, Len(results[c]) + 1>>
  <2>1. pc[c] = "going" /\ HasNext(c) /\ p \in Plans /\ UNCHANGED <<approvals, plans>>
    BY <1>4, AtTestFacts DEF RunNext
  <2>2. Granted' = Granted
    BY <2>1 DEF Granted
  <2>3. CASE CanExecute(p, approvals)
    <3>1. pc' = [pc EXCEPT ![c] = "running"] /\ results' = results
      BY <1>4, <2>3 DEF RunNext, Goto
    <3>2. pc'[c] = "running" /\ \A d \in Calls \ {c} : pc'[d] = pc[d]
      BY <3>1 DEF CallInv, TypeOK
    <3>3. /\ Len(results[c]) \in Nat /\ DOMAIN results[c] = 1 .. Len(results[c])
          /\ e \in Executions /\ e[1] = c /\ e[2] = Len(results[c]) + 1
          /\ p = plans[c][Len(results[c]) + 1]
      BY <2>1, AtTestFacts DEF Executions, Current
    <3>4. /\ Phases[e] = "idle" /\ Subjects'[e] = p /\ Phases'[e] = "running"
      BY <2>1, <3>1, <3>2, <3>3 DEF Subjects, Phases, Subject, Phase, CameTo
    <3>5. ASSUME NEW f \in Executions, f # e
          PROVE  Subjects'[f] = Subjects[f] /\ Phases'[f] = Phases[f]
      <4>1. f[1] \in Calls /\ f[2] \in 1 .. MaxTests /\ f = <<f[1], f[2]>>
        BY DEF Executions
      <4>2. CASE f[1] = c
        <5>1. f[2] # Len(results[c]) + 1
          BY <3>5, <4>1, <4>2
        <5> QED
          BY <2>1, <3>1, <3>2, <4>1, <4>2, <5>1 DEF Subjects, Phases, Subject, Phase, CameTo
      <4>3. CASE f[1] # c
        BY <4>1, <4>3, <2>1, <3>1, <3>2, RestStutters DEF Subjects, Phases
      <4> QED
        BY <4>2, <4>3
    <3> HIDE DEF e, p
    <3>6. Subjects' = [Subjects EXCEPT ![e] = p] /\ Phases' = [Phases EXCEPT ![e] = "running"]
      BY <3>3, <3>4, <3>5 DEF Subjects, Phases
    <3>7. ASSUME NEW r \in Executions, NEW x \in Plans, r = e, x = p
          PROVE  Gate!Begin(r, x)
      BY <2>1, <2>2, <2>3, <3>4, <3>6, <3>7, GateAgrees
         DEF Gate!Begin, Subjects, Phases, Granted, Subject
    <3>8. PICK r \in Executions, x \in Plans : Gate!Begin(r, x)
      BY <2>1, <3>3, <3>7
    <3> QED
      BY <3>8 DEF Gate!Next
  <2>4. CASE ~CanExecute(p, approvals)
    <3>1. Enter(c, "blocked") /\ UNCHANGED pc /\ "blocked" \in Entry
      BY <1>4, <2>4 DEF RunNext, Entry
    <3>2. /\ e \in Executions /\ Phases[e] = "idle"
          /\ Subjects' = [Subjects EXCEPT ![e] = p]
          /\ Phases' = [Phases EXCEPT ![e] = "refused"]
      BY <2>1, <3>1, EntryShows
    <3> HIDE DEF e, p
    <3>3. ASSUME NEW r \in Executions, NEW x \in Plans, r = e, x = p
          PROVE  Gate!Refuse(r, x)
      BY <2>1, <2>2, <2>4, <3>2, <3>3, GateAgrees
         DEF Gate!Refuse, Subjects, Phases, Granted, Subject
    <3>4. PICK r \in Executions, x \in Plans : Gate!Refuse(r, x)
      BY <2>1, <3>2, <3>3
    <3> QED
      BY <3>4 DEF Gate!Next
  <2> QED
    BY <2>3, <2>4
<1>5. ASSUME NEW c \in Calls, SignIn(c)
      PROVE  UNCHANGED Gate!vars
  <2>1. approvals' = approvals /\ \A d \in Calls : Quiet(d)
    BY <1>5 DEF SignIn, callVars, Quiet
  <2> QED
    BY <2>1, QuietStutters
<1>6. ASSUME NEW c \in Calls, Ended(c)
      PROVE  Gate!Next
  <2> DEFINE p == Current(c)
             e == <<c, Len(results[c]) + 1>>
  <2>1. PICK status \in {"passed", "failed", "error"} : Enter(c, status)
    BY <1>6 DEF Ended
  <2>2. /\ pc[c] = "running" /\ HasNext(c) /\ status \in Entry
        /\ pc'[c] = "going" /\ UNCHANGED <<approvals, plans>>
        /\ \A d \in Calls \ {c} : pc'[d] = pc[d]
    BY <1>6 DEF Ended, Entry, Goto, CallInv, TypeOK, CallFits, PlaceFits
  <2>3. /\ e \in Executions /\ Phases[e] = "running" /\ Subjects[e] = p
        /\ Subjects' = [Subjects EXCEPT ![e] = p]
        /\ Phases' = [Phases EXCEPT ![e] = status]
    BY <2>1, <2>2, EntryShows
  <2> HIDE DEF e, p
  <2>4. Subjects' = Subjects /\ Granted' = Granted
    BY <2>2, <2>3 DEF Subjects, Granted
  <2>5. Gate!End(e, status)
    BY <2>3, <2>4 DEF Gate!End, Subjects, Phases, Granted, Subject
  <2> QED
    BY <2>3, <2>5 DEF Gate!Next, Gate!Endings
<1>7. ASSUME NEW q \in Processes, ProcessDies(q)
      PROVE  Gate!Next
  <2> DEFINE gone == {e \in Executions : ProcessOf[e[1]] = q}
  <2>1. /\ \A c \in Calls : pc'[c] = IF ProcessOf[c] # q THEN pc[c]
                                      ELSE IF pc[c] = "running" THEN "lost"
                                      ELSE IF pc[c] = "going" THEN "stopped" ELSE pc[c]
        /\ UNCHANGED <<approvals, plans, results>>
    BY <1>7 DEF ProcessDies
  <2>2. ASSUME NEW e \in Executions
        PROVE  /\ Subjects'[e] = Subjects[e]
               /\ Phases'[e] = IF e \in gone /\ Phases[e] = "running" THEN "lost" ELSE Phases[e]
    <3> DEFINE c == e[1]
               i == e[2]
    <3>1. /\ c \in Calls /\ Subjects[e] = Subject(c, i) /\ Subjects'[e] = Subject(c, i)'
          /\ Phases[e] = Phase(c, i) /\ Phases'[e] = Phase(c, i)'
      BY DEF Executions, Subjects, Phases
    <3>2. CameTo(c, i)' = CameTo(c, i) /\ Subject(c, i)' = Subject(c, i)
      BY <2>1, <3>1 DEF CameTo, Subject
    <3>3. CASE ~CameTo(c, i)
      BY <3>1, <3>2, <3>3 DEF Phase
    <3>4. CASE CameTo(c, i) /\ i \in DOMAIN results[c]
      <4>1. results[c][i] \in Entry
        BY <3>1, <3>4 DEF CallInv, TypeOK
      <4>2. Phase(c, i) \in {"refused", "passed", "failed", "error"} /\ Phase(c, i)' = Phase(c, i)
        BY <2>1, <3>2, <3>4, <4>1 DEF Phase, Entry
      <4> QED
        BY <3>1, <3>2, <4>2
    <3>5. CASE CameTo(c, i) /\ i \notin DOMAIN results[c]
      <4>1. pc[c] \in {"running", "lost"}
        BY <3>5 DEF CameTo
      <4> QED
        BY <2>1, <3>1, <3>2, <3>5, <4>1 DEF Phase
    <3> QED
      BY <3>3, <3>4, <3>5
  <2> HIDE DEF gone
  <2>3. /\ Subjects' = Subjects /\ Granted' = Granted
        /\ Phases' = [e \in Executions |-> IF e \in gone /\ Phases[e] = "running" THEN "lost"
                                           ELSE Phases[e]]
    BY <2>1, <2>2 DEF Subjects, Phases, Granted
  <2>4. Gate!Lose(gone)
    BY <2>3 DEF Gate!Lose, Subjects, Phases, Granted, Subject
  <2> QED
    BY <2>4 DEF gone, Gate!Next
<1>8. CASE UNCHANGED vars
  <2>1. approvals' = approvals /\ \A c \in Calls : Quiet(c)
    BY <1>8 DEF vars, callVars, Quiet
  <2> QED
    BY <2>1, QuietStutters
<1> QED
  BY <1>1, <1>2, <1>3, <1>4, <1>5, <1>6, <1>7, <1>8 DEF Next

\* However many tests a file has and whatever is approved and withdrawn while it runs, each test
\* begins with the policy's leave and by a grant of exactly what is run, and ends once.
THEOREM FilesKeepTheGate == Spec => FileKeepsTheGate
<1>1. Init => Gate!Init
  <2> SUFFICES ASSUME Init
               PROVE  Gate!Init
    OBVIOUS
  <2>1. \A e \in Executions : e[1] \in Calls
    BY DEF Executions
  <2>2. \A e \in Executions : ~CameTo(e[1], e[2])
    BY <2>1 DEF Init, CameTo
  <2> QED
    BY <2>2 DEF Init, Gate!Init, Phase
<1> QED
  BY <1>1, StepImplementsGate, CallInvHolds, PTL DEF Spec, FileKeepsTheGate, Gate!Spec

-----------------------------------------------------------------------------
(***************************************************************************)
(* What is written is what is run, and what is drafted is what was         *)
(* written.                                                                *)
(***************************************************************************)

\* "Nothing is ever silently ignored": a file that is run, whatever its length and whatever is in
\* it, has every sentence among the steps of its plans, in the order they were written, and for
\* every heading a plan with its name and what the headers below that heading say.
THEOREM NothingIsIgnored == Spec => []NothingIgnored
<1>1. ASSUME CallInv, NEW c \in Calls, JustBegun(c)
      PROVE  LET text == asked[c]
                 written == PlansOf(text)
                 sentences == {k \in DOMAIN text : text[k].kind = "sentence"}
             IN  /\ Len(plans[c]) = Len(written)
                 /\ \A k \in sentences : Understood(text[k])
                 /\ FlattenSeq([i \in DOMAIN written |-> written[i].steps]) =
                        FlattenSeq([k \in DOMAIN text |->
                                       IF k \in sentences THEN StepsOf(text[k]) ELSE <<>>])
                 /\ \A h \in DOMAIN text : BeginsTest(text, h) =>
                        \E i \in DOMAIN written :
                            /\ written[i].name = OrElse(TestName(text[h].name), "Untitled test")
                            /\ written[i].risk = OrElse(Said(text, Below(text, h), "risk"), "low")
                            /\ written[i].environment =
                                   OrElse(Said(text, Below(text, h), "environment"), DefaultEnvironment)
  <2> DEFINE text == asked[c]
             sentences == {k \in DOMAIN text : text[k].kind = "sentence"}
  <2>1. Understands(text) /\ text \in Files(Drafts) /\ Len(plans[c]) = Len(PlansOf(text))
    BY <1>1 DEF JustBegun, CallInv, CallFits, PlaceFits
  <2>2. text \in Seq(Lines)
    BY <2>1, AuthoringAssumption DEF AuthoringAssumption
  <2>3. DOMAIN text = 1 .. Len(text)
    BY <2>2
  <2> HIDE DEF text
  <2>4. [k \in DOMAIN text |-> IF k \in sentences THEN StepsOf(text[k]) ELSE <<>>] =
        [k \in 1 .. Len(text) |-> IF text[k].kind = "sentence" THEN StepsOf(text[k]) ELSE <<>>]
    BY <2>3
  <2>5. FlattenSeq([k \in DOMAIN text |-> IF k \in sentences THEN StepsOf(text[k]) ELSE <<>>]) =
        StepsUpTo(text, Len(text))
    BY <2>4 DEF StepsUpTo
  <2>6. /\ \A k \in sentences : Understood(text[k])
        /\ FlattenSeq([i \in DOMAIN PlansOf(text) |-> PlansOf(text)[i].steps]) =
               FlattenSeq([k \in DOMAIN text |-> IF k \in sentences THEN StepsOf(text[k]) ELSE <<>>])
        /\ \A h \in DOMAIN text : BeginsTest(text, h) =>
               \E i \in DOMAIN PlansOf(text) :
                   /\ PlansOf(text)[i].name = OrElse(TestName(text[h].name), "Untitled test")
                   /\ PlansOf(text)[i].risk = OrElse(Said(text, Below(text, h), "risk"), "low")
                   /\ PlansOf(text)[i].environment =
                          OrElse(Said(text, Below(text, h), "environment"), DefaultEnvironment)
    BY <2>1, <2>2, <2>5, FileIsItsPlans
  <2> QED
    BY <2>1, <2>6 DEF text
<1>2. CallInv => NothingIgnored
  BY <1>1 DEF NothingIgnored
<1> QED
  BY <1>2, CallInvHolds, PTL

\* A draft that is put on disk is one that was asked for.
LEMMA NewDraft ==
    ASSUME [Next]_vars, NEW d \in drafted' \ drafted
    PROVE  d \in Drafts /\ d[1] \in Case /\ d[2] \in STRING /\ d[2] # ""
<1>1. \E e \in Drafts : Draft(e)
  BY DEF Next, vars, callVars, Approve, Revoke, Begin, RunNext, SignIn, Ended, Finish, ProcessDies
<1>2. d \in Drafts
  BY <1>1 DEF Draft
<1>3. d \in Case \X (STRING \ {""})
  BY <1>2, AuthoringAssumption DEF AuthoringAssumption
<1> QED
  BY <1>2, <1>3

\* Whatever a case says, each of its steps is mapped or something to do, and what it verifies and
\* what is expected of the whole, and of its steps but the verifications and those not understood,
\* is asserted by the draft or something to do, also where an assertion made twice was dropped.
THEOREM DraftsAccountForTheCase == Spec => DraftsAreAccountedFor
<1>1. ASSUME [Next]_vars, NEW d \in drafted' \ drafted PROVE AccountedFor(d)
  <2>1. d[1] \in Case
    BY <1>1, NewDraft
  <2> QED
    BY <2>1, DraftedFacts DEF AccountedFor, StepKept, ResultKept, ExpectationKept, Asserted
<1>2. [Next]_vars => [\A d \in drafted' \ drafted : AccountedFor(d)]_vars
  BY <1>1
<1> QED
  BY <1>2, PTL DEF Spec, DraftsAreAccountedFor

\* Whatever the case says, the file of a draft is one test, and if it compiles, then to the draft's
\* environment and steps, save the steps whose sentences are taken for others; it compiles unless
\* there are such or a person has something to do first.
THEOREM DraftsCompileBack == Spec => DraftsReadBack
<1>1. ASSUME [Next]_vars, NEW d \in drafted' \ drafted PROVE ReadsBack(d)
  BY <1>1, NewDraft, NamedReadsBack, UnnamedReadsBack DEF Unnamed, Unplaced
<1>2. [Next]_vars => [\A d \in drafted' \ drafted : ReadsBack(d)]_vars
  BY <1>1
<1> QED
  BY <1>2, PTL DEF Spec, DraftsReadBack
=============================================================================
