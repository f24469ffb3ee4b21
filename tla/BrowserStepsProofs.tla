------------------------- MODULE BrowserStepsProofs -------------------------
(***************************************************************************)
(* Theorems about BrowserSteps, for every form, every set of steps and     *)
(* contents, and any number of windows.                                    *)
(***************************************************************************)
EXTENDS BrowserSteps, SequenceTheorems, FiniteSetTheorems, WellFoundedInduction, TLAPS

Verbs == {"act", "see", "wait", "load", "look", "back", "reach"}
AfterPart == {"ready", "resolving", "loading", "looking", "leaving", "reaching"}

-----------------------------------------------------------------------------
\* The control of a step.

\* What a recipe names is looked for, and what is to be seen comes last.
LEMMA ConfirmParts ==
    ASSUME NEW s \in Steps
    PROVE  /\ Confirm(s) \in Seq([verb : Verbs, target : Targets]) /\ Len(Confirm(s)) \in Nat
           /\ s.shows => /\ Len(Confirm(s)) # 0
                         /\ Confirm(s)[Len(Confirm(s))] = Do("see", s.target)
<1> DEFINE P == [verb : Verbs, target : Targets]
           first == IF s.reaches THEN <<Do("reach", s.target)>> ELSE <<>>
           second == IF s.shows THEN <<Do("see", s.target)>> ELSE <<>>
<1>1. s.target \in Targets
  BY BrowserAssumption
<1>2. Do("reach", s.target) \in P /\ Do("see", s.target) \in P
  BY <1>1 DEF Do, Verbs
<1>3. \A p \in P : <<p>> \in Seq(P) /\ Len(<<p>>) = 1 /\ <<p>>[1] = p
  OBVIOUS
<1>4. <<>> \in Seq(P) /\ Len(<<>>) = 0
  OBVIOUS
<1> HIDE DEF P
<1>5. first \in Seq(P) /\ Len(first) \in {0, 1}
  BY <1>2, <1>3, <1>4
<1>6. /\ second \in Seq(P) /\ Len(second) \in {0, 1}
      /\ s.shows => Len(second) = 1 /\ second[1] = Do("see", s.target)
  BY <1>2, <1>3, <1>4
<1>7. Confirm(s) = first \o second
  BY DEF Confirm
<1> HIDE DEF first, second
<1>8. /\ Confirm(s) \in Seq(P) /\ Len(Confirm(s)) = Len(first) + Len(second)
      /\ \A i \in 1..(Len(first) + Len(second)) :
            Confirm(s)[i] = IF i <= Len(first) THEN first[i] ELSE second[i - Len(first)]
  BY ONLY <1>5, <1>6, <1>7, ConcatProperties
<1>9. ASSUME s.shows
      PROVE  Len(Confirm(s)) # 0 /\ Confirm(s)[Len(Confirm(s))] = Do("see", s.target)
  <2>1. Len(second) = 1 /\ second[1] = Do("see", s.target)
    BY <1>6, <1>9
  <2>2. Len(Confirm(s)) = Len(first) + 1
    BY <1>8, <2>1
  <2>3. Confirm(s)[Len(first) + 1] = second[Len(first) + 1 - Len(first)]
    BY <1>5, <1>8, <2>1
  <2>4. Len(first) + 1 - Len(first) = 1
    BY <1>5
  <2> QED BY <1>5, <2>1, <2>2, <2>3, <2>4
<1>10. Len(Confirm(s)) \in Nat
  BY <1>5, <1>6, <1>8
<1> QED BY <1>8, <1>9, <1>10 DEF P

\* Every step has parts, and each does something the session knows.
LEMMA PartsOfAStep ==
    ASSUME NEW s \in Steps
    PROVE  Parts(s) \in Seq([verb : Verbs, target : Targets]) /\ Len(Parts(s)) \in Nat \ {0}
<1> DEFINE P == [verb : Verbs, target : Targets]
<1>1. s.action \in Actions /\ s.target \in Targets
  BY BrowserAssumption
<1>2. \A v \in Verbs, t \in Targets : Do(v, t) \in P
  BY DEF Do
<1>3. \A p \in P : <<p>> \in Seq(P) /\ Len(<<p>>) = 1
  OBVIOUS
<1>4. CASE s.action = "authenticate"
  <2> DEFINE fields == [i \in 1..Len(Form) |-> Do("act", Form[i])]
             opening == <<Do("load", s.target)>>
  <2>1. fields \in Seq(P) /\ Len(fields) \in Nat
    <3>1. Len(Form) \in Nat /\ \A i \in 1..Len(Form) : Form[i] \in Targets
      BY BrowserAssumption, ElementOfSeq, LenProperties
    <3>2. \A i \in 1..Len(Form) : fields[i] \in P
      BY <3>1, <1>2 DEF Verbs
    <3>3. fields \in [1..Len(Form) -> P]
      BY <3>2
    <3> HIDE DEF fields, P
    <3> QED BY <3>1, <3>3, SeqDef, LenProperties
  <2>2. opening \in Seq(P) /\ Len(opening) = 1
    BY <1>1, <1>2, <1>3 DEF Verbs
  <2>3. Parts(s) = opening \o fields \o Confirm(s)
    BY <1>4 DEF Parts, ElementActions
  <2>4. Confirm(s) \in Seq(P) /\ Len(Confirm(s)) \in Nat
    BY ConfirmParts DEF P
  <2> HIDE DEF fields, opening, P
  <2>5. opening \o fields \in Seq(P) /\ Len(opening \o fields) = 1 + Len(fields)
    <3>1. opening \o fields \in Seq(P) /\ Len(opening \o fields) = Len(opening) + Len(fields)
      BY ONLY <2>1, <2>2, ConcatProperties
    <3> QED BY ONLY <2>2, <3>1
  <2>6. opening \o fields \o Confirm(s) \in Seq(P)
         /\ Len(opening \o fields \o Confirm(s)) = 1 + Len(fields) + Len(Confirm(s))
    <3>1. /\ opening \o fields \o Confirm(s) \in Seq(P)
          /\ Len(opening \o fields \o Confirm(s)) = Len(opening \o fields) + Len(Confirm(s))
      BY ONLY <2>4, <2>5, ConcatProperties
    <3> QED BY ONLY <2>5, <3>1
  <2> QED BY <2>1, <2>3, <2>4, <2>6 DEF P
<1>5. CASE s.action # "authenticate"
  <2>1. \E v \in Verbs : Parts(s) = <<Do(v, s.target)>>
    BY <1>1, <1>5 DEF Parts, Actions, ElementActions, WindowActions, Verbs
  <2>2. PICK v \in Verbs : Parts(s) = <<Do(v, s.target)>>
    BY <2>1
  <2>3. Do(v, s.target) \in P
    BY <1>1, <1>2, <2>2
  <2> HIDE DEF P
  <2>4. Parts(s) \in Seq(P) /\ Len(Parts(s)) = 1
    BY <1>3, <2>2, <2>3
  <2> QED BY <2>4 DEF P
<1> QED BY <1>4, <1>5

LEMMA EntersAfterPart == ASSUME NEW v \in Verbs PROVE Enters(v) \in AfterPart \ {"ready"}
BY DEF Enters, Verbs, AfterPart

\* Where a part may leave the control, with the session's windows as they are.
PartOver ==
    /\ step' = step /\ part' \in 1..Len(Parts(step)) /\ pc' \in AfterPart
    /\ locator' = NotFound /\ clock' = 0 /\ steady' = FALSE
    /\ done' \in 0..MaxSteps
    /\ pc' # "ready" => done' < MaxSteps
    /\ report' \in {"none", "passed", "failed", "error"}

\* However a part is over, the control is in order.
LEMMA PartEnds ==
    ASSUME ControlOK, pc # "ready",
           \/ \E status \in {"passed", "failed", "error"} : End(status)
           \/ Continue
           \/ \E visible \in BOOLEAN : Judge(visible)
    PROVE  PartOver
<1>1. part \in 1..Len(Parts(step)) /\ step \in Steps /\ Len(Parts(step)) \in Nat
  BY PartsOfAStep DEF ControlOK
<1>2. MaxSteps \in Nat /\ done \in 0..MaxSteps /\ done < MaxSteps
  BY BrowserAssumption DEF ControlOK
<1>3. ASSUME NEW status \in {"passed", "failed", "error"}, End(status) PROVE PartOver
  <2>1. /\ pc' = "ready" /\ report' = status /\ step' = step /\ part' = part
        /\ locator' = NotFound /\ clock' = 0 /\ steady' = FALSE
        /\ done' = IF status = "passed" THEN done + 1 ELSE MaxSteps
    BY <1>3 DEF End, Forget
  <2>2. done' \in 0..MaxSteps
    BY <1>2, <2>1
  <2> QED BY <1>1, <2>1, <2>2 DEF PartOver, AfterPart
<1>4. ASSUME Continue PROVE PartOver
  <2>1. CASE part < Len(Parts(step))
    <3>1. /\ part' = part + 1 /\ pc' = Enters(Parts(step)[part + 1].verb)
          /\ locator' = NotFound /\ clock' = 0 /\ steady' = FALSE
          /\ step' = step /\ done' = done /\ report' = report
      BY <1>4, <2>1 DEF Continue, Forget
    <3>2. part' \in 1..Len(Parts(step))
      BY <1>1, <2>1, <3>1
    <3>3. Parts(step)[part + 1].verb \in Verbs
      <4>1. Parts(step)[part + 1] \in [verb : Verbs, target : Targets]
        BY <1>1, <3>1, <3>2, PartsOfAStep, ElementOfSeq
      <4> QED BY <4>1
    <3>4. pc' \in AfterPart \ {"ready"}
      BY <3>1, <3>3, EntersAfterPart
    <3> QED BY <1>1, <1>2, <3>1, <3>2, <3>4 DEF PartOver, ControlOK
  <2>2. CASE ~(part < Len(Parts(step)))
    BY <1>3, <1>4, <2>2 DEF Continue
  <2> QED BY <2>1, <2>2
<1>5. ASSUME NEW visible \in BOOLEAN, Judge(visible) PROVE PartOver
  BY <1>3, <1>4, <1>5 DEF Judge
<1> QED BY <1>3, <1>4, <1>5

\* One action at a time: the control stays in order.
LEMMA ControlInitially == Init => ControlOK
<1> SUFFICES ASSUME Init PROVE ControlOK
  OBVIOUS
<1>1. step \in Steps
  BY BrowserAssumption DEF Init
<1>2. 1 \in 1..Len(Parts(step))
  BY <1>1, PartsOfAStep
<1>3. 0 \in 0..Deadline /\ 0 \in 0..MaxSteps
  BY BrowserAssumption
<1>4. /\ part = 1 /\ pc = "ready" /\ clock = 0 /\ done = 0 /\ report = "none"
      /\ signedIn \in BOOLEAN /\ steady \in BOOLEAN
  BY DEF Init
<1> QED BY <1>1, <1>2, <1>3, <1>4 DEF ControlOK

\* The actions that end a part leave the control as PartOver says.
LEMMA OverIsInOrder ==
    ASSUME ControlOK, PartOver, signedIn' \in BOOLEAN
    PROVE  ControlOK'
<1>1. step' \in Steps /\ part' \in 1..Len(Parts(step'))
  BY DEF ControlOK, PartOver
<1>2. clock' \in 0..Deadline
  BY BrowserAssumption DEF PartOver
<1>3. steady' \in BOOLEAN /\ pc' \in AfterPart
  BY DEF PartOver
<1> QED BY <1>1, <1>2, <1>3 DEF ControlOK, PartOver, AfterPart

LEMMA ControlStep == ControlOK /\ [Next]_vars => ControlOK'
<1> SUFFICES ASSUME ControlOK, [Next]_vars PROVE ControlOK'
  OBVIOUS
<1>0. step \in Steps /\ part \in 1..Len(Parts(step)) /\ signedIn \in BOOLEAN
  BY DEF ControlOK
<1>1. ASSUME UNCHANGED <<signedIn, step, part, pc, locator, clock, done, report>>,
             steady' \in BOOLEAN
      PROVE  ControlOK'
  BY <1>1 DEF ControlOK
<1>2. CASE Application \/ UNCHANGED vars
  <2>1. UNCHANGED <<signedIn, step, part, pc, locator, clock, done, report>>
    BY <1>2 DEF Application, Render, OpenWindow, CloseWindow, stepVars, vars
  <2>2. steady' \in BOOLEAN
    BY <1>2 DEF Application, Render, OpenWindow, CloseWindow, vars, ControlOK
  <2> QED BY <1>1, <2>1, <2>2
<1>3. ASSUME NEW s \in Steps, Begin(s) PROVE ControlOK'
  <2>1. Parts(s) \in Seq([verb : Verbs, target : Targets]) /\ Len(Parts(s)) \in Nat \ {0}
    BY PartsOfAStep
  <2>2. Parts(s)[1].verb \in Verbs
    <3>1. 1 \in 1..Len(Parts(s))
      BY <2>1
    <3>2. Parts(s)[1] \in [verb : Verbs, target : Targets]
      BY <2>1, <3>1, ElementOfSeq
    <3> QED BY <3>2
  <2>3. pc' \in AfterPart \ {"ready"} /\ step' = s /\ part' = 1
    BY <1>3, <2>2, EntersAfterPart DEF Begin
  <2>4. UNCHANGED <<signedIn, locator, clock, steady, done, report>> /\ done < MaxSteps
    BY <1>3 DEF Begin, awaitVars
  <2> QED BY <2>1, <2>3, <2>4 DEF ControlOK, AfterPart
<1>4. CASE Unresolved \/ KeepWaiting \/ GiveUp \/ Act \/ See \/ WaitSatisfied \/ LoadFails
           \/ Reached \/ NotReached \/ NoWindow \/ NothingEarlier \/ Closed \/ CloseFails
           \/ \E c \in Contents : Loaded(c) \/ Enter(c)
  <2>1. pc # "ready"
    BY <1>4 DEF Unresolved, KeepWaiting, GiveUp, Act, See, WaitSatisfied, LoadFails, Reached, NotReached, NoWindow,
                NothingEarlier, Closed, CloseFails, Loaded, Enter
  <2>2. signedIn' \in BOOLEAN
    BY <1>0, <1>4 DEF Unresolved, KeepWaiting, GiveUp, Act, See, WaitSatisfied, LoadFails, Reached, NotReached,
                NoWindow, NothingEarlier, Closed, CloseFails, Loaded, Enter, Believe
  <2>3. ASSUME Sleep PROVE ControlOK'
    BY <2>1, <2>2, <2>3 DEF Sleep, ControlOK
  <2>4. \/ Sleep \/ Continue
        \/ \E status \in {"passed", "failed", "error"} : End(status)
        \/ \E visible \in BOOLEAN : Judge(visible)
    <3>1. CASE Unresolved \/ KeepWaiting \/ LoadFails \/ NotReached \/ NoWindow \/ NothingEarlier
               \/ WaitSatisfied
      BY <3>1 DEF Unresolved, KeepWaiting, LoadFails, Reached, NotReached, NoWindow, NothingEarlier, WaitSatisfied
    <3>2. CASE Act \/ See \/ Reached \/ Closed \/ CloseFails \/ \E c \in Contents : Loaded(c) \/ Enter(c)
      BY <3>2 DEF Act, See, Reached, Closed, CloseFails, Loaded, Enter
    <3>3. CASE GiveUp
      BY <3>3 DEF GiveUp
    <3> QED BY <1>4, <3>1, <3>2, <3>3
  <2> QED BY <2>1, <2>2, <2>3, <2>4, PartEnds, OverIsInOrder
<1>5. CASE Resolved
  BY <1>5 DEF Resolved, ControlOK
<1>6. CASE Tick
  <2>1. clock' \in 0..Deadline
    BY <1>6, BrowserAssumption DEF Tick, ControlOK
  <2> QED BY <1>6, <2>1 DEF Tick, ControlOK
<1>7. CASE WindowFound
  BY <1>7 DEF WindowFound, ControlOK, awaitVars
<1>8. ASSUME NEW c \in Contents, GoBack(c) PROVE ControlOK'
  BY <1>8 DEF GoBack, ControlOK, awaitVars
<1>9. CASE RunOver
  BY <1>2, <1>9 DEF RunOver
<1> QED BY <1>2, <1>3, <1>4, <1>5, <1>6, <1>7, <1>8, <1>9 DEF Next, Session

-----------------------------------------------------------------------------
\* The windows.

WindowsOK ==
    /\ windows \in Seq(BOOLEAN) /\ Len(windows) \in 1..MaxWindows
    /\ page \in 1..Len(windows) /\ other \in 1..Len(windows)
    /\ content \in Contents
    /\ stack \in Seq(1..Len(windows)) /\ left \subseteq 1..Len(windows)
    /\ WindowsNest /\ LeftForGood
    /\ pc = "entering" => other \notin left \cup Range(Path)
    /\ pc = "closing" => other \notin Range(Path)
    /\ \A w \in left : ~windows[w]

\* Appending to a sequence: its length, its elements, its range.
LEMMA PushShape ==
    ASSUME NEW S, NEW s \in Seq(S), NEW p \in S
    PROVE  /\ Append(s, p) \in Seq(S)
           /\ Len(Append(s, p)) = Len(s) + 1 /\ Len(s) \in Nat
           /\ \A i \in 1..Len(s) : Append(s, p)[i] = s[i]
           /\ Append(s, p)[Len(s) + 1] = p
           /\ Range(s) = {s[i] : i \in 1..Len(s)}
           /\ Range(Append(s, p)) = Range(s) \cup {p}
<1>1. /\ Append(s, p) \in Seq(S)
      /\ Len(Append(s, p)) = Len(s) + 1 /\ Len(s) \in Nat
      /\ \A i \in 1..Len(s) : Append(s, p)[i] = s[i]
      /\ Append(s, p)[Len(s) + 1] = p
  BY AppendProperties, LenProperties
<1>2. DOMAIN s = 1..Len(s) /\ DOMAIN Append(s, p) = 1..(Len(s) + 1)
  BY <1>1, LenProperties
<1>3. Range(Append(s, p)) = Range(s) \cup {p}
  <2>1. \A i \in 1..(Len(s) + 1) : i \in 1..Len(s) \/ i = Len(s) + 1
    BY <1>1
  <2>2. 1..Len(s) \subseteq 1..(Len(s) + 1) /\ Len(s) + 1 \in 1..(Len(s) + 1)
    BY <1>1
  <2> QED BY <1>1, <1>2, <2>1, <2>2 DEF Range
<1> QED BY <1>1, <1>2, <1>3 DEF Range

\* Taking the last one off: what is left is the stack as it was.
LEMMA PopShape ==
    ASSUME NEW S, NEW s \in Seq(S), s # <<>>
    PROVE  /\ Front(s) \in Seq(S) /\ Last(s) \in S
           /\ Append(Front(s), Last(s)) = s
<1>1. Len(s) \in Nat \ {0} /\ Last(s) = s[Len(s)]
  BY EmptySeq, LenProperties DEF Last
<1>2. Front(s) = SubSeq(s, 1, Len(s) - 1)
  BY DEF Front
<1>3. Last(s) \in S
  BY <1>1, ElementOfSeq
<1>4. /\ Front(s) \in Seq(S) /\ Len(Front(s)) = Len(s) - 1
      /\ \A i \in 1..(Len(s) - 1) : Front(s)[i] = s[i]
  <2>1. 1 \in Int /\ Len(s) - 1 \in Int /\ \A i \in 1..(Len(s) - 1) : s[i] \in S
    BY <1>1, ElementOfSeq
  <2>2. /\ SubSeq(s, 1, Len(s) - 1) \in Seq(S)
        /\ Len(SubSeq(s, 1, Len(s) - 1)) = IF 1 <= Len(s) - 1 THEN Len(s) - 1 - 1 + 1 ELSE 0
        /\ \A i \in 1..(Len(s) - 1 - 1 + 1) : SubSeq(s, 1, Len(s) - 1)[i] = s[1 + i - 1]
    BY <2>1, SubSeqProperties
  <2>3. Len(s) - 1 - 1 + 1 = Len(s) - 1 /\ (~(1 <= Len(s) - 1) => Len(s) - 1 = 0)
    <3>1. \A n \in Nat \ {0} : n - 1 - 1 + 1 = n - 1 /\ (~(1 <= n - 1) => n - 1 = 0)
      OBVIOUS
    <3> QED BY <1>1, <3>1
  <2>4. \A i \in 1..(Len(s) - 1) : 1 + i - 1 = i
    OBVIOUS
  <2> QED BY <1>2, <2>2, <2>3, <2>4
<1>5. Append(Front(s), Last(s)) = s
  <2>1. /\ Append(Front(s), Last(s)) \in Seq(S)
        /\ Len(Append(Front(s), Last(s))) = Len(s)
        /\ \A i \in 1..Len(s) : Append(Front(s), Last(s))[i] = s[i]
    BY <1>1, <1>3, <1>4, AppendProperties
  <2> QED BY <2>1, SeqEqual
<1> QED BY <1>3, <1>4, <1>5

\* Nothing about the windows changes, and none is being entered or closed afterwards.
LEMMA WindowsStay ==
    ASSUME WindowsOK, UNCHANGED windowVars, pc' \notin {"entering", "closing"}
    PROVE  WindowsOK'
BY DEF WindowsOK, windowVars, WindowsNest, LeftForGood, Path

LEMMA WindowsInitially == Init => WindowsOK
<1> SUFFICES ASSUME Init PROVE WindowsOK
  OBVIOUS
<1>1. /\ windows = <<TRUE>> /\ page = 1 /\ other = 1 /\ stack = <<>> /\ left = {}
      /\ content \in Contents /\ pc = "ready"
  BY DEF Init
<1>2. windows \in Seq(BOOLEAN) /\ Len(windows) = 1
  BY <1>1
<1>3. Path = <<1>>
  BY <1>1 DEF Path
<1>4. WindowsNest
  BY <1>3 DEF WindowsNest
<1> QED BY <1>1, <1>2, <1>4, BrowserAssumption DEF WindowsOK, LeftForGood

\* A window more than there were, or one that is open no longer: the path is what it was.
LEMMA WindowsOpenAndClose ==
    ASSUME WindowsOK, UNCHANGED <<page, content, stack, pc, other, left>>,
           OpenWindow \/ \E w \in 1..Len(windows) : CloseWindow(w)
    PROVE  WindowsOK'
<1>1. /\ windows' \in Seq(BOOLEAN) /\ Len(windows') \in 1..MaxWindows
      /\ Len(windows) <= Len(windows')
      /\ \A w \in 1..Len(windows) : windows'[w] => windows[w]
  <2>1. Len(windows) \in Nat /\ MaxWindows \in Nat /\ windows \in [1..Len(windows) -> BOOLEAN]
    BY LenProperties, BrowserAssumption DEF WindowsOK
  <2>2. CASE OpenWindow
    <3>1. /\ windows' \in Seq(BOOLEAN) /\ Len(windows') = Len(windows) + 1
          /\ \A w \in 1..Len(windows) : windows'[w] = windows[w]
      BY <2>2, AppendProperties DEF OpenWindow, WindowsOK
    <3> QED BY <2>1, <2>2, <3>1 DEF OpenWindow
  <2>3. ASSUME NEW v \in 1..Len(windows), CloseWindow(v)
        PROVE  /\ windows' \in Seq(BOOLEAN) /\ Len(windows') = Len(windows)
               /\ \A w \in 1..Len(windows) : windows'[w] => windows[w]
    BY <2>1, <2>3 DEF CloseWindow, WindowsOK
  <2> QED BY <2>2, <2>3 DEF WindowsOK
<1>2. 1..Len(windows) \subseteq 1..Len(windows')
  BY <1>1, LenProperties DEF WindowsOK
<1>3. stack' \in Seq(1..Len(windows'))
  <2>1. Len(stack) \in Nat /\ stack \in [1..Len(stack) -> 1..Len(windows)]
    BY LenProperties DEF WindowsOK
  <2>2. \A i \in 1..Len(stack) : stack[i] \in 1..Len(windows')
    BY <1>2, <2>1
  <2> QED BY <2>1, <2>2, SeqDef
<1>4. Path' = Path
  BY DEF Path
<1>5. \A w \in left' : ~windows'[w]
  BY <1>1 DEF WindowsOK
<1> QED BY <1>1, <1>2, <1>3, <1>4, <1>5 DEF WindowsOK, WindowsNest, LeftForGood

\* A window that is found is on no path and was never left, since it is open.
LEMMA FoundIsNew == ASSUME WindowsOK, WindowFound PROVE WindowsOK'
<1>1. other' \in 1..Len(windows) /\ windows[other'] /\ other' # page /\ other' \notin Range(stack)
  BY DEF WindowFound, Fresh
<1>2. Range(Path) = Range(stack) \cup {page}
  BY PushShape DEF WindowsOK, Path
<1>3. other' \notin left \cup Range(Path)
  BY <1>1, <1>2 DEF WindowsOK
<1>4. UNCHANGED <<windows, page, content, stack, left>> /\ pc' = "entering" /\ Path' = Path
  BY DEF WindowFound, Path
<1> QED BY <1>1, <1>3, <1>4 DEF WindowsOK, WindowsNest, LeftForGood

\* Entering it makes the path one longer, by a window that was not on it.
LEMMA EnterNests ==
    ASSUME WindowsOK, NEW c \in Contents, Enter(c), pc' \in AfterPart
    PROVE  WindowsOK'
<1> DEFINE W == 1..Len(windows)
<1>1. /\ stack' = Path /\ page' = other /\ content' = c /\ Path' = Append(Path, other)
      /\ UNCHANGED <<windows, other, left>>
  BY DEF Enter, Path
<1>2. Path \in Seq(W) /\ other \in W
  BY PushShape DEF WindowsOK, Path
<1>3. other \notin left \cup Range(Path)
  BY DEF WindowsOK, Enter
<1>4. /\ Len(Path') = Len(Path) + 1 /\ Len(Path) \in Nat
      /\ \A i \in 1..Len(Path) : Path'[i] = Path[i]
      /\ Path'[Len(Path) + 1] = other
      /\ Range(Path) = {Path[i] : i \in 1..Len(Path)}
      /\ Range(Path') = Range(Path) \cup {other}
  BY <1>1, <1>2, PushShape
<1>5. Len(Path) >= 1
  BY PushShape DEF WindowsOK, Path
<1>6. Path'[1] = 1
  BY <1>4, <1>5 DEF WindowsOK, WindowsNest
<1>7. ASSUME NEW i \in 1..Len(Path'), NEW j \in 1..Len(Path'), Path'[i] = Path'[j]
      PROVE  i = j
  <2>1. \A k \in 1..Len(Path') : k \in 1..Len(Path) \/ k = Len(Path) + 1
    BY <1>4
  <2>2. \A k \in 1..Len(Path) : Path[k] # other
    BY <1>3, <1>4
  <2>3. \A k, m \in 1..Len(Path) : Path[k] = Path[m] => k = m
    BY DEF WindowsOK, WindowsNest
  <2> QED BY <1>4, <1>7, <2>1, <2>2, <2>3
<1>8. WindowsNest' /\ LeftForGood'
  BY <1>1, <1>3, <1>4, <1>6, <1>7 DEF WindowsOK, WindowsNest, LeftForGood
<1> QED BY <1>1, <1>2, <1>8 DEF WindowsOK, AfterPart

\* Going back makes it one shorter, and the window to be closed is not on it any more.
LEMMA BackNests ==
    ASSUME WindowsOK, NEW c \in Contents, GoBack(c)
    PROVE  WindowsOK'
<1> DEFINE W == 1..Len(windows)
<1>1. /\ stack' = Front(stack) /\ page' = Last(stack) /\ content' = c /\ other' = page
      /\ UNCHANGED <<windows, left>> /\ pc' = "closing" /\ stack # <<>>
  BY DEF GoBack
<1>2. stack \in Seq(W) /\ page \in W
  BY DEF WindowsOK
<1> HIDE DEF W
<1>3. stack' \in Seq(W) /\ page' \in W /\ Path' = stack
  BY <1>1, <1>2, PopShape DEF Path
<1>4. /\ Len(Path) = Len(stack) + 1 /\ Len(stack) \in Nat
      /\ \A i \in 1..Len(stack) : Path[i] = stack[i]
      /\ Path[Len(stack) + 1] = page
      /\ Range(stack) = {stack[i] : i \in 1..Len(stack)}
      /\ Range(Path) = Range(stack) \cup {page}
  <2>1. Path = Append(stack, page)
    BY DEF Path
  <2>2. /\ Len(Append(stack, page)) = Len(stack) + 1 /\ Len(stack) \in Nat
        /\ \A i \in 1..Len(stack) : Append(stack, page)[i] = stack[i]
        /\ Append(stack, page)[Len(stack) + 1] = page
        /\ Range(stack) = {stack[i] : i \in 1..Len(stack)}
        /\ Range(Append(stack, page)) = Range(stack) \cup {page}
    BY ONLY <1>2, PushShape
  <2> QED BY ONLY <2>1, <2>2
<1>5. Len(stack) \in Nat \ {0}
  <2>1. stack # <<>>
    BY <1>1
  <2> QED BY ONLY <1>2, <2>1, EmptySeq
<1>6. stack[1] = 1
  BY <1>4, <1>5 DEF WindowsOK, WindowsNest
<1>7. \A i, j \in 1..Len(stack) : stack[i] = stack[j] => i = j
  <2>1. 1..Len(stack) \subseteq 1..Len(Path)
    BY <1>4
  <2> QED BY <1>4, <2>1 DEF WindowsOK, WindowsNest
<1>8. page \notin Range(stack)
  <2>1. ASSUME NEW i \in 1..Len(stack), stack[i] = page PROVE FALSE
    <3>1. i \in 1..Len(Path) /\ Len(stack) + 1 \in 1..Len(Path) /\ Path[i] = Path[Len(stack) + 1]
      BY <1>4, <2>1
    <3> QED BY <1>4, <3>1 DEF WindowsOK, WindowsNest
  <2> QED BY <1>4, <2>1
<1>9. WindowsNest' /\ LeftForGood'
  BY <1>1, <1>3, <1>4, <1>6, <1>7 DEF WindowsOK, WindowsNest, LeftForGood
<1> QED BY <1>1, <1>2, <1>3, <1>8, <1>9 DEF WindowsOK, W

\* Closing it makes it one that was left, off the path as it is.
LEMMA ClosedIsLeft ==
    ASSUME WindowsOK, Closed, pc' \in AfterPart
    PROVE  WindowsOK'
<1>1. /\ windows' = [windows EXCEPT ![other] = FALSE] /\ left' = left \cup {other}
      /\ UNCHANGED <<page, content, stack, other>> /\ Path' = Path
      /\ other \notin Range(Path)
  BY DEF Closed, Path, WindowsOK
<1>2. windows \in [1..Len(windows) -> BOOLEAN] /\ Len(windows) \in Nat
  BY LenProperties DEF WindowsOK
<1>3. windows' \in Seq(BOOLEAN) /\ Len(windows') = Len(windows)
  BY <1>1, <1>2 DEF WindowsOK
<1>4. \A w \in left' : ~windows'[w]
  BY <1>1, <1>2 DEF WindowsOK
<1> QED BY <1>1, <1>3, <1>4 DEF WindowsOK, WindowsNest, LeftForGood, AfterPart

LEMMA WindowsStep == ControlOK /\ WindowsOK /\ [Next]_vars => WindowsOK'
<1> SUFFICES ASSUME ControlOK, WindowsOK, [Next]_vars PROVE WindowsOK'
  OBVIOUS
<1>1. CASE Application \/ UNCHANGED vars
  <2>1. CASE UNCHANGED vars
    BY <2>1 DEF vars, WindowsOK, WindowsNest, LeftForGood, Path
  <2>2. ASSUME NEW c \in Contents, Render(c) PROVE WindowsOK'
    BY <2>2 DEF Render, stepVars, WindowsOK, WindowsNest, LeftForGood, Path
  <2>3. CASE OpenWindow
    BY <2>3, WindowsOpenAndClose DEF OpenWindow, stepVars
  <2>4. ASSUME NEW w \in 1..Len(windows), CloseWindow(w) PROVE WindowsOK'
    BY <2>4, WindowsOpenAndClose DEF CloseWindow, stepVars
  <2> QED BY <1>1, <2>1, <2>2, <2>3, <2>4 DEF Application
<1>2. ASSUME NEW s \in Steps, Begin(s) PROVE WindowsOK'
  <2>1. Parts(s)[1] \in [verb : Verbs, target : Targets]
    <3>1. 1 \in 1..Len(Parts(s))
      BY PartsOfAStep
    <3> QED BY <3>1, PartsOfAStep, ElementOfSeq
  <2>2. pc' \in AfterPart
    BY <1>2, <2>1, EntersAfterPart DEF Begin
  <2> QED BY <1>2, <2>2, WindowsStay DEF Begin, AfterPart
<1>3. CASE Unresolved \/ KeepWaiting \/ GiveUp \/ Act \/ See \/ WaitSatisfied \/ LoadFails
           \/ Reached \/ NotReached \/ NoWindow \/ NothingEarlier \/ CloseFails
  <2>1. pc # "ready" /\ UNCHANGED windowVars
    BY <1>3 DEF Unresolved, KeepWaiting, GiveUp, Act, See, WaitSatisfied, LoadFails, Reached, NotReached, NoWindow,
                NothingEarlier, CloseFails
  <2>2. \/ Sleep \/ Continue
        \/ \E status \in {"passed", "failed", "error"} : End(status)
        \/ \E visible \in BOOLEAN : Judge(visible)
    <3>1. CASE Unresolved \/ KeepWaiting \/ LoadFails \/ NotReached \/ NoWindow \/ NothingEarlier
               \/ WaitSatisfied
      BY <3>1 DEF Unresolved, KeepWaiting, LoadFails, Reached, NotReached, NoWindow, NothingEarlier, WaitSatisfied
    <3>2. CASE Act \/ See \/ Reached \/ CloseFails
      BY <3>2 DEF Act, See, Reached, CloseFails
    <3>3. CASE GiveUp
      BY <3>3 DEF GiveUp
    <3> QED BY <1>3, <3>1, <3>2, <3>3
  <2>3. pc' \notin {"entering", "closing"}
    BY <2>1, <2>2, PartEnds DEF Sleep, PartOver, AfterPart
  <2> QED BY <2>1, <2>3, WindowsStay
<1>4. ASSUME NEW c \in Contents, Loaded(c) PROVE WindowsOK'
  <2>1. pc' \in AfterPart
    BY <1>4, PartEnds DEF Loaded, PartOver
  <2> QED BY <1>4, <2>1 DEF Loaded, AfterPart, WindowsOK, WindowsNest, LeftForGood, Path
<1>5. ASSUME NEW c \in Contents, Enter(c) PROVE WindowsOK'
  <2>1. pc' \in AfterPart
    BY <1>5, PartEnds DEF Enter, PartOver
  <2> QED BY <1>5, <2>1, EnterNests
<1>6. ASSUME NEW c \in Contents, GoBack(c) PROVE WindowsOK'
  BY <1>6, BackNests
<1>7. CASE Closed
  <2>1. pc' \in AfterPart
    BY <1>7, PartEnds DEF Closed, PartOver
  <2> QED BY <1>7, <2>1, ClosedIsLeft
<1>8. CASE Resolved
  BY <1>8, WindowsStay DEF Resolved
<1>9. CASE Tick
  BY <1>9, WindowsStay DEF Tick
<1>10. CASE WindowFound
  BY <1>10, FoundIsNew
<1>11. CASE RunOver
  BY <1>1, <1>11 DEF RunOver
<1> QED BY <1>1, <1>2, <1>3, <1>4, <1>5, <1>6, <1>7, <1>8, <1>9, <1>10, <1>11 DEF Next, Session

\* The inductive invariant holds in every reachable state.
THEOREM IndInvHolds == Spec => []IndInv
<1>1. ControlOK /\ WindowsOK => IndInv
  BY DEF IndInv, TypeOK, WindowsOK
<1>2. Init => ControlOK /\ WindowsOK
  BY ControlInitially, WindowsInitially
<1>3. (ControlOK /\ WindowsOK) /\ [Next]_vars => (ControlOK /\ WindowsOK)'
  BY ControlStep, WindowsStep
<1> QED BY <1>1, <1>2, <1>3, PTL DEF Spec

\* A step's control and the session's windows are what their types say, with any number of
\* windows and any form.
THEOREM TypeCorrect == Spec => []TypeOK
<1>1. IndInv => TypeOK
  BY DEF IndInv
<1> QED BY <1>1, IndInvHolds, PTL

\* The session comes back the way it went, however windows open and close meanwhile.
THEOREM WindowsAlwaysNest == Spec => []WindowsNest
<1>1. IndInv => WindowsNest
  BY DEF IndInv
<1> QED BY <1>1, IndInvHolds, PTL

\* A window that was gone back from and closed is never worked in again.
THEOREM LeftWindowsStayLeft == Spec => []LeftForGood
<1>1. IndInv => LeftForGood
  BY DEF IndInv
<1> QED BY <1>1, IndInvHolds, PTL

-----------------------------------------------------------------------------
\* Positions, and counting them.

LEMMA LeastOf == ASSUME NEW T, T \subseteq Nat, T # {} PROVE \E x \in T : \A y \in T : x <= y
<1>1. \A x, y \in Nat : y < x => <<y, x>> \in OpToRel(<, Nat)
  BY DEF OpToRel
<1>2. PICK x \in T : \A y \in T : ~ (<<y, x>> \in OpToRel(<, Nat))
  BY NatLessThanWellFounded, WFMin
<1>3. \A y \in T : ~ (y < x)
  BY <1>1, <1>2
<1>4. \A y \in T : y \in Nat /\ x \in Nat
  OBVIOUS
<1> QED BY <1>3, <1>4

\* Counting positions: those of a set that are below i, with i and without it.
LEMMA CountBelow ==
    ASSUME NEW N \in Nat, NEW S \in SUBSET (1..N), NEW i \in Nat
    PROVE  /\ IsFiniteSet(S) /\ Cardinality(S) \in Nat
           /\ IsFiniteSet(Below(S, i)) /\ Cardinality(Below(S, i)) \in Nat
           /\ i \in S => Cardinality(Below(S, i + 1)) = Cardinality(Below(S, i)) + 1
           /\ i \notin S => Below(S, i + 1) = Below(S, i)
<1>1. IsFiniteSet(1..N)
  BY FS_Interval
<1>2. IsFiniteSet(S)
  BY <1>1, FS_Subset
<1>3. IsFiniteSet(Below(S, i))
  BY <1>2, FS_Subset DEF Below
<1>4. Cardinality(S) \in Nat /\ Cardinality(Below(S, i)) \in Nat
  BY <1>2, <1>3, FS_CardinalityType
<1>5. \A j \in S : j < i + 1 <=> j < i \/ j = i
  OBVIOUS
<1>6. i \in S => Below(S, i + 1) = Below(S, i) \cup {i}
  BY <1>5 DEF Below
<1>7. i \notin S => Below(S, i + 1) = Below(S, i)
  BY <1>5 DEF Below
<1>8. i \notin Below(S, i)
  BY DEF Below
<1>9. Cardinality(Below(S, i) \cup {i}) = Cardinality(Below(S, i)) + 1
  BY <1>3, <1>8, FS_AddElement
<1> QED BY <1>2, <1>3, <1>4, <1>6, <1>7, <1>9

\* A list of positions has something in each of its places.
LEMMA AtAPlace ==
    ASSUME NEW N \in Nat, NEW S \in SUBSET (1..N), NEW k \in 0..(Cardinality(S) - 1)
    PROVE  At(S, k) \in S /\ Cardinality(Below(S, At(S, k))) = k
<1> DEFINE count(n) == Cardinality(Below(S, n))
<1>0. Cardinality(S) \in Nat /\ k \in Nat /\ k < Cardinality(S)
  <2>1. Cardinality(S) \in Nat
    BY CountBelow
  <2> QED BY <2>1
<1>1. \A n \in Nat : /\ count(n) \in Nat
                     /\ n \in S => count(n + 1) = count(n) + 1
                     /\ n \notin S => count(n + 1) = count(n)
  BY CountBelow
<1>2. count(0) = 0
  <2>1. \A j \in S : ~ (j < 0)
    OBVIOUS
  <2>2. Below(S, 0) = {}
    BY <2>1 DEF Below
  <2> QED BY <2>2, FS_EmptySet
<1>3. count(N + 1) = Cardinality(S)
  <2>1. \A j \in S : j < N + 1
    OBVIOUS
  <2>2. Below(S, N + 1) = S
    BY <2>1 DEF Below
  <2> QED BY <2>2
<1> HIDE DEF count
<1> DEFINE more == {n \in Nat : count(n) > k}
<1>4. N + 1 \in more
  BY <1>0, <1>3
<1>5. PICK t \in more : \A n \in more : t <= n
  <2>1. more \subseteq Nat /\ more # {}
    BY <1>4
  <2> HIDE DEF more
  <2> QED BY <2>1, LeastOf
<1>6. t # 0 /\ t \in Nat /\ count(t) > k
  BY <1>0, <1>2, <1>5
<1>7. t - 1 \in Nat /\ (t - 1) + 1 = t /\ ~ (count(t - 1) > k)
  BY <1>5, <1>6
<1>8. PICK m \in Nat : m = t - 1
  BY <1>7
<1>9. m \in S /\ count(m) = k
  BY <1>0, <1>1, <1>6, <1>7, <1>8
<1>10. \E i \in S : Cardinality(Below(S, i)) = k
  BY <1>9 DEF count
<1> QED BY <1>10 DEF At

\* A document's elements that a way finds are numbered, and no two have the same number.
LEMMA NumberTells ==
    ASSUME NEW doc, NEW way, Len(doc) \in Nat
    PROVE  /\ Located(doc, way) \in SUBSET (1..Len(doc))
           /\ \A i \in 1..Len(doc) : Number(doc, way, i) \in Nat
           /\ \A i, j \in Located(doc, way) :
                 Number(doc, way, i) = Number(doc, way, j) => i = j
<1> DEFINE L == Located(doc, way)
<1>1. L \in SUBSET (1..Len(doc))
  BY DEF Located
<1>2. \A i \in 1..Len(doc) : /\ IsFiniteSet(Below(L, i)) /\ Cardinality(Below(L, i)) \in Nat
                             /\ Number(doc, way, i) = Cardinality(Below(L, i))
  <2>1. \A i \in 1..Len(doc) : IsFiniteSet(Below(L, i)) /\ Cardinality(Below(L, i)) \in Nat
    <3> HIDE DEF L
    <3>1. \A i \in 1..Len(doc) : i \in Nat
      OBVIOUS
    <3>2. \A i \in Nat : IsFiniteSet(Below(L, i)) /\ Cardinality(Below(L, i)) \in Nat
      BY <1>1, CountBelow
    <3> QED BY <3>1, <3>2
  <2> QED BY <2>1 DEF Number
<1> HIDE DEF L
<1>3. ASSUME NEW i \in L, NEW j \in L, i < j
      PROVE  Cardinality(Below(L, i)) < Cardinality(Below(L, j))
  <2>1. i \in Nat /\ j \in Nat /\ i \in 1..Len(doc) /\ j \in 1..Len(doc)
    BY <1>1
  <2>2. \A k \in L : k < i + 1 => k < j
    <3>1. \A k \in Nat : k < i + 1 => k < j
      BY <1>3, <2>1
    <3> QED BY <1>1, <3>1
  <2>3. Below(L, i + 1) \in SUBSET Below(L, j)
    BY <2>2 DEF Below
  <2>4. Cardinality(Below(L, i + 1)) = Cardinality(Below(L, i)) + 1
    BY ONLY <1>1, <1>3, <2>1, Len(doc) \in Nat, CountBelow
  <2>5. Cardinality(Below(L, i + 1)) <= Cardinality(Below(L, j))
    BY <1>2, <2>1, <2>3, FS_Subset
  <2> QED BY <1>2, <2>1, <2>4, <2>5
<1>4. ASSUME NEW i \in L, NEW j \in L, Number(doc, way, i) = Number(doc, way, j) PROVE i = j
  <2>1. i \in 1..Len(doc) /\ j \in 1..Len(doc) /\ i \in Nat /\ j \in Nat
    BY <1>1
  <2>2. Cardinality(Below(L, i)) = Cardinality(Below(L, j)) /\ Cardinality(Below(L, i)) \in Nat
    BY <1>2, <1>4, <2>1
  <2>3. ~ (i < j) /\ ~ (j < i)
    BY <1>3, <2>2
  <2> QED BY <2>1, <2>3
<1> QED BY <1>1, <1>2, <1>4 DEF L
-----------------------------------------------------------------------------
\* What resolve returns.

\* An element that the way examines stands behind a locator of that way: the only one when
\* there is no ordinal, or the one that has as many up to it as the ordinal says.
Picks(doc, way, index, i) ==
    /\ i \in VisibleMatches(doc, way)
    /\ index = NoIndex => VisibleMatches(doc, way) = {i}
    /\ index \in Nat \ {0} => Cardinality(Below(VisibleMatches(doc, way), i)) = index - 1

TooFew(doc, way, index) ==
    index # NoIndex /\ (index # LastOne => Cardinality(VisibleMatches(doc, way)) < index)

\* One way of looking that sees something either has the element that the ordinal says, or
\* too few, or no ordinal to choose by.
LEMMA ByWayPicks ==
    ASSUME NEW doc, NEW frame, NEW way, NEW index \in {NoIndex, LastOne} \cup (Nat \ {0}),
           Len(doc) \in Nat, VisibleMatches(doc, way) # {}
    PROVE  LET found == ByWay(doc, frame, way, index)
           IN \/ \E i : /\ Picks(doc, way, index, i)
                        /\ found = Outcome("locator", frame, way, Number(doc, way, i))
              \/ found = NotFound /\ TooFew(doc, way, index)
              \/ found = Ambiguous
<1> DEFINE M == VisibleMatches(doc, way)
           place == IF index = NoIndex THEN 0 ELSE Wanted(doc, way, index)
<1>1. M \in SUBSET (1..Len(doc))
  BY DEF VisibleMatches, Located
<1>2. IsFiniteSet(M) /\ Cardinality(M) \in Nat
  <2> HIDE DEF M
  <2> QED BY <1>1, CountBelow
<1>3. index \in Nat \ {0} => index # LastOne /\ index # NoIndex /\ place = index - 1
  BY DEF Wanted, LastOne, NoIndex
<1>4. CASE index = NoIndex /\ Cardinality(M) # 1
  BY <1>4 DEF ByWay
<1>5. CASE index # NoIndex /\ place \notin 0..(Cardinality(M) - 1)
  <2>1. ByWay(doc, frame, way, index) = NotFound
    BY <1>5 DEF ByWay
  <2>2. ASSUME index # LastOne PROVE Cardinality(M) < index
    <3>1. index \in Nat \ {0} /\ place = index - 1
      BY <1>3, <1>5, <2>2
    <3> HIDE DEF place, M
    <3> QED BY <1>2, <1>5, <3>1
  <2> QED BY <1>5, <2>1, <2>2 DEF TooFew
<1>6. CASE /\ ~ (index = NoIndex /\ Cardinality(M) # 1)
           /\ ~ (index # NoIndex /\ place \notin 0..(Cardinality(M) - 1))
  <2>1. ByWay(doc, frame, way, index)
          = Outcome("locator", frame, way, Number(doc, way, At(M, place)))
    BY <1>6 DEF ByWay
  <2>2. place \in 0..(Cardinality(M) - 1)
    BY <1>2, <1>6
  <2>3. At(M, place) \in M /\ Cardinality(Below(M, At(M, place))) = place
    <3> HIDE DEF M, place
    <3> QED BY <1>1, <2>2, AtAPlace
  <2>4. ASSUME index = NoIndex PROVE M = {At(M, place)}
    <3>1. Cardinality(M) = 1
      BY <1>6, <2>4
    <3> HIDE DEF M
    <3>2. PICK x : M = {x}
      BY <1>2, <3>1, FS_Singleton
    <3> QED BY <2>3, <3>2
  <2>5. Picks(doc, way, index, At(M, place))
    BY <1>3, <2>3, <2>4 DEF Picks
  <2> QED BY <2>1, <2>5
<1> QED BY <1>4, <1>5, <1>6

\* The first way of looking that sees anything in a document.
Best(doc, way) ==
    /\ way \in 1..Ways /\ VisibleMatches(doc, way) # {}
    /\ \A v \in 1..(way - 1) : VisibleMatches(doc, v) = {}

\* What one document makes of a phrase, by the best way.
LEMMA WithinPicks ==
    ASSUME NEW doc, NEW frame, NEW target \in Targets, Len(doc[frame]) \in Nat
    PROVE  LET found == ResolveWithin(doc, frame, target)
           IN \/ \E way, i : /\ Best(doc[frame], way) /\ Picks(doc[frame], way, target.index, i)
                             /\ found = Outcome("locator", frame, way, Number(doc[frame], way, i))
              \/ found = NotFound
                   /\ \A way : Best(doc[frame], way) => TooFew(doc[frame], way, target.index)
              \/ found = Ambiguous
<1> DEFINE productive == {way \in 1..Ways : VisibleMatches(doc[frame], way) # {}}
           outcome == [way \in productive |-> ByWay(doc[frame], frame, way, target.index)]
<1>1. ResolveWithin(doc, frame, target)
        = IF productive = {} THEN NotFound ELSE outcome[Min(productive)]
  BY DEF ResolveWithin
<1>2. \A way : Best(doc[frame], way) => way \in productive
  BY DEF Best
<1>3. CASE productive = {}
  BY <1>1, <1>2, <1>3
<1>4. CASE productive # {}
  <2>1. productive \subseteq Nat /\ \A v \in productive : v \in 1..Ways
    BY ResolverAssumption
  <2>2. \E w \in productive : \A v \in productive : w <= v
    <3> HIDE DEF productive
    <3> QED BY <1>4, <2>1, LeastOf
  <2>3. PICK way \in productive : way = Min(productive) /\ \A v \in productive : way <= v
    BY <2>2 DEF Min
  <2>4. ResolveWithin(doc, frame, target) = ByWay(doc[frame], frame, way, target.index)
    BY <1>1, <1>4, <2>3
  <2>5. Best(doc[frame], way)
    <3>1. \A v \in 1..(way - 1) : v \in 1..Ways /\ ~ (way <= v)
      BY <2>1, <2>3, ResolverAssumption
    <3> QED BY <2>3, <3>1 DEF Best
  <2>6. \A w : Best(doc[frame], w) => w = way
    <3>1. ASSUME NEW w, Best(doc[frame], w) PROVE w = way
      <4>1. w \in productive /\ way <= w /\ w \in Nat /\ way \in Nat
        BY <1>2, <2>1, <2>3, <3>1
      <4>2. way \in 1..Ways /\ VisibleMatches(doc[frame], way) # {}
        BY <2>3
      <4>3. way \notin 1..(w - 1)
        BY <3>1, <4>2 DEF Best
      <4>4. 1 <= way
        BY <4>2
      <4> QED BY <4>1, <4>3, <4>4
    <3> QED BY <3>1
  <2>7. target.index \in {NoIndex, LastOne} \cup (Nat \ {0}) /\ VisibleMatches(doc[frame], way) # {}
    BY <2>3 DEF Targets
  <2> HIDE DEF productive, outcome
  <2> QED BY <2>4, <2>5, <2>6, <2>7, ByWayPicks
<1> QED BY <1>3, <1>4
\* What a page makes of a phrase: what one of its documents does, and an iframe only when the
\* main document has nothing.
LEMMA ResolvePicks ==
    ASSUME NEW doc, NEW target \in Targets, target.phrase, Len(doc) \in Nat \ {0},
           \A f \in 1..Len(doc) : Len(doc[f]) \in Nat,
           Resolve(doc, target).kind = "locator"
    PROVE  \E f \in 1..Len(doc) : \E way, i :
              /\ f = 1 \/ \A v : Best(doc[1], v) => TooFew(doc[1], v, target.index)
              /\ Best(doc[f], way) /\ Picks(doc[f], way, target.index, i)
              /\ Resolve(doc, target) = Outcome("locator", f, way, Number(doc[f], way, i))
<1> DEFINE within == [f \in 1..Len(doc) |-> ResolveWithin(doc, f, target)]
           frames == {f \in 2..Len(doc) : within[f].kind = "locator"}
<1>1. 1 \in 1..Len(doc) /\ \A f \in frames : f \in 1..Len(doc)
  OBVIOUS
<1>2. ASSUME NEW f \in 1..Len(doc), Resolve(doc, target) = within[f],
             f = 1 \/ within[1] = NotFound
      PROVE  \E way, i :
              /\ f = 1 \/ \A v : Best(doc[1], v) => TooFew(doc[1], v, target.index)
              /\ Best(doc[f], way) /\ Picks(doc[f], way, target.index, i)
              /\ Resolve(doc, target) = Outcome("locator", f, way, Number(doc[f], way, i))
  <2>1. Resolve(doc, target) = ResolveWithin(doc, f, target)
    BY <1>2
  <2>2. NotFound.kind # "locator" /\ Ambiguous.kind # "locator"
    BY DEF NotFound, Ambiguous, Outcome
  <2>3. \E way, i : /\ Best(doc[f], way) /\ Picks(doc[f], way, target.index, i)
                    /\ Resolve(doc, target) = Outcome("locator", f, way, Number(doc[f], way, i))
    <3>1. Len(doc[f]) \in Nat
      BY <1>2
    <3> QED BY <2>1, <2>2, <3>1, WithinPicks
  <2>4. f # 1 => \A v : Best(doc[1], v) => TooFew(doc[1], v, target.index)
    <3>1. f # 1 => ResolveWithin(doc, 1, target) = NotFound
      BY <1>1, <1>2
    <3>2. NotFound # Ambiguous /\ \A way, n : NotFound # Outcome("locator", 1, way, n)
      BY DEF NotFound, Ambiguous, Outcome
    <3>3. Len(doc[1]) \in Nat
      BY <1>1
    <3> QED BY <3>1, <3>2, <3>3, WithinPicks
  <2> QED BY <2>3, <2>4
<1>3. CASE within[1] # NotFound
  <2>1. Resolve(doc, target) = within[1]
    BY <1>3 DEF Resolve
  <2> HIDE DEF within
  <2> QED BY <1>1, <1>2, <2>1
<1>4. CASE within[1] = NotFound /\ frames = {}
  <2>1. Resolve(doc, target) = NotFound
    BY <1>4 DEF Resolve
  <2> QED BY <2>1 DEF NotFound, Outcome
<1>5. CASE within[1] = NotFound /\ frames # {}
  <2>1. Resolve(doc, target) = within[Min(frames)]
    BY <1>5 DEF Resolve
  <2>2. frames \subseteq Nat
    OBVIOUS
  <2> HIDE DEF frames, within
  <2>3. \E w \in frames : \A v \in frames : w <= v
    BY <1>5, <2>2, LeastOf
  <2>4. Min(frames) \in frames
    BY <2>3 DEF Min
  <2> QED BY <1>1, <1>2, <1>5, <2>1, <2>4
<1> QED BY <1>3, <1>4, <1>5

-----------------------------------------------------------------------------
\* The properties' own way of counting, over elements given by document and position, comes to
\* the same.

Pairs(f, positions) == {<<f, i>> : i \in positions}
Seen(doc, f, way) == {x \in Visible(doc, {way}) :
                         x[1] = f /\ Cardinality(Before(doc, x, way)) < Cap}
SeenUpTo(doc, f, way, i) == {y \in Seen(doc, f, way) : y[2] <= i}

\* A position is a document and a place in it.
LEMMA PositionsAre ==
    ASSUME NEW doc, \A f \in 1..Len(doc) : Len(doc[f]) \in Nat
    PROVE  \A x : x \in Positions(doc) <=>
              \E f \in 1..Len(doc) : \E i \in 1..Len(doc[f]) : x = <<f, i>>
BY DEF Positions

\* An element has as many before it as its number says.
LEMMA SameNumber ==
    ASSUME NEW doc, NEW f, NEW way, NEW i \in 1..Len(doc[f]), Len(doc[f]) \in Nat
    PROVE  Cardinality(Before(doc, <<f, i>>, way)) = Number(doc[f], way, i)
<1>1. \A j : j \in 1..(i - 1) <=> j \in 1..Len(doc[f]) /\ j < i
  OBVIOUS
<1>2. Before(doc, <<f, i>>, way) = Below(Located(doc[f], way), i)
  BY <1>1 DEF Before, Below, Located
<1> QED BY <1>2 DEF Number

\* The elements that are seen in a document are the matches that the code finds.
LEMMA SeenIsMatched ==
    ASSUME NEW doc, NEW f \in 1..Len(doc), NEW way,
           \A g \in 1..Len(doc) : Len(doc[g]) \in Nat
    PROVE  Seen(doc, f, way) = Pairs(f, VisibleMatches(doc[f], way))
<1>1. \A x : x \in Visible(doc, {way}) /\ x[1] = f
               <=> \E i \in Located(doc[f], way) : x = <<f, i>> /\ doc[f][i].visible
  BY PositionsAre DEF Visible, Located
<1>2. \A i \in Located(doc[f], way) :
         Cardinality(Before(doc, <<f, i>>, way)) = Number(doc[f], way, i)
  BY SameNumber DEF Located
<1>3. \A x : x \in Seen(doc, f, way)
               <=> \E i \in VisibleMatches(doc[f], way) : x = <<f, i>>
  <2>1. \A x : x \in Seen(doc, f, way)
         <=> /\ x \in Visible(doc, {way}) /\ x[1] = f
             /\ Cardinality(Before(doc, x, way)) < Cap
    BY DEF Seen
  <2>2. \A i : i \in VisibleMatches(doc[f], way)
         <=> /\ i \in Located(doc[f], way) /\ doc[f][i].visible
             /\ Number(doc[f], way, i) < Cap
    BY DEF VisibleMatches
  <2>3. ASSUME NEW x, x \in Seen(doc, f, way)
        PROVE  \E i \in VisibleMatches(doc[f], way) : x = <<f, i>>
    <3>1. PICK i \in Located(doc[f], way) : x = <<f, i>> /\ doc[f][i].visible
      BY ONLY <1>1, <2>1, <2>3
    <3>2. Number(doc[f], way, i) < Cap
      BY <1>2, <2>1, <2>3, <3>1
    <3> QED BY <2>2, <3>1, <3>2
  <2>4. ASSUME NEW i \in VisibleMatches(doc[f], way) PROVE <<f, i>> \in Seen(doc, f, way)
    <3>1. <<f, i>> \in Visible(doc, {way}) /\ <<f, i>>[1] = f
      BY <1>1, <2>2, <2>4
    <3>2. Cardinality(Before(doc, <<f, i>>, way)) < Cap
      BY <1>2, <2>2, <2>4
    <3> QED BY <2>1, <3>1, <3>2
  <2> QED BY <2>3, <2>4
<1> QED BY <1>3 DEF Pairs

\* As many elements of a document as positions.
LEMMA PairsCount ==
    ASSUME NEW f, NEW S, IsFiniteSet(S)
    PROVE  Cardinality(Pairs(f, S)) = Cardinality(S)
<1> DEFINE T == Pairs(f, S)
           pair == [i \in S |-> <<f, i>>]
<1>1. pair \in Bijection(S, T)
  <2>1. pair \in [S -> T] /\ \A i, j \in S : pair[i] = pair[j] => i = j
    BY DEF Pairs
  <2>2. \A t \in T : \E i \in S : pair[i] = t
    BY DEF Pairs
  <2> QED BY <2>1, <2>2 DEF Bijection, Injection, Surjection, IsInjective
<1>2. ExistsBijection(S, T)
  BY <1>1 DEF ExistsBijection
<1> HIDE DEF T
<1>3. Cardinality(T) = Cardinality(S)
  BY <1>2, FS_Bijection
<1> QED BY <1>3 DEF T
\* As many elements as positions, of those seen and of those up to one of them.
LEMMA SeenCount ==
    ASSUME NEW doc, NEW f \in 1..Len(doc), NEW way,
           \A g \in 1..Len(doc) : Len(doc[g]) \in Nat
    PROVE  /\ Cardinality(Seen(doc, f, way)) = Cardinality(VisibleMatches(doc[f], way))
           /\ \A i \in VisibleMatches(doc[f], way) :
                 Cardinality(SeenUpTo(doc, f, way, i))
                    = Cardinality(Below(VisibleMatches(doc[f], way), i)) + 1
<1> DEFINE M == VisibleMatches(doc[f], way)
<1>1. M \in SUBSET (1..Len(doc[f])) /\ Len(doc[f]) \in Nat
  BY DEF VisibleMatches, Located
<1>2. Seen(doc, f, way) = Pairs(f, M)
  BY SeenIsMatched
<1> HIDE DEF M
<1>3. IsFiniteSet(M)
  BY <1>1, CountBelow
<1>4. Cardinality(Seen(doc, f, way)) = Cardinality(M)
  BY <1>2, <1>3, PairsCount
<1>5. ASSUME NEW i \in M
      PROVE  Cardinality(SeenUpTo(doc, f, way, i)) = Cardinality(Below(M, i)) + 1
  <2>1. i \in Nat /\ i + 1 \in Nat /\ \A j \in M : j \in Nat
    BY <1>1
  <2>2. \A j \in M : j <= i <=> j < i + 1
    BY <2>1
  <2>3. SeenUpTo(doc, f, way, i) = Pairs(f, Below(M, i + 1))
    BY <1>2, <2>2 DEF Below, Pairs, SeenUpTo
  <2>4. IsFiniteSet(Below(M, i + 1))
    BY <1>1, <2>1, CountBelow
  <2>5. Cardinality(Pairs(f, Below(M, i + 1))) = Cardinality(Below(M, i + 1))
    BY <2>4, PairsCount
  <2>6. Cardinality(Below(M, i + 1)) = Cardinality(Below(M, i)) + 1
    BY <1>1, <2>1, CountBelow
  <2> QED BY <2>3, <2>5, <2>6
<1>6. M = VisibleMatches(doc[f], way)
  BY DEF M
<1> QED BY <1>4, <1>5, <1>6

\* What resolve returned names, while the page is what it was, only what the phrase names.
LEMMA ResolvedIsNamed ==
    ASSUME NEW doc, NEW target \in Targets, NEW x,
           target.phrase, target.index # LastOne, Len(doc) \in Nat \ {0},
           \A f \in 1..Len(doc) : Len(doc[f]) \in Nat,
           Resolve(doc, target).kind = "locator",
           x \in Found(doc, Resolve(doc, target)) \cap Visible(doc, 0..Ways)
    PROVE  x \in Named(doc, target)
<1>0. PICK f \in 1..Len(doc) : \E way, i :
         /\ f = 1 \/ \A v : Best(doc[1], v) => TooFew(doc[1], v, target.index)
         /\ Best(doc[f], way) /\ Picks(doc[f], way, target.index, i)
         /\ Resolve(doc, target) = Outcome("locator", f, way, Number(doc[f], way, i))
  BY ResolvePicks
<1>1. PICK way, i :
         /\ f = 1 \/ \A v : Best(doc[1], v) => TooFew(doc[1], v, target.index)
         /\ Best(doc[f], way) /\ Picks(doc[f], way, target.index, i)
         /\ Resolve(doc, target) = Outcome("locator", f, way, Number(doc[f], way, i))
  BY <1>0
<1> DEFINE M == VisibleMatches(doc[f], way)
<1>2. i \in M /\ way \in 1..Ways /\ M \subseteq Located(doc[f], way) /\ Len(doc[f]) \in Nat
  BY <1>1 DEF Picks, Best, VisibleMatches
<1>3. x = <<f, i>>
  <2>1. /\ x \in Positions(doc) /\ x[1] = f /\ way \in doc[x[1]][x[2]].fits
        /\ Cardinality(Before(doc, x, way)) = Number(doc[f], way, i)
    BY <1>1 DEF Found, Outcome
  <2>2. PICK j \in 1..Len(doc[f]) : x = <<f, j>>
    BY <2>1, PositionsAre
  <2>3. j \in Located(doc[f], way) /\ Number(doc[f], way, j) = Number(doc[f], way, i)
    BY <1>2, <2>1, <2>2, SameNumber DEF Located
  <2>4. j = i
    BY <1>2, <2>3, NumberTells
  <2> QED BY <2>2, <2>4
<1>4. \A g \in 1..Len(doc), v \in 1..Ways : Best(doc[g], v)
         <=> Seen(doc, g, v) # {} /\ \A u \in 1..(v - 1) : Seen(doc, g, u) = {}
  <2>1. \A g \in 1..Len(doc) : \A v : Seen(doc, g, v) = {} <=> VisibleMatches(doc[g], v) = {}
    <3>1. \A g \in 1..Len(doc) : \A v : Seen(doc, g, v) = Pairs(g, VisibleMatches(doc[g], v))
      BY SeenIsMatched
    <3>2. \A g, S : Pairs(g, S) = {} <=> S = {}
      BY DEF Pairs
    <3> QED BY <3>1, <3>2
  <2> QED BY <2>1 DEF Best
<1>5. f = 1 \/ \A v \in 1..Ways :
         Seen(doc, 1, v) # {} /\ (\A u \in 1..(v - 1) : Seen(doc, 1, u) = {})
           => target.index # NoIndex /\ Cardinality(Seen(doc, 1, v)) < target.index
  <2>1. 1 \in 1..Len(doc)
    OBVIOUS
  <2>2. \A v : Cardinality(Seen(doc, 1, v)) = Cardinality(VisibleMatches(doc[1], v))
    BY <2>1, SeenCount
  <2> QED BY <1>1, <1>4, <2>1, <2>2 DEF TooFew
<1>6. x \in Fitting(doc, target)
  <2>1. /\ x \in Positions(doc) /\ doc[x[1]][x[2]].visible
        /\ way \in doc[x[1]][x[2]].fits
    BY <1>2, <1>3 DEF Visible, VisibleMatches, Located
  <2> QED BY <1>2, <2>1 DEF Fitting, Visible
<1>7. x \in Seen(doc, f, way)
  BY <1>2, <1>3, SeenIsMatched DEF Pairs
<1>8. target.index = NoIndex => Seen(doc, f, way) = {x}
  <2>1. target.index = NoIndex => M = {i}
    BY <1>1 DEF Picks
  <2>2. Seen(doc, f, way) = Pairs(f, M)
    BY SeenIsMatched
  <2> QED BY <1>3, <2>1, <2>2 DEF Pairs
<1>9. target.index # NoIndex
         => Cardinality(SeenUpTo(doc, f, way, x[2])) = target.index
  <2>1. target.index # NoIndex => target.index \in Nat \ {0}
    BY DEF Targets
  <2>2. target.index # NoIndex => Cardinality(Below(M, i)) = target.index - 1
    BY <1>1, <2>1 DEF Picks
  <2>3. Cardinality(SeenUpTo(doc, f, way, i)) = Cardinality(Below(M, i)) + 1
    <3>1. \A j \in VisibleMatches(doc[f], way) :
             Cardinality(SeenUpTo(doc, f, way, j))
                = Cardinality(Below(VisibleMatches(doc[f], way), j)) + 1
      BY ONLY SeenCount, f \in 1..Len(doc), \A g \in 1..Len(doc) : Len(doc[g]) \in Nat
    <3> QED BY <1>2, <3>1
  <2>4. x[2] = i
    BY <1>3
  <2> QED BY <2>1, <2>2, <2>3, <2>4
<1>10. Seen(doc, f, way) # {} /\ \A u \in 1..(way - 1) : Seen(doc, f, u) = {}
  BY <1>1, <1>2, <1>4
<1>11. x[1] = f
  BY <1>3
<1> QED BY <1>2, <1>5, <1>6, <1>7, <1>8, <1>9, <1>10, <1>11 DEF Named, Seen, SeenUpTo

\* The ways of looking that a target has.
WaysOf(target) == IF target.phrase THEN 1..Ways ELSE {0}

\* A locator goes by one of the ways of a phrase, or by the one way of a target without words.
LEMMA ResolveGoesByAWay ==
    ASSUME NEW doc, NEW target \in Targets, Len(doc) \in Nat \ {0},
           \A f \in 1..Len(doc) : Len(doc[f]) \in Nat,
           Resolve(doc, target).kind = "locator"
    PROVE  Resolve(doc, target).way \in WaysOf(target)
<1>1. CASE ~target.phrase
  BY <1>1 DEF Resolve, Outcome, WaysOf
<1>2. CASE target.phrase
  BY <1>2, ResolvePicks DEF Best, Outcome, WaysOf
<1> QED BY <1>1, <1>2

-----------------------------------------------------------------------------
\* The places of a step, and the locator in them.

\* Where the parts of each kind are, while they are under way.
Places(verb) ==
    CASE verb \in {"act", "see"} -> {"resolving", "acting"}
      [] verb = "wait" -> {"resolving", "acting", "sleeping"}
      [] verb = "load" -> {"loading"}
      [] verb = "reach" -> {"reaching"}
      [] verb = "look" -> {"looking", "entering"}
      [] verb = "back" -> {"leaving", "closing"}

PlaceInv ==
    /\ pc # "ready" => pc \in Places(Current.verb)
    /\ pc = "acting" => locator.way \in WaysOf(Current.target)

LEMMA CurrentPart == ControlOK => Current.verb \in Verbs /\ Current.target \in Targets
<1> SUFFICES ASSUME ControlOK PROVE Current.verb \in Verbs /\ Current.target \in Targets
  OBVIOUS
<1>1. step \in Steps /\ part \in 1..Len(Parts(step))
  BY DEF ControlOK
<1>2. Parts(step) \in Seq([verb : Verbs, target : Targets])
  BY <1>1, PartsOfAStep
<1>3. Parts(step)[part] \in [verb : Verbs, target : Targets]
  BY <1>1, <1>2, ElementOfSeq
<1> QED BY <1>3 DEF Current

LEMMA EntersItsPlace ==
    ASSUME NEW v \in Verbs PROVE Enters(v) \in Places(v) /\ Enters(v) # "acting"
BY DEF Enters, Places, Verbs

\* What ends a part leaves the next one where it begins.
LEMMA NextPartBegins ==
    ASSUME ControlOK,
           \/ \E status \in {"passed", "failed", "error"} : End(status)
           \/ Continue
           \/ \E visible \in BOOLEAN : Judge(visible)
    PROVE  PlaceInv'
<1>1. ASSUME NEW status \in {"passed", "failed", "error"}, End(status) PROVE PlaceInv'
  BY <1>1 DEF End, PlaceInv
<1>2. ASSUME Continue PROVE PlaceInv'
  <2>1. CASE part < Len(Parts(step))
    <3>1. step' = step /\ part' = part + 1 /\ pc' = Enters(Parts(step)[part + 1].verb)
      BY <1>2, <2>1 DEF Continue
    <3>2. step \in Steps /\ part + 1 \in 1..Len(Parts(step))
      BY <2>1, PartsOfAStep DEF ControlOK
    <3>3. Parts(step)[part + 1] \in [verb : Verbs, target : Targets]
      BY <3>2, PartsOfAStep, ElementOfSeq
    <3>4. Current' = Parts(step)[part + 1]
      BY <3>1 DEF Current
    <3>5. Parts(step)[part + 1].verb \in Verbs
      BY <3>3
    <3> QED BY <3>1, <3>4, <3>5, EntersItsPlace DEF PlaceInv
  <2>2. CASE ~(part < Len(Parts(step)))
    BY <1>1, <1>2, <2>2 DEF Continue
  <2> QED BY <2>1, <2>2
<1>3. ASSUME NEW visible \in BOOLEAN, Judge(visible) PROVE PlaceInv'
  BY <1>1, <1>2, <1>3 DEF Judge
<1> QED BY <1>1, <1>2, <1>3

LEMMA PlaceInitially == Init => PlaceInv
BY DEF Init, PlaceInv

\* A window shows something, if only an empty document.
LEMMA SomethingShows ==
    ASSUME WindowsOK
    PROVE  /\ Len(Showing) \in Nat \ {0}
           /\ \A f \in 1..Len(Showing) : Len(Showing[f]) \in Nat
<1>1. content \in Seq(Seq(Elements)) /\ content # <<>>
  BY BrowserAssumption DEF WindowsOK
<1>2. Len(content) \in Nat \ {0}
  BY <1>1, EmptySeq, LenProperties
<1>3. \A f \in 1..Len(content) : Len(content[f]) \in Nat
  <2>1. \A f \in 1..Len(content) : content[f] \in Seq(Elements)
    BY <1>1, ElementOfSeq
  <2> QED BY <2>1, LenProperties
<1> QED BY <1>2, <1>3 DEF Showing

LEMMA PlaceStep == ControlOK /\ WindowsOK /\ PlaceInv /\ [Next]_vars => PlaceInv'
<1> SUFFICES ASSUME ControlOK, WindowsOK, PlaceInv, [Next]_vars PROVE PlaceInv'
  OBVIOUS
<1>0. Current.verb \in Verbs /\ Current.target \in Targets
  BY CurrentPart
<1>1. ASSUME UNCHANGED <<step, part, pc, locator>> PROVE PlaceInv'
  BY <1>1 DEF PlaceInv, Current
<1>2. CASE Application \/ UNCHANGED vars \/ RunOver
  BY <1>1, <1>2 DEF Application, Render, OpenWindow, CloseWindow, stepVars, vars, RunOver
<1>3. ASSUME NEW s \in Steps, Begin(s) PROVE PlaceInv'
  <2>1. Parts(s)[1] \in [verb : Verbs, target : Targets]
    <3>1. 1 \in 1..Len(Parts(s))
      BY PartsOfAStep
    <3> QED BY <3>1, PartsOfAStep, ElementOfSeq
  <2>2. Current' = Parts(s)[1] /\ pc' = Enters(Parts(s)[1].verb)
    BY <1>3 DEF Begin, Current
  <2>3. Parts(s)[1].verb \in Verbs
    BY <2>1
  <2> QED BY <2>2, <2>3, EntersItsPlace DEF PlaceInv
<1>4. CASE Unresolved \/ KeepWaiting \/ GiveUp \/ Act \/ See \/ WaitSatisfied \/ LoadFails
           \/ Reached \/ NotReached \/ NoWindow \/ NothingEarlier \/ Closed \/ CloseFails
           \/ \E c \in Contents : Loaded(c) \/ Enter(c)
  <2>1. \/ Sleep /\ Current.verb = "wait"
        \/ Continue
        \/ \E status \in {"passed", "failed", "error"} : End(status)
        \/ \E visible \in BOOLEAN : Judge(visible)
    <3>1. CASE Unresolved \/ KeepWaiting \/ LoadFails \/ NotReached \/ NoWindow \/ NothingEarlier
               \/ WaitSatisfied
      BY <3>1 DEF Unresolved, KeepWaiting, LoadFails, Reached, NotReached, NoWindow, NothingEarlier, WaitSatisfied
    <3>2. CASE Act \/ See \/ Reached \/ Closed \/ CloseFails \/ \E c \in Contents : Loaded(c) \/ Enter(c)
      BY <3>2 DEF Act, See, Reached, Closed, CloseFails, Loaded, Enter
    <3>3. CASE GiveUp
      BY <3>3 DEF GiveUp
    <3> QED BY <1>4, <3>1, <3>2, <3>3
  <2>2. Sleep /\ Current.verb = "wait" => PlaceInv'
    BY DEF Sleep, PlaceInv, Places, Current
  <2> QED BY <2>1, <2>2, NextPartBegins
<1>5. CASE Resolved
  <2>1. locator' = ResolveNow /\ ResolveNow.kind = "locator" /\ pc = "resolving"
        /\ pc' = "acting" /\ step' = step /\ part' = part /\ Current' = Current
    BY <1>5 DEF Resolved, Current
  <2>2. ResolveNow.way \in WaysOf(Current.target)
    BY <1>0, <2>1, SomethingShows, ResolveGoesByAWay DEF ResolveNow
  <2>3. "resolving" \in Places(Current.verb) => "acting" \in Places(Current.verb)
    BY <1>0 DEF Places, Verbs
  <2> QED BY <2>1, <2>2, <2>3 DEF PlaceInv
<1>6. CASE Tick
  <2>1. UNCHANGED <<step, part, locator>> /\ Current' = Current
    BY <1>6 DEF Tick, Current
  <2>2. pc' = pc \/ (pc = "sleeping" /\ pc' = "resolving")
    BY <1>6 DEF Tick
  <2>3. "sleeping" \in Places(Current.verb) => "resolving" \in Places(Current.verb)
    BY <1>0 DEF Places, Verbs
  <2> QED BY <2>1, <2>2, <2>3 DEF PlaceInv
<1>7. CASE WindowFound \/ \E c \in Contents : GoBack(c)
  <2>1. /\ Current' = Current
        /\ \/ pc = "looking" /\ pc' = "entering"
           \/ pc = "leaving" /\ pc' = "closing"
    BY <1>7 DEF WindowFound, GoBack, Current
  <2>2. /\ "looking" \in Places(Current.verb) => "entering" \in Places(Current.verb)
        /\ "leaving" \in Places(Current.verb) => "closing" \in Places(Current.verb)
    BY <1>0 DEF Places, Verbs
  <2> QED BY <2>1, <2>2 DEF PlaceInv
<1> QED BY <1>2, <1>3, <1>4, <1>5, <1>6, <1>7 DEF Next, Session

\* While the page shows what resolve saw, and is open, the locator is what resolve would
\* return again.
SteadyInv ==
    pc = "acting" /\ steady /\ windows[page]
        => locator.kind = "locator" /\ locator = ResolveNow

LEMMA SteadyInitially == Init => SteadyInv
BY DEF Init, SteadyInv

LEMMA SteadyStep == ControlOK /\ WindowsOK /\ SteadyInv /\ [Next]_vars => SteadyInv'
<1> SUFFICES ASSUME ControlOK, WindowsOK, SteadyInv, [Next]_vars PROVE SteadyInv'
  OBVIOUS
<1>1. ASSUME pc' # "acting" \/ steady' = FALSE PROVE SteadyInv'
  BY <1>1 DEF SteadyInv
<1>2. ASSUME UNCHANGED <<step, part, locator, page, content>>,
             pc' = "acting" /\ steady' /\ windows'[page]
                => pc = "acting" /\ steady /\ windows[page]
      PROVE  SteadyInv'
  BY <1>2 DEF SteadyInv, ResolveNow, Showing, Current
<1>3. CASE Application \/ UNCHANGED vars \/ RunOver
  <2>1. CASE UNCHANGED vars \/ RunOver
    BY <1>2, <2>1 DEF RunOver, vars
  <2>2. ASSUME NEW c \in Contents, Render(c) PROVE SteadyInv'
    BY <1>1, <2>2 DEF Render
  <2>3. CASE OpenWindow
    <3>1. windows'[page] = windows[page]
      BY <2>3, AppendProperties DEF OpenWindow, WindowsOK
    <3> QED BY <1>2, <2>3, <3>1 DEF OpenWindow, stepVars
  <2>4. ASSUME NEW w \in 1..Len(windows), CloseWindow(w) PROVE SteadyInv'
    <3>1. windows \in [1..Len(windows) -> BOOLEAN]
      BY LenProperties DEF WindowsOK
    <3>2. windows'[page] => windows[page]
      BY <2>4, <3>1 DEF CloseWindow, WindowsOK
    <3> QED BY <1>2, <2>4, <3>2 DEF CloseWindow, stepVars
  <2> QED BY <1>3, <2>1, <2>2, <2>3, <2>4 DEF Application
<1>4. ASSUME NEW s \in Steps, Begin(s) PROVE SteadyInv'
  <2>1. Parts(s)[1] \in [verb : Verbs, target : Targets]
    <3>1. 1 \in 1..Len(Parts(s))
      BY PartsOfAStep
    <3> QED BY <3>1, PartsOfAStep, ElementOfSeq
  <2>2. pc' # "acting"
    BY <1>4, <2>1, EntersItsPlace DEF Begin
  <2> QED BY <1>1, <2>2
<1>5. CASE Unresolved \/ KeepWaiting \/ GiveUp \/ Act \/ See \/ WaitSatisfied \/ LoadFails
           \/ Reached \/ NotReached \/ NoWindow \/ NothingEarlier \/ Closed \/ CloseFails
           \/ \E c \in Contents : Loaded(c) \/ Enter(c)
  <2>1. pc # "ready"
    BY <1>5 DEF Unresolved, KeepWaiting, GiveUp, Act, See, WaitSatisfied, LoadFails, Reached, NotReached, NoWindow,
                NothingEarlier, Closed, CloseFails, Loaded, Enter
  <2>2. \/ Sleep
        \/ \E status \in {"passed", "failed", "error"} : End(status)
        \/ Continue
        \/ \E visible \in BOOLEAN : Judge(visible)
    <3>1. CASE Unresolved \/ KeepWaiting \/ LoadFails \/ NotReached \/ NoWindow \/ NothingEarlier
               \/ WaitSatisfied
      BY <3>1 DEF Unresolved, KeepWaiting, LoadFails, Reached, NotReached, NoWindow, NothingEarlier, WaitSatisfied
    <3>2. CASE Act \/ See \/ Reached \/ Closed \/ CloseFails \/ \E c \in Contents : Loaded(c) \/ Enter(c)
      BY <3>2 DEF Act, See, Reached, Closed, CloseFails, Loaded, Enter
    <3>3. CASE GiveUp
      BY <3>3 DEF GiveUp
    <3> QED BY <1>5, <3>1, <3>2, <3>3
  <2>3. steady' = FALSE
    BY <2>1, <2>2, PartEnds DEF Sleep, PartOver
  <2> QED BY <1>1, <2>3
<1>6. CASE Resolved
  <2>1. /\ locator' = ResolveNow /\ ResolveNow.kind = "locator"
        /\ UNCHANGED <<windows, page, content, step, part>>
    BY <1>6 DEF Resolved, windowVars
  <2>2. ResolveNow' = ResolveNow
    BY <2>1 DEF ResolveNow, Showing, Current
  <2> QED BY <2>1, <2>2 DEF SteadyInv
<1>7. CASE Tick
  BY <1>2, <1>7 DEF Tick, windowVars
<1>8. CASE WindowFound \/ \E c \in Contents : GoBack(c)
  BY <1>1, <1>8 DEF WindowFound, GoBack
<1> QED BY <1>3, <1>4, <1>5, <1>6, <1>7, <1>8 DEF Next, Session

StepsInv == IndInv /\ ControlOK /\ WindowsOK /\ PlaceInv /\ SteadyInv

LEMMA StepsInvHolds == Spec => []StepsInv
<1>1. Init => ControlOK /\ WindowsOK /\ PlaceInv /\ SteadyInv
  BY ControlInitially, WindowsInitially, PlaceInitially, SteadyInitially
<1>2. (ControlOK /\ WindowsOK /\ PlaceInv /\ SteadyInv) /\ [Next]_vars
         => (ControlOK /\ WindowsOK /\ PlaceInv /\ SteadyInv)'
  BY ControlStep, WindowsStep, PlaceStep, SteadyStep
<1>3. ControlOK /\ WindowsOK /\ PlaceInv /\ SteadyInv => StepsInv
  BY DEF StepsInv, IndInv, TypeOK, WindowsOK
<1> QED BY <1>1, <1>2, <1>3, PTL DEF Spec

\* What a locator can be used for is something that the target's own ways could find.
LEMMA UsableFits ==
    PlaceInv /\ pc = "acting" => Usable \subseteq Fitting(Showing, Current.target)
BY DEF PlaceInv, Usable, Found, Visible, Fitting, WaysOf

\* A step with one part is at that part.
LEMMA OnePart ==
    ASSUME ControlOK
    PROVE  /\ step.action = "visible" => Current.verb = "see"
           /\ step.action = "wait_for" => Current.verb = "wait"
           /\ step.action = "new_window" => Current.verb = "look"
<1>1. part \in 1..Len(Parts(step))
  BY DEF ControlOK
<1>2. ASSUME NEW v \in Verbs, Parts(step) = <<Do(v, step.target)>> PROVE Current.verb = v
  BY <1>1, <1>2 DEF Current, Do
<1>3. CASE step.action = "visible"
  <2>1. Parts(step) = <<Do("see", step.target)>>
    BY <1>3 DEF Parts, ElementActions
  <2> QED BY <1>2, <1>3, <2>1 DEF Verbs
<1>4. CASE step.action = "wait_for"
  <2>1. Parts(step) = <<Do("wait", step.target)>>
    BY <1>4 DEF Parts, ElementActions
  <2> QED BY <1>2, <1>4, <2>1 DEF Verbs
<1>5. CASE step.action = "new_window"
  <2>1. Parts(step) = <<Do("look", step.target)>>
    BY <1>5 DEF Parts, ElementActions
  <2> QED BY <1>2, <1>5, <2>1 DEF Verbs
<1> QED BY <1>3, <1>4, <1>5

-----------------------------------------------------------------------------
\* What a step's end says.

\* A part that is over without the step being over leaves the session in the step.
LEMMA EndingStatus ==
    ASSUME ControlOK, pc # "ready", Ends,
           \/ \E status \in {"passed", "failed", "error"} : End(status)
           \/ Continue
    PROVE  \/ \E status \in {"passed", "failed", "error"} : End(status) /\ report' = status
           \/ Continue /\ report' = "passed"
<1>1. ASSUME NEW status \in {"passed", "failed", "error"}, End(status) PROVE report' = status
  BY <1>1 DEF End
<1>2. ASSUME Continue PROVE report' = "passed"
  <2>1. CASE part < Len(Parts(step))
    <3>1. pc' = Enters(Parts(step)[part + 1].verb)
      BY <1>2, <2>1 DEF Continue
    <3>2. step \in Steps /\ part + 1 \in 1..Len(Parts(step))
      BY <2>1, PartsOfAStep DEF ControlOK
    <3>3. Parts(step)[part + 1] \in [verb : Verbs, target : Targets]
      BY <3>2, PartsOfAStep, ElementOfSeq
    <3>4. Parts(step)[part + 1].verb \in Verbs
      BY <3>3
    <3>5. pc' # "ready"
      BY <3>1, <3>4, EntersAfterPart
    <3> QED BY <3>5 DEF Ends
  <2>2. CASE ~(part < Len(Parts(step)))
    BY <1>1, <1>2, <2>2 DEF Continue
  <2> QED BY <2>1, <2>2
<1> QED BY <1>1, <1>2

SeenNow ==
    \/ Ends /\ report' = "passed" /\ step.action \in {"visible", "wait_for"}
    \/ signedIn' # signedIn /\ step.shows

\* A sign-in whose recipe names something to be seen ends in looking for it.
LEMMA LastPartSees ==
    ASSUME NEW s \in Steps, s.action = "authenticate", s.shows
    PROVE  Parts(s)[Len(Parts(s))] = Do("see", s.target)
<1> DEFINE P == [verb : Verbs, target : Targets]
           before == <<Do("load", s.target)>> \o [i \in 1..Len(Form) |-> Do("act", Form[i])]
<1>1. Parts(s) = before \o Confirm(s)
  BY DEF Parts, ElementActions
<1>2. /\ Confirm(s) \in Seq(P) /\ Len(Confirm(s)) \in Nat /\ Len(Confirm(s)) # 0
      /\ Confirm(s)[Len(Confirm(s))] = Do("see", s.target)
  BY ConfirmParts DEF P
<1>3. before \in Seq(P) /\ Len(before) \in Nat
  <2> DEFINE fields == [i \in 1..Len(Form) |-> Do("act", Form[i])]
             opening == <<Do("load", s.target)>>
  <2>1. Len(Form) \in Nat /\ \A i \in 1..Len(Form) : Form[i] \in Targets
    BY BrowserAssumption, ElementOfSeq, LenProperties
  <2>2. \A v \in Verbs, t \in Targets : Do(v, t) \in P
    BY DEF Do
  <2>3. fields \in [1..Len(Form) -> P]
    BY <2>1, <2>2 DEF Verbs
  <2>4. opening \in Seq(P)
    <3>1. Do("load", s.target) \in P
      BY <2>2, BrowserAssumption DEF Verbs
    <3> HIDE DEF P
    <3> QED BY <3>1
  <2>5. before = opening \o fields
    OBVIOUS
  <2> HIDE DEF fields, opening, before, P
  <2>6. fields \in Seq(P)
    BY <2>1, <2>3, SeqDef
  <2>7. before \in Seq(P)
    BY ONLY <2>4, <2>5, <2>6, ConcatProperties
  <2> QED BY <2>7, LenProperties
<1> HIDE DEF before, P
<1>4. /\ Len(Parts(s)) = Len(before) + Len(Confirm(s))
      /\ \A i \in 1..(Len(before) + Len(Confirm(s))) :
            Parts(s)[i] = IF i <= Len(before) THEN before[i] ELSE Confirm(s)[i - Len(before)]
  BY ONLY <1>1, <1>2, <1>3, ConcatProperties
<1>5. Parts(s)[Len(before) + Len(Confirm(s))]
        = Confirm(s)[Len(before) + Len(Confirm(s)) - Len(before)]
  BY <1>2, <1>3, <1>4
<1>6. Len(before) + Len(Confirm(s)) - Len(before) = Len(Confirm(s))
  BY <1>2, <1>3
<1> QED BY <1>2, <1>4, <1>5, <1>6

LEMMA SeenStep ==
    ASSUME StepsInv, [Next]_vars, SeenNow
    PROVE  Fitting(Showing, Current.target) # {}
<1>1. PlaceInv /\ ControlOK /\ Current.verb \in Verbs
  BY CurrentPart DEF StepsInv
<1>2. ASSUME See \/ WaitSatisfied PROVE Fitting(Showing, Current.target) # {}
  BY <1>1, <1>2, UsableFits DEF See, WaitSatisfied
<1>3. ASSUME signedIn' # signedIn, step.shows PROVE See
  <2>1. Act \/ See \/ Reached
    BY <1>3 DEF Next, Session, Application, Render, OpenWindow, CloseWindow, stepVars, vars,
       Begin, RunOver, Resolved, Unresolved, KeepWaiting, WaitSatisfied, GiveUp, Tick, LoadFails,
       NotReached, WindowFound, NoWindow, NothingEarlier, Closed, CloseFails, Loaded, Enter, GoBack
  <2>2. step.action = "authenticate" /\ part = Len(Parts(step)) /\ step \in Steps
    BY <1>1, <1>3, <2>1 DEF Act, See, Reached, Believe, ControlOK
  <2>3. Current = Do("see", step.target)
    BY <1>3, <2>2, LastPartSees DEF Current
  <2>4. ~Act
    BY <2>3 DEF Act, Do
  <2>5. ~Reached
    BY <1>1, <2>3 DEF Reached, PlaceInv, Places, Do
  <2> QED BY <2>1, <2>4, <2>5
<1>4. ASSUME Ends, report' = "passed", step.action \in {"visible", "wait_for"}
      PROVE  See \/ WaitSatisfied
  <2>1. Current.verb \in {"see", "wait"} /\ step.action # "not_visible" /\ pc # "ready"
    BY <1>1, <1>4, OnePart DEF Ends
  <2>2. pc \in {"resolving", "acting", "sleeping"} /\ pc' = "ready"
    BY <1>1, <1>4, <2>1 DEF PlaceInv, Places, Ends
  <2>3. CASE Unresolved \/ KeepWaiting \/ GiveUp
    <3>1. End("failed") \/ End("error") \/ Sleep
      BY <2>1, <2>3 DEF Unresolved, KeepWaiting, GiveUp, Judge
    <3> QED BY <1>4, <2>2, <3>1 DEF End, Sleep
  <2>4. ~Act /\ ~Resolved /\ ~Tick
    BY <2>1, <2>2 DEF Act, Resolved, Tick
  <2>5. /\ ~LoadFails /\ ~Reached /\ ~NotReached
        /\ ~WindowFound /\ ~NoWindow /\ ~NothingEarlier /\ ~Closed /\ ~CloseFails
        /\ ~RunOver /\ ~ \E s \in Steps : Begin(s)
        /\ ~ \E c \in Contents : Loaded(c) \/ Enter(c) \/ GoBack(c)
    BY <2>2 DEF LoadFails, Reached, NotReached, WindowFound, NoWindow, NothingEarlier, Closed, CloseFails, RunOver,
                Begin, Loaded, Enter, GoBack
  <2>6. ~Application /\ ~ UNCHANGED vars
    BY <2>1, <2>2 DEF Application, Render, OpenWindow, CloseWindow, stepVars, vars
  <2> QED BY <2>3, <2>4, <2>5, <2>6 DEF Next, Session
<1> QED BY <1>2, <1>3, <1>4 DEF SeenNow

\* Whatever the application renders, opens and closes between two awaits: an assertion that
\* something is visible, a wait for it, and a sign-in whose recipe names something to be seen
\* are believed only if something the words could mean is visible at that moment (browser.py:
\* visibility, wait_for, login).
THEOREM WhatIsSeenIsThere == Spec => SeenIsThere
<1>1. StepsInv /\ [Next]_vars => [SeenNow => Fitting(Showing, Current.target) # {}]_vars
  BY SeenStep
<1> QED BY <1>1, StepsInvHolds, PTL DEF SeenIsThere, SeenNow, Spec

WaitedInVain ==
    Ends /\ \/ step.action = "wait_for" /\ report' # "passed"
            \/ step.action = "new_window" /\ page' = page

LEMMA WaitStep == ASSUME StepsInv, [Next]_vars, WaitedInVain PROVE clock >= Deadline
<1>1. PlaceInv /\ ControlOK /\ Current.verb \in Verbs
  BY CurrentPart DEF StepsInv
<1>2. pc # "ready" /\ pc' = "ready"
  BY DEF WaitedInVain, Ends
<1>3. ~Application /\ ~ UNCHANGED vars /\ ~RunOver /\ ~ \E s \in Steps : Begin(s)
  BY <1>2 DEF Application, Render, OpenWindow, CloseWindow, stepVars, vars, RunOver, Begin
<1>4. CASE step.action = "wait_for" /\ report' # "passed"
  <2>1. Current.verb = "wait" /\ pc \in {"resolving", "acting", "sleeping"}
    BY <1>1, <1>2, <1>4, OnePart DEF PlaceInv, Places
  <2>2. CASE KeepWaiting \/ GiveUp
    BY <1>2, <2>1, <2>2 DEF KeepWaiting, GiveUp, Sleep
  <2>3. ~WaitSatisfied
    BY <1>4 DEF WaitSatisfied, End
  <2>4. ~Unresolved /\ ~Act /\ ~See /\ ~Resolved /\ ~Tick
    BY <1>2, <2>1 DEF Unresolved, Act, See, Resolved, Tick
  <2>5. /\ ~LoadFails /\ ~Reached /\ ~NotReached
        /\ ~WindowFound /\ ~NoWindow /\ ~NothingEarlier /\ ~Closed /\ ~CloseFails
        /\ ~ \E c \in Contents : Loaded(c) \/ Enter(c) \/ GoBack(c)
    BY <2>1 DEF LoadFails, Reached, NotReached, WindowFound, NoWindow, NothingEarlier, Closed, CloseFails,
                Loaded, Enter, GoBack
  <2> QED BY <1>3, <2>2, <2>3, <2>4, <2>5 DEF Next, Session
<1>5. CASE step.action = "new_window" /\ page' = page
  <2>1. Current.verb = "look" /\ pc \in {"looking", "entering"}
    BY <1>1, <1>2, <1>5, OnePart DEF PlaceInv, Places
  <2>2. CASE NoWindow
    BY <2>2 DEF NoWindow
  <2>3. ASSUME NEW c \in Contents, Enter(c) PROVE FALSE
    <3>1. page' = other /\ other \notin Range(Path)
      BY <2>3 DEF Enter, StepsInv, IndInv
    <3>2. stack \in Seq(1..Len(windows)) /\ page \in 1..Len(windows)
      BY DEF StepsInv, WindowsOK
    <3>3. Range(Append(stack, page)) = Range(stack) \cup {page}
      BY ONLY <3>2, PushShape
    <3>4. page \in Range(Path)
      BY <3>3 DEF Path
    <3> QED BY <1>5, <3>1, <3>4
  <2>4. /\ ~Resolved /\ ~Unresolved /\ ~KeepWaiting /\ ~Act /\ ~See /\ ~WaitSatisfied /\ ~GiveUp
        /\ ~Tick /\ ~WindowFound
    BY <1>2, <2>1 DEF Resolved, Unresolved, KeepWaiting, Act, See, WaitSatisfied, GiveUp, Tick,
                      WindowFound
  <2>5. /\ ~LoadFails /\ ~Reached /\ ~NotReached
        /\ ~NothingEarlier /\ ~Closed /\ ~CloseFails
        /\ ~ \E c \in Contents : Loaded(c) \/ GoBack(c)
    BY <2>1 DEF LoadFails, Reached, NotReached, NothingEarlier, Closed, CloseFails, Loaded, GoBack
  <2> QED BY <1>3, <2>2, <2>3, <2>4, <2>5 DEF Next, Session
<1> QED BY <1>4, <1>5 DEF WaitedInVain

\* A wait for an element, or for a window, that comes to nothing has lasted its time, however
\* often what it waited for came and went meanwhile (browser.py: wait_for, switch_to_new_window).
THEOREM EveryWaitIsSatOut == Spec => WaitsAreSatOut
<1>1. StepsInv /\ [Next]_vars => [WaitedInVain => clock >= Deadline]_vars
  BY WaitStep
<1> QED BY <1>1, StepsInvHolds, PTL DEF WaitsAreSatOut, WaitedInVain, Spec

\* What is acted on is what the phrase names, while the page shows what resolve saw.
LEMMA ActsOnNamed ==
    ASSUME StepsInv, Act, steady, Current.target.phrase, Current.target.index # LastOne
    PROVE  Usable \subseteq Named(Showing, Current.target)
<1>1. pc = "acting" /\ Current.target \in Targets
  BY CurrentPart DEF StepsInv, Act
<1>2. CASE windows[page]
  <2>1. locator.kind = "locator" /\ locator = Resolve(Showing, Current.target)
    BY <1>1, <1>2 DEF StepsInv, SteadyInv, ResolveNow
  <2>2. /\ Len(Showing) \in Nat \ {0}
        /\ \A f \in 1..Len(Showing) : Len(Showing[f]) \in Nat
    BY SomethingShows DEF StepsInv
  <2>3. ASSUME NEW x \in Usable PROVE x \in Named(Showing, Current.target)
    <3>1. x \in Found(Showing, Resolve(Showing, Current.target)) \cap Visible(Showing, 0..Ways)
      BY <2>1, <2>3 DEF Usable
    <3> QED BY <1>1, <2>1, <2>2, <3>1, ResolvedIsNamed
  <2> QED BY <2>3
<1>3. CASE ~windows[page]
  <2>1. Showing = <<<<>>>>
    BY <1>3 DEF Showing
  <2>2. Len(Showing) = 1 /\ Len(Showing[1]) = 0
    BY <2>1
  <2>3. Positions(Showing) = {}
    BY <2>2 DEF Positions
  <2> QED BY <2>3 DEF Usable, Found
<1> QED BY <1>2, <1>3

\* Whatever is rendered between resolve and the act, what is acted on is visible and one of
\* the ways of looking that the target has finds it; and if the page still is what resolve saw, it
\* is the element that the phrase names, by the counting of Named, "last" excepted
\* (resolver.py: resolve; browser.py: click, fill, select).
THEOREM ActsOnWhatIsNamed == Spec => ActsOnTheOneNamed
<1>1. StepsInv => (Act => /\ Usable \subseteq Fitting(Showing, Current.target)
                          /\ steady /\ Current.target.phrase /\ Current.target.index # LastOne
                                => Usable \subseteq Named(Showing, Current.target))
  BY UsableFits, ActsOnNamed DEF StepsInv, Act
<1> QED BY <1>1, StepsInvHolds, PTL DEF ActsOnTheOneNamed, Spec
=============================================================================
