---------------------------- MODULE SetupProofs -----------------------------
(***************************************************************************)
(* Theorems about Setup beside the assistant, for every number of forms    *)
(* and whatever they contain.                                              *)
(***************************************************************************)
EXTENDS SetupAssistant, TLAPS

Kinds == {"account", "public", "fill", "script"}
Wizard(s) == form[s].kind \in {"account", "script"}

\* A form has the three fields it is made of, also after KnowAccount.
Shaped(f) == f = [kind |-> f.kind, environment |-> f.environment, account |-> f.account]

\* The variables are functions over the forms, and a form's kind goes with where it is.
Typing ==
    /\ form = [s \in Submissions |-> form[s]]
    /\ name = [s \in Submissions |-> name[s]]
    /\ seen = [s \in Submissions |-> seen[s]]
    /\ at \in [Submissions -> Nat]
    /\ files = [file \in Names |-> files[file]]

PlaceFits(s) ==
    /\ Shaped(form[s])
    /\ pc[s] # "off" => form[s].kind \in Kinds
    /\ pc[s] \in {"choosing", "checking", "looking"} => Wizard(s)
    /\ pc[s] = "knowing" => form[s].kind = "fill"
    /\ pc[s] = "signing" => Wizard(s) \/ form[s].kind = "fill"
    /\ pc[s] \in {"off", "choosing", "checking", "looking", "knowing", "signing"} => at[s] = 1

TypeInv == TypeOK /\ Typing /\ \A s \in Submissions : PlaceFits(s)

-----------------------------------------------------------------------------

\* The files of each kind of form.
LEMMA OrderFacts ==
    /\ \A k \in {"account", "script"} :
        /\ Len(Order(k)) = 4
        /\ Order(k)[1] = "secrets" /\ Order(k)[2] = "environments"
        /\ Order(k)[3] = "identities" /\ Order(k)[4] = "allowed"
    /\ Len(Order("public")) = 2 /\ Order("public")[1] = "environments"
    /\ Order("public")[2] = "allowed"
    /\ Len(Order("fill")) = 1 /\ Order("fill")[1] = "secrets"
    /\ Len(Order("none")) = 0
BY DEF Order

LEMMA LenOfOrder ==
    ASSUME NEW k \in Kinds \cup {"none"}
    PROVE  /\ Len(Order(k)) \in Nat /\ (k # "none" => Len(Order(k)) >= 1)
           /\ \A n \in 1 .. Len(Order(k)) : Order(k)[n] \in Names
BY OrderFacts DEF Kinds, Names

LEMMA InitTyped == Init => TypeInv
<1> SUFFICES ASSUME Init PROVE TypeInv
  OBVIOUS
<1>1. Typing
  BY DEF Init, Typing, Names
<1>2. \A s \in Submissions : PlaceFits(s)
  BY DEF Init, PlaceFits, Shaped, NoForm
<1>3. TypeOK
  BY OrderFacts, SetupAssumption DEF SetupAssumption, Init, TypeOK, Positions, AtRest, Results,
                                     Statuses, NoForm, Names
<1> QED
  BY <1>1, <1>2, <1>3 DEF TypeInv

\* Nothing but one form's place, result and answer moves.
LEMMA GoingKeepsType ==
    ASSUME TypeInv, NEW s \in Submissions, pc[s] # "off",
           NEW w \in Positions, pc' = [pc EXCEPT ![s] = w],
           UNCHANGED <<form, name, at, seen, files, torn, rigid>>,
           result' = result \/ \E r \in Results : result' = [result EXCEPT ![s] = r],
           answer' \in [Submissions -> Statuses], status' \in Statuses,
           w \in {"choosing", "checking", "looking"} => Wizard(s) /\ at[s] = 1,
           w \notin {"knowing", "off"},
           w = "signing" => (Wizard(s) \/ form[s].kind = "fill") /\ at[s] = 1,
           w \in {"reading", "writing", "filling"} => at[s] <= Len(Order(form[s].kind))
    PROVE  TypeInv'
<1>1. TypeOK'
  BY DEF TypeInv, TypeOK
<1>2. Typing'
  BY DEF TypeInv, Typing
<1>3. ASSUME NEW t \in Submissions PROVE PlaceFits(t)'
  BY DEF TypeInv, TypeOK, PlaceFits, Wizard
<1> QED
  BY <1>1, <1>2, <1>3 DEF TypeInv

LEMMA FailKeepsType ==
    ASSUME TypeInv, NEW s \in Submissions, pc[s] # "off", Fail(s),
           UNCHANGED <<form, name, at, seen, answer, status, files, torn, rigid>>
    PROVE  TypeInv'
<1>1. answer' \in [Submissions -> Statuses] /\ status' \in Statuses
  BY DEF TypeInv, TypeOK
<1>2. "finishing" \in Positions /\ "failed" \in Results
  BY DEF Positions, Results
<1> QED
  BY <1>1, <1>2, GoingKeepsType DEF Fail, Goto

LEMMA NextKeepsType ==
    ASSUME TypeInv, NEW s \in Submissions, pc[s] \in {"reading", "filling"}, NextFile(s),
           seen' = [t \in Submissions |-> seen'[t]], files' = [file \in Names |-> files'[file]],
           UNCHANGED <<form, name, answer, status, torn, rigid>>
    PROVE  TypeInv'
<1>1. /\ at[s] \in Nat /\ at[s] <= Len(Order(form[s].kind)) /\ Len(Order(form[s].kind)) \in Nat
      /\ at[s] >= 1 /\ PlaceFits(s)
  BY LenOfOrder DEF TypeInv, TypeOK, Typing, PlaceFits
<1>2. /\ at' = [at EXCEPT ![s] = at[s] + 1]
      /\ \/ at[s] = Len(Order(form[s].kind)) /\ pc' = [pc EXCEPT ![s] = "finishing"]
            /\ result' = [result EXCEPT ![s] = "done"]
         \/ at[s] < Len(Order(form[s].kind)) /\ pc' = [pc EXCEPT ![s] = "reading"]
            /\ result' = result
  BY <1>1 DEF NextFile, Goto
<1>3. at' \in [Submissions -> Nat] /\ at'[s] = at[s] + 1
      /\ \A t \in Submissions \ {s} : at'[t] = at[t]
  BY <1>1, <1>2 DEF TypeInv, Typing
<1>4. pc' \in [Submissions -> Positions] /\ pc'[s] \in {"reading", "finishing"}
      /\ \A t \in Submissions \ {s} : pc'[t] = pc[t]
  BY <1>2 DEF TypeInv, TypeOK, Positions
<1>5. result' \in [Submissions -> Results]
  BY <1>2 DEF TypeInv, TypeOK, Results
<1>6. /\ \A t \in Submissions : at'[t] \in 1 .. Len(Order(form[t].kind)) + 1
      /\ \A t \in Submissions : pc'[t] \in {"reading", "writing", "filling"} =>
             at'[t] <= Len(Order(form[t].kind))
  <2>1. at'[s] \in 1 .. Len(Order(form[s].kind)) + 1
    BY <1>1, <1>3
  <2>2. pc'[s] \in {"reading", "writing", "filling"} => at'[s] <= Len(Order(form[s].kind))
    BY <1>1, <1>2, <1>3 DEF TypeInv, TypeOK
  <2> QED
    BY <2>1, <2>2, <1>3, <1>4 DEF TypeInv, TypeOK
<1>7. TypeOK'
  BY <1>4, <1>5, <1>6 DEF TypeInv, TypeOK
<1>8. Typing'
  BY <1>3 DEF TypeInv, Typing
<1>9. ASSUME NEW t \in Submissions PROVE PlaceFits(t)'
  BY <1>3, <1>4 DEF TypeInv, PlaceFits, Wizard
<1> QED
  BY <1>7, <1>8, <1>9 DEF TypeInv

LEMMA HandleKeepsType ==
    ASSUME TypeInv, NEW s \in Submissions, Handle(s)
    PROVE  TypeInv'
<1> USE DEF From, Goto
<1>0. /\ answer \in [Submissions -> Statuses] /\ status \in Statuses
      /\ result \in [Submissions -> Results] /\ pc \in [Submissions -> Positions]
  BY DEF TypeInv, TypeOK
<1>a. /\ PlaceFits(s)
      /\ form[s].kind \in Kinds \cup {"none"}
      /\ at[s] \in Nat /\ at[s] \in 1 .. Len(Order(form[s].kind)) + 1
      /\ pc[s] \in {"reading", "writing", "filling"} => at[s] <= Len(Order(form[s].kind))
  BY DEF TypeInv, TypeOK, Typing, Kinds
<1>b. form[s].kind # "none" => Len(Order(form[s].kind)) >= 1
  BY <1>a, LenOfOrder
<1>c. {"choosing", "checking", "looking", "knowing", "signing", "reading", "writing", "filling",
       "finishing", "answering", "answered"} \subseteq Positions
  BY DEF Positions, AtRest
<1>1. CASE Incomplete(s)
  BY <1>1, FailKeepsType DEF Incomplete
<1>2. CASE ChooseName(s)
  <2>1. TypeOK'
    BY <1>2, <1>c DEF TypeInv, TypeOK, ChooseName
  <2>2. Typing'
    BY <1>2 DEF TypeInv, Typing, ChooseName
  <2>3. ASSUME NEW t \in Submissions PROVE PlaceFits(t)'
    BY <1>2, <1>0 DEF TypeInv, PlaceFits, ChooseName, Wizard
  <2> QED
    BY <2>1, <2>2, <2>3 DEF TypeInv
<1>3. CASE CheckEnvironment(s)
  <2>1. CASE Fail(s)
    BY <1>3, <2>1, FailKeepsType DEF CheckEnvironment
  <2>2. CASE pc' = [pc EXCEPT ![s] = "looking"] /\ UNCHANGED result
    BY <1>3, <2>2, <1>0, <1>a, <1>c, GoingKeepsType DEF CheckEnvironment, PlaceFits
  <2> QED
    BY <1>3, <2>1, <2>2 DEF CheckEnvironment
<1>4. CASE CheckName(s)
  <2>1. CASE Fail(s)
    BY <1>4, <2>1, FailKeepsType DEF CheckName
  <2>2. CASE pc' = [pc EXCEPT ![s] = "signing"] /\ UNCHANGED result
    BY <1>4, <2>2, <1>0, <1>a, <1>c, GoingKeepsType DEF CheckName, PlaceFits
  <2> QED
    BY <1>4, <2>1, <2>2 DEF CheckName
<1>5. CASE KnowAccount(s)
  <2>1. CASE Fail(s) /\ UNCHANGED <<form, name>>
    BY <1>5, <2>1, FailKeepsType DEF KnowAccount
  <2>2. ASSUME NEW i, name' = [name EXCEPT ![s] = i.name], pc' = [pc EXCEPT ![s] = "signing"],
               form' = [form EXCEPT ![s].environment = i.environment], UNCHANGED result
        PROVE  TypeInv'
    <3>1. /\ form'[s] = [form[s] EXCEPT !.environment = i.environment]
          /\ \A t \in Submissions \ {s} : form'[t] = form[t]
          /\ form' = [t \in Submissions |-> form'[t]]
      BY <2>2 DEF TypeInv, Typing
    <3>2. Shaped(form'[s]) /\ form'[s].kind = form[s].kind
      BY <3>1, <1>a DEF PlaceFits, Shaped
    <3>3. form[s].kind = "fill" /\ at[s] = 1
      BY <1>5, <1>a DEF KnowAccount, PlaceFits
    <3>4. TypeOK'
      BY <1>5, <1>c, <2>2, <3>1, <3>2 DEF TypeInv, TypeOK, KnowAccount
    <3>5. Typing'
      BY <1>5, <2>2, <3>1 DEF TypeInv, Typing, KnowAccount
    <3>6. ASSUME NEW t \in Submissions PROVE PlaceFits(t)'
      BY <1>5, <1>0, <2>2, <3>1, <3>2, <3>3 DEF TypeInv, PlaceFits, KnowAccount, Wizard, Kinds
    <3> QED
      BY <3>4, <3>5, <3>6 DEF TypeInv
  <2> QED
    BY <1>5, <2>1, <2>2 DEF KnowAccount
<1>6. CASE SignIn(s) \/ VerifyLogin(s)
  <2>1. CASE Fail(s)
    BY <1>6, <2>1, FailKeepsType DEF SignIn, VerifyLogin
  <2>2. CASE pc' = [pc EXCEPT ![s] = "reading"] /\ UNCHANGED result
    <3>1. at[s] = 1 /\ form[s].kind # "none"
      BY <1>6, <1>a DEF SignIn, VerifyLogin, PlaceFits, Kinds
    <3> QED
      BY <1>6, <2>2, <3>1, <1>0, <1>b, <1>c, GoingKeepsType DEF SignIn, VerifyLogin
  <2> QED
    BY <1>6, <2>1, <2>2 DEF SignIn, VerifyLogin
<1>7. CASE Raise(s)
  <2>1. answer' \in [Submissions -> Statuses]
    BY <1>7, <1>0 DEF Raise, Statuses
  <2> QED
    BY <1>7, <2>1, <1>0, <1>c, GoingKeepsType DEF Raise, Results
<1>8. CASE Read(s)
  <2>1. CASE Fail(s) /\ UNCHANGED <<at, seen>>
    BY <1>8, <2>1, FailKeepsType DEF Read
  <2>2. CASE NextFile(s) /\ UNCHANGED seen
    BY <1>8, <2>2, NextKeepsType DEF Read, TypeInv, Typing
  <2>3. CASE pc' = [pc EXCEPT ![s] = "writing"] /\ UNCHANGED <<at, result>>
             /\ seen' = [seen EXCEPT ![s] = files[File(s)]]
    <3>1. TypeOK'
      BY <1>8, <2>3, <1>c DEF TypeInv, TypeOK, Read
    <3>2. Typing'
      BY <1>8, <2>3 DEF TypeInv, Typing, Read
    <3>3. ASSUME NEW t \in Submissions PROVE PlaceFits(t)'
      BY <1>8, <2>3, <1>0 DEF TypeInv, PlaceFits, Read, Wizard
    <3> QED
      BY <3>1, <3>2, <3>3 DEF TypeInv
  <2> QED
    BY <1>8, <2>1, <2>2, <2>3 DEF Read
<1>9. CASE Open(s)
  <2>1. TypeOK'
    BY <1>9, <1>c DEF TypeInv, TypeOK, Open
  <2>2. Typing'
    BY <1>9 DEF TypeInv, Typing, Open
  <2>3. ASSUME NEW t \in Submissions PROVE PlaceFits(t)'
    BY <1>9, <1>0 DEF TypeInv, PlaceFits, Open, Wizard
  <2> QED
    BY <2>1, <2>2, <2>3 DEF TypeInv
<1>10. CASE Fill(s)
  <2>1. seen' = [t \in Submissions |-> seen'[t]] /\ files' = [file \in Names |-> files'[file]]
    BY <1>10 DEF Fill, TypeInv, Typing
  <2> QED
    BY <1>10, <2>1, NextKeepsType DEF Fill
<1>11. CASE Finish(s)
  <2>1. status' \in Statuses
    BY <1>11, <1>0 DEF Finish, Statuses, Results
  <2> QED
    BY <1>11, <2>1, <1>0, <1>c, GoingKeepsType DEF Finish
<1>12. CASE Answer(s) \/ Exit(s)
  <2>1. answer' \in [Submissions -> Statuses]
    BY <1>12, <1>0 DEF Answer, Exit, Statuses, Results
  <2> QED
    BY <1>12, <2>1, <1>0, <1>c, GoingKeepsType DEF Answer, Exit
<1> QED
  BY <1>1, <1>2, <1>3, <1>4, <1>5, <1>6, <1>7, <1>8, <1>9, <1>10, <1>11, <1>12 DEF Handle

LEMMA SubmitKeepsType ==
    ASSUME TypeInv, NEW s \in Submissions, NEW f \in Forms, Submit(s, f) \/ RunScript(s, f)
    PROVE  TypeInv'
<1>1. Shaped(f) /\ f.kind \in Kinds
  BY SetupAssumption DEF SetupAssumption, Shaped, Kinds
<1>2. /\ pc' \in [Submissions -> Positions] /\ form' = [form EXCEPT ![s] = f]
      /\ \A t \in Submissions \ {s} : pc'[t] = pc[t] /\ form'[t] = form[t]
      /\ form'[s] = f /\ pc[s] = "off"
      /\ UNCHANGED <<name, at, seen, result, answer, files, torn, rigid>>
  BY ZenonT(60) DEF Submit, RunScript, IsNext, From, Goto, TypeInv, TypeOK, Typing, Positions
<1>3. status' \in Statuses
  BY DEF Submit, RunScript, Statuses
<1>4. \/ f.kind \in {"account", "script"} /\ pc'[s] = "choosing"
      \/ f.kind = "fill" /\ pc'[s] = "knowing"
      \/ f.kind = "public" /\ pc'[s] = "reading"
  <2>0. pc \in [Submissions -> Positions]
    BY DEF TypeInv, TypeOK
  <2>1. CASE RunScript(s, f)
    BY <2>0, <2>1 DEF RunScript, Goto
  <2>2. CASE Submit(s, f)
    BY <2>0, <2>2, <1>1 DEF Submit, Goto, Kinds
  <2> QED
    BY <2>1, <2>2
<1>5. at[s] = 1 /\ Len(Order(f.kind)) \in Nat /\ Len(Order(f.kind)) >= 1
  BY <1>1, <1>2, LenOfOrder DEF TypeInv, PlaceFits, Kinds
<1>6. TypeOK'
  BY <1>1, <1>2, <1>3, <1>4, <1>5 DEF TypeInv, TypeOK, Kinds
<1>7. Typing'
  BY <1>2 DEF TypeInv, Typing
<1>8. ASSUME NEW t \in Submissions PROVE PlaceFits(t)'
  BY <1>1, <1>2, <1>4, <1>5 DEF TypeInv, PlaceFits, Wizard
<1> QED
  BY <1>6, <1>7, <1>8 DEF TypeInv

LEMMA StopKeepsType ==
    ASSUME TypeInv, ServerStops
    PROVE  TypeInv'
<1>1. TypeOK'
  BY DEF TypeInv, TypeOK, ServerStops, Positions, AtRest, Statuses, Names
<1>2. Typing'
  BY DEF TypeInv, Typing, ServerStops
<1>3. ASSUME NEW t \in Submissions PROVE PlaceFits(t)'
  BY DEF TypeInv, PlaceFits, ServerStops, Wizard, Busy, AtRest
<1> QED
  BY <1>1, <1>2, <1>3 DEF TypeInv

LEMMA StepKeepsType == TypeInv /\ [Next]_vars => TypeInv'
<1> SUFFICES ASSUME TypeInv, [Next]_vars PROVE TypeInv'
  OBVIOUS
<1>1. CASE UNCHANGED vars
  BY <1>1 DEF vars, threadVars, TypeInv, TypeOK, Typing, PlaceFits, Wizard
<1>2. CASE Next
  BY <1>2, HandleKeepsType, SubmitKeepsType, StopKeepsType DEF Next
<1> QED
  BY <1>1, <1>2

-----------------------------------------------------------------------------
(***************************************************************************)
(* Forms that are sent one after the other.                                *)
(***************************************************************************)

Filling(file) == {s \in Submissions : From(s, "filling") /\ File(s) = file}

\* What a file holds, or will hold again once it is filled.
Held(file) == files[file] \cup UNION {seen[s] : s \in Filling(file)}

AllowsAll == files["allowed"] = {} /\ Filling("allowed") = {}

Alone == \A s, t \in Submissions : Busy(s) /\ Busy(t) => s = t

\* The k-th entry of a form is in its file, unless the write of the file was cut short.
EntryHeld(s, k) ==
    LET file == Order(form[s].kind)[k] IN
    s \notin torn[file] => \/ Entry(s, file) \in Held(file)
                           \/ file = "allowed" /\ (AllowsAll \/ "allowed" \in rigid)

\* What a wizard found to be free still is, until it is written; what a writer read is current,
\* and the file it has opened is empty; what was refused has written nothing.
FormFits(s) ==
    /\ Wizard(s) /\ pc[s] \in {"looking", "signing", "reading", "writing", "filling"}
           /\ at[s] <= 2 => Place(form[s].environment) \notin files["environments"]
    /\ Wizard(s) /\ pc[s] \in {"signing", "reading", "writing", "filling"} /\ at[s] <= 3 =>
           \A i \in files["identities"] : i.name # name[s]
    /\ pc[s] = "writing" => /\ seen[s] = files[File(s)]
                            /\ File(s) = "allowed" => seen[s] # {}
    /\ pc[s] = "filling" => files[File(s)] = {}
    /\ pc[s] \notin {"finishing", "answering", "answered", "dead"} => result[s] = "none"
    /\ result[s] = "failed" => at[s] = 1 \/ File(s) \in rigid
    /\ \A k \in 1 .. at[s] - 1 : EntryHeld(s, k)

\* An account that was not configured by hand has its secrets and its environment.
AccountsHeld ==
    \A i \in Held("identities") \ Given :
        /\ torn["secrets"] = {} => i \in Held("secrets")
        /\ torn["environments"] = {} => Place(i.environment) \in Held("environments")

OrderInv == TypeInv /\ Alone /\ AccountsHeld /\ \A s \in Submissions : FormFits(s)

-----------------------------------------------------------------------------

LEMMA HeldMember ==
    ASSUME NEW file, NEW i
    PROVE  i \in Held(file) <=> \/ i \in files[file]
                                \/ \E s \in Submissions : /\ pc[s] = "filling" /\ File(s) = file
                                                          /\ i \in seen[s]
BY DEF Held, Filling, From

\* What a handler leaves alone: the other forms, and everything that a form has begun to write.
LEMMA HandleFacts ==
    ASSUME TypeInv, NEW s \in Submissions, Handle(s)
    PROVE  /\ Busy(s) /\ pc[s] # "off" /\ torn' = torn /\ rigid' = rigid
           /\ \A t \in Submissions \ {s} :
                 /\ pc'[t] = pc[t] /\ form'[t] = form[t] /\ name'[t] = name[t]
                 /\ at'[t] = at[t] /\ seen'[t] = seen[t] /\ result'[t] = result[t]
           /\ at[s] > 1 => form'[s] = form[s] /\ name'[s] = name[s]
           /\ form'[s].kind = form[s].kind
           /\ \/ Open(s) \/ Fill(s)
              \/ files' = files /\ pc[s] # "filling" /\ pc'[s] # "filling"
<1>1. TypeInv'
  BY HandleKeepsType
<1>2. ASSUME NEW u \in {"choosing", "knowing"}, pc[s] = u PROVE at[s] = 1
  BY <1>2 DEF TypeInv, PlaceFits
<1>3. CASE Incomplete(s) \/ CheckEnvironment(s) \/ CheckName(s) \/ SignIn(s) \/ VerifyLogin(s)
           \/ Raise(s) \/ Finish(s) \/ Answer(s) \/ Exit(s)
  BY <1>3 DEF Incomplete, CheckEnvironment, CheckName, SignIn, VerifyLogin, Raise, Finish, Answer,
              Exit, Fail, Goto, From, Busy, AtRest, TypeInv, TypeOK
<1>4. CASE ChooseName(s)
  BY <1>4, <1>2 DEF ChooseName, Goto, From, Busy, AtRest, TypeInv, TypeOK, Typing
<1>5. CASE KnowAccount(s)
  <2>1. /\ Busy(s) /\ pc[s] # "off" /\ torn' = torn /\ rigid' = rigid /\ at[s] = 1 /\ files' = files
        /\ pc[s] # "filling" /\ pc'[s] # "filling" /\ UNCHANGED <<at, seen>>
        /\ \A t \in Submissions \ {s} : pc'[t] = pc[t] /\ result'[t] = result[t]
    BY <1>5, <1>2 DEF KnowAccount, Fail, Goto, From, Busy, AtRest, TypeInv, TypeOK
  <2>2. /\ \A t \in Submissions \ {s} : form'[t] = form[t] /\ name'[t] = name[t]
    BY <1>5 DEF KnowAccount, TypeInv, Typing
  <2>3. form'[s].kind = "fill" /\ form[s].kind = "fill"
    <3>1. pc[s] = "knowing" /\ form[s].kind = "fill" /\ Shaped(form[s])
      BY <1>5 DEF KnowAccount, From, TypeInv, PlaceFits
    <3>2. CASE form' = form
      BY <3>1, <3>2
    <3>3. CASE \E i \in files.identities : form' = [form EXCEPT ![s].environment = i.environment]
      BY <3>1, <3>3 DEF TypeInv, Typing, Shaped
    <3> QED
      BY <1>5, <3>1, <3>2, <3>3 DEF KnowAccount
  <2> QED
    BY <2>1, <2>2, <2>3
<1>6. CASE Read(s)
  <2>1. /\ pc[s] = "reading" /\ torn' = torn /\ rigid' = rigid /\ files' = files /\ UNCHANGED <<form, name>>
        /\ \E w \in {"finishing", "reading", "writing"} : pc' = [pc EXCEPT ![s] = w]
        /\ at' = at \/ at' = [at EXCEPT ![s] = @ + 1]
        /\ seen' = seen \/ seen' = [seen EXCEPT ![s] = files[File(s)]]
        /\ result' = result \/ \E r : result' = [result EXCEPT ![s] = r]
    BY <1>6 DEF Read, NextFile, Fail, Goto, From
  <2> QED
    BY <2>1 DEF Busy, AtRest, TypeInv, TypeOK, Typing
<1>7. CASE Open(s)
  BY <1>7 DEF Open, Goto, From, Busy, AtRest, TypeInv, TypeOK
<1>8. CASE Fill(s)
  <2>1. /\ pc[s] = "filling" /\ torn' = torn /\ rigid' = rigid /\ UNCHANGED <<form, name>>
        /\ \E w \in {"finishing", "reading"} : pc' = [pc EXCEPT ![s] = w]
        /\ at' = [at EXCEPT ![s] = @ + 1] /\ seen' = [seen EXCEPT ![s] = {}]
        /\ result' = result \/ \E r : result' = [result EXCEPT ![s] = r]
    BY <1>8 DEF Fill, NextFile, Goto, From
  <2> QED
    BY <1>8, <2>1 DEF Busy, AtRest, TypeInv, TypeOK, Typing
<1> QED
  BY <1>3, <1>4, <1>5, <1>6, <1>7, <1>8 DEF Handle

\* Only one form is being handled, so nobody but it has a file open.
LEMMA OnlyOne ==
    ASSUME Alone, NEW s \in Submissions, Busy(s), NEW t \in Submissions, t # s
    PROVE  pc[t] \in AtRest /\ pc[t] \notin {"looking", "signing", "reading", "writing", "filling"}
BY DEF Alone, Busy, AtRest

LEMMA FileFacts ==
    ASSUME TypeInv, NEW s \in Submissions, pc[s] \in {"reading", "writing", "filling"}
    PROVE  /\ File(s) \in Names /\ at[s] \in 1 .. Len(Order(form[s].kind))
           /\ File(s) = Order(form[s].kind)[at[s]]
           /\ files = [file \in Names |-> files[file]]
           /\ form[s].kind \in Kinds /\ Len(Order(form[s].kind)) \in Nat
<1>1. form[s].kind \in Kinds /\ at[s] \in 1 .. Len(Order(form[s].kind))
  BY LenOfOrder DEF TypeInv, TypeOK, PlaceFits, Typing, Kinds
<1> QED
  BY <1>1, LenOfOrder DEF File, TypeInv, Typing

\* Nothing is lost of a file whose write is not cut short.
LEMMA HandleKeepsHeld ==
    ASSUME OrderInv, NEW s \in Submissions, Handle(s), NEW file \in Names, NEW i \in Held(file)
    PROVE  i \in Held(file)'
<1>1. \/ i \in files[file]
      \/ \E t \in Submissions : pc[t] = "filling" /\ File(t) = file /\ i \in seen[t]
  BY HeldMember
<1>2. SUFFICES \/ i \in files'[file]
               \/ \E t \in Submissions : pc'[t] = "filling" /\ File(t)' = file /\ i \in seen'[t]
  BY <1>2 DEF Held, Filling, From
<1>3. TypeInv /\ FormFits(s) /\ Busy(s)
  BY HandleFacts DEF OrderInv
<1>4. \A t \in Submissions \ {s} : pc[t] # "filling"
  BY <1>3, OnlyOne DEF OrderInv
<1>5. CASE files' = files /\ pc[s] # "filling" /\ pc'[s] # "filling"
  BY <1>1, <1>4, <1>5
<1>6. CASE Open(s)
  <2>1. /\ pc[s] = "writing" /\ files' = [files EXCEPT ![File(s)] = {}]
        /\ pc'[s] = "filling" /\ seen' = seen /\ File(s)' = File(s)
    BY <1>3, <1>6 DEF Open, Goto, From, TypeInv, TypeOK, File
  <2>2. i \in files[file]
    BY <1>1, <1>4, <2>1
  <2>3. files = [f \in Names |-> files[f]] /\ seen[s] = files[File(s)]
    BY <2>1, <1>3 DEF TypeInv, Typing, FormFits
  <2> QED
    BY <2>1, <2>2, <2>3
<1>7. CASE Fill(s)
  <2>1. /\ pc[s] = "filling" /\ files[File(s)] = {}
        /\ files' = [files EXCEPT ![File(s)] = seen[s] \cup {Entry(s, File(s))}]
    BY <1>3, <1>7 DEF Fill, From, FormFits
  <2>2. files = [f \in Names |-> files[f]]
    BY <1>3 DEF TypeInv, Typing
  <2> QED
    BY <1>1, <1>4, <2>1, <2>2
<1> QED
  BY <1>5, <1>6, <1>7, <1>3, HandleFacts

LEMMA HandleKeepsAll ==
    ASSUME OrderInv, NEW s \in Submissions, Handle(s), AllowsAll
    PROVE  AllowsAll'
<1>1. TypeInv /\ FormFits(s) /\ Busy(s)
  BY HandleFacts DEF OrderInv
<1>2. /\ files["allowed"] = {}
      /\ \A t \in Submissions : pc[t] = "filling" => File(t) # "allowed"
  BY DEF AllowsAll, Filling, From
<1>3. SUFFICES /\ files'["allowed"] = {}
               /\ \A t \in Submissions : pc'[t] = "filling" => File(t)' # "allowed"
  BY <1>3 DEF AllowsAll, Filling, From
<1>4. /\ \A t \in Submissions \ {s} : pc'[t] = pc[t] /\ pc[t] # "filling"
  BY <1>1, OnlyOne, HandleFacts DEF OrderInv
<1>5. CASE files' = files /\ pc'[s] # "filling"
  BY <1>2, <1>4, <1>5
<1>6. CASE Open(s)
  <2>1. /\ pc[s] = "writing" /\ files' = [files EXCEPT ![File(s)] = {}] /\ File(s)' = File(s)
    BY <1>6 DEF Open, From, File
  <2>2. /\ files = [f \in Names |-> files[f]] /\ File(s) # "allowed"
    BY <2>1, <1>1, <1>2 DEF TypeInv, Typing, FormFits
  <2> QED
    BY <1>2, <1>4, <2>1, <2>2
<1>7. CASE Fill(s)
  <2>1. /\ pc[s] = "filling" /\ pc'[s] # "filling"
        /\ files' = [files EXCEPT ![File(s)] = seen[s] \cup {Entry(s, File(s))}]
    BY <1>1, <1>7 DEF Fill, From, NextFile, Goto, TypeInv, TypeOK
  <2>2. files = [f \in Names |-> files[f]]
    BY <1>1 DEF TypeInv, Typing
  <2> QED
    BY <1>2, <1>4, <2>1, <2>2
<1> QED
  BY <1>1, <1>5, <1>6, <1>7, HandleFacts

LEMMA HandleKeepsEntry ==
    ASSUME OrderInv, NEW s \in Submissions, Handle(s),
           NEW t \in Submissions, NEW k \in 1 .. at[t] - 1
    PROVE  EntryHeld(t, k)'
<1>1. TypeInv /\ EntryHeld(t, k) /\ at[t] \in Nat /\ at[t] > 1
      /\ at[t] <= Len(Order(form[t].kind)) + 1 /\ form[t].kind \in Kinds \cup {"none"}
  <2>1. TypeInv /\ FormFits(t)
    BY DEF OrderInv
  <2>2. at[t] \in Nat /\ form[t].kind \in Kinds \cup {"none"}
        /\ at[t] \in 1 .. Len(Order(form[t].kind)) + 1
    BY <2>1 DEF TypeInv, TypeOK, Typing, Kinds
  <2>3. EntryHeld(t, k)
    BY <2>1 DEF FormFits
  <2> QED
    BY <2>1, <2>2, <2>3, LenOfOrder
<1>2. form'[t] = form[t] /\ name'[t] = name[t] /\ torn' = torn /\ rigid' = rigid
  BY <1>1, HandleFacts
<1> DEFINE file == Order(form[t].kind)[k]
<1>3. file \in Names
  BY <1>1, LenOfOrder
<1>4. Entry(t, file)' = Entry(t, file) /\ file' = file
  BY <1>2 DEF Entry, Place
<1> QED
  BY <1>1, <1>2, <1>3, <1>4, HandleKeepsHeld, HandleKeepsAll DEF EntryHeld

-----------------------------------------------------------------------------

\* The other forms are at rest, and keep their entries.
LEMMA OthersFit ==
    ASSUME OrderInv, NEW s \in Submissions, Handle(s), NEW t \in Submissions, t # s
    PROVE  FormFits(t)'
<1>1. TypeInv /\ FormFits(t)
  BY DEF OrderInv
<1>2. /\ pc'[t] = pc[t] /\ form'[t] = form[t] /\ name'[t] = name[t]
      /\ at'[t] = at[t] /\ result'[t] = result[t] /\ rigid' = rigid
      /\ pc[t] \notin {"looking", "signing", "reading", "writing", "filling"}
  BY <1>1, HandleFacts, OnlyOne DEF OrderInv
<1>3. \A k \in 1 .. at'[t] - 1 : EntryHeld(t, k)'
  BY <1>2, HandleKeepsEntry
<1> QED
  BY <1>1, <1>2, <1>3 DEF FormFits, File

\* A form that moves without touching a file.
LEMMA MovedFits ==
    ASSUME OrderInv, NEW s \in Submissions, Handle(s), at'[s] = at[s],
           NEW w, pc'[s] = w, w \in {"finishing", "answering", "answered"},
           result'[s] = "failed" => at[s] = 1 \/ (File(s) \in rigid /\ form' = form)
    PROVE  FormFits(s)'
<1>1. \A k \in 1 .. at'[s] - 1 : EntryHeld(s, k)'
  BY HandleKeepsEntry
<1>2. rigid' = rigid
  BY HandleFacts DEF OrderInv
<1> QED
  BY <1>1, <1>2 DEF FormFits, File

\* The next file is begun, or there is none, with one entry more.
LEMMA NextFits ==
    ASSUME OrderInv, NEW s \in Submissions, Handle(s), NextFile(s), UNCHANGED <<form, name>>,
           pc[s] \in {"reading", "filling"}, NEW n, n = at[s], EntryHeld(s, n)',
           Wizard(s) /\ at[s] # 2 => files'["environments"] = files["environments"],
           Wizard(s) /\ at[s] # 3 => files'["identities"] = files["identities"]
    PROVE  FormFits(s)'
<1>1. /\ TypeInv /\ FormFits(s) /\ at[s] \in Nat /\ at'[s] = at[s] + 1
      /\ pc'[s] \in {"reading", "finishing"} /\ result[s] = "none"
      /\ pc'[s] = "reading" => result'[s] = "none"
      /\ result'[s] # "failed"
  <2>1. TypeInv /\ FormFits(s)
    BY DEF OrderInv
  <2>2. /\ at \in [Submissions -> Nat] /\ pc \in [Submissions -> Positions]
        /\ result \in [Submissions -> Results]
    BY <2>1 DEF TypeInv, TypeOK, Typing
  <2>3. result[s] = "none"
    BY <2>1 DEF FormFits
  <2> QED
    BY <2>1, <2>2, <2>3 DEF NextFile, Goto
<1>2. \A k \in 1 .. at'[s] - 1 : EntryHeld(s, k)'
  <2>1. ASSUME NEW k \in 1 .. at'[s] - 1 PROVE EntryHeld(s, k)'
    <3>1. CASE k \in 1 .. at[s] - 1
      BY <3>1, HandleKeepsEntry
    <3>2. CASE k = at[s]
      <4>1. k = n
        BY <3>2
      <4> QED
        BY <4>1
    <3> QED
      BY <1>1, <3>1, <3>2
  <2> QED
    BY <2>1
<1>3. form'[s] = form[s] /\ name'[s] = name[s]
  OBVIOUS
<1> QED
  BY <1>1, <1>2, <1>3 DEF FormFits, Wizard

LEMMA HandlerFits ==
    ASSUME OrderInv, NEW s \in Submissions, Handle(s)
    PROVE  FormFits(s)'
<1> USE DEF From, Goto
<1>1. /\ TypeInv /\ FormFits(s) /\ PlaceFits(s) /\ Busy(s) /\ Alone
      /\ form[s].kind \in Kinds
  BY HandleFacts DEF OrderInv, TypeInv, PlaceFits
<1>2. /\ at \in [Submissions -> Nat] /\ pc \in [Submissions -> Positions]
      /\ result \in [Submissions -> Results] /\ files = [file \in Names |-> files[file]]
      /\ seen = [t \in Submissions |-> seen[t]]
  BY <1>1 DEF TypeInv, TypeOK, Typing
<1>3. ASSUME at'[s] = at[s] PROVE \A k \in 1 .. at'[s] - 1 : EntryHeld(s, k)'
  BY <1>3, HandleKeepsEntry
<1>4. ASSUME Fail(s), at' = at, at[s] = 1 PROVE FormFits(s)'
  BY <1>4, <1>2, MovedFits DEF Fail
<1>r. ASSUME Fail(s), UNCHANGED <<at, form>>, File(s) \in rigid PROVE FormFits(s)'
  BY <1>r, <1>2, MovedFits DEF Fail
<1>5. CASE Incomplete(s)
  <2>1. at[s] = 1
    BY <1>5, <1>1 DEF Incomplete, PlaceFits
  <2> QED
    BY <1>5, <2>1, <1>4 DEF Incomplete
<1>6. CASE ChooseName(s)
  BY <1>6, <1>1, <1>2, <1>3 DEF ChooseName, FormFits
<1>7. CASE CheckEnvironment(s)
  <2>1. at[s] = 1 /\ at' = at
    BY <1>7, <1>1 DEF CheckEnvironment, PlaceFits
  <2>2. CASE ~Fail(s)
    BY <1>7, <2>1, <2>2, <1>1, <1>2, <1>3 DEF CheckEnvironment, FormFits, Wizard
  <2> QED
    BY <2>1, <2>2, <1>4
<1>8. CASE CheckName(s)
  <2>1. at[s] = 1 /\ at' = at
    BY <1>8, <1>1 DEF CheckName, PlaceFits
  <2>2. CASE ~Fail(s)
    BY <1>8, <2>1, <2>2, <1>1, <1>2, <1>3 DEF CheckName, FormFits, Wizard, Taken
  <2> QED
    BY <2>1, <2>2, <1>4
<1>9. CASE KnowAccount(s)
  <2>1. at[s] = 1 /\ at' = at /\ form[s].kind = "fill" /\ form'[s].kind = "fill"
    BY <1>9, <1>1, HandleFacts DEF KnowAccount, PlaceFits
  <2>2. CASE ~Fail(s)
    BY <1>9, <2>1, <2>2, <1>1, <1>2, <1>3 DEF KnowAccount, FormFits, Wizard
  <2> QED
    BY <2>1, <2>2, <1>4
<1>10. CASE SignIn(s) \/ VerifyLogin(s)
  <2>1. at[s] = 1 /\ at' = at
    BY <1>10, <1>1 DEF SignIn, VerifyLogin, PlaceFits
  <2>2. CASE ~Fail(s)
    BY <1>10, <2>1, <2>2, <1>1, <1>2, <1>3 DEF SignIn, VerifyLogin, FormFits, Wizard
  <2> QED
    BY <2>1, <2>2, <1>4
<1>11. CASE Raise(s)
  <2>1. at[s] = 1
    <3>1. CASE pc[s] = "signing"
      BY <3>1, <1>1 DEF PlaceFits
    <3>2. CASE pc[s] = "reading"
      BY <3>2, <1>1, <1>11, FileFacts, OrderFacts DEF Raise
    <3> QED
      BY <1>11, <3>1, <3>2 DEF Raise
  <2> QED
    BY <1>11, <2>1, <1>2, MovedFits DEF Raise
<1>12. CASE Read(s)
  <2>1. pc[s] = "reading"
    BY <1>12 DEF Read
  <2>2. /\ File(s) \in Names /\ at[s] \in 1 .. Len(Order(form[s].kind))
        /\ File(s) = Order(form[s].kind)[at[s]]
    BY <1>1, <2>1, FileFacts
  <2>r. CASE Fail(s) /\ UNCHANGED <<at, seen, form>> /\ File(s) \in rigid
    BY <2>r, <1>r
  <2>3. CASE /\ Fail(s) /\ Refused(s) /\ File(s) \notin rigid /\ form[s].kind # "fill"
             /\ UNCHANGED <<at, seen>>
    <3>1. CASE form[s].kind = "public"
      BY <2>2, <2>3, <3>1, <1>4, OrderFacts DEF Refused
    <3>2. CASE Wizard(s)
      <4>1. at[s] # 4
        BY <2>2, <2>3, <3>2, OrderFacts DEF Refused, Wizard
      <4>2. at[s] # 2
        <5>1. SUFFICES ASSUME at[s] = 2 PROVE FALSE
          OBVIOUS
        <5>2. File(s) = "environments"
          BY <5>1, <2>2, <3>2, OrderFacts DEF Wizard
        <5>3. Place(form[s].environment) \in files["environments"]
          BY <5>2, <2>3 DEF Refused, Taken, Entry
        <5> QED
          BY <5>1, <5>3, <2>1, <3>2, <1>1 DEF FormFits
      <4>3. at[s] # 3
        <5>1. SUFFICES ASSUME at[s] = 3 PROVE FALSE
          OBVIOUS
        <5>2. File(s) = "identities"
          BY <5>1, <2>2, <3>2, OrderFacts DEF Wizard
        <5>3. \E i \in files["identities"] : i.name = name[s]
          BY <5>2, <2>3 DEF Refused, Taken
        <5> QED
          BY <5>1, <5>3, <2>1, <3>2, <1>1 DEF FormFits
      <4>4. at[s] \in 1 .. 4
        BY <2>2, <3>2, OrderFacts DEF Wizard
      <4> QED
        BY <4>1, <4>2, <4>3, <4>4, <2>3, <1>4
    <3> QED
      BY <1>1, <2>3, <3>1, <3>2 DEF Kinds, Wizard
  <2>4. CASE NextFile(s) /\ NotNeeded(s) /\ UNCHANGED seen
    <3>0. PICK n : n = at[s]
      OBVIOUS
    <3>1. EntryHeld(s, n)'
      <4>1. /\ File(s) = "allowed" /\ UNCHANGED <<form, name, files>>
            /\ \/ files["allowed"] = {} \/ Entry(s, "allowed") \in files["allowed"]
               \/ "allowed" \in rigid
            /\ rigid' = rigid
        BY <1>12, <2>4 DEF Read, NotNeeded, Taken
      <4>2. Order(form'[s].kind)[n] = "allowed" /\ Entry(s, "allowed")' = Entry(s, "allowed")
        BY <4>1, <2>2, <3>0 DEF Entry, Place
      <4>3. \A t \in Submissions : pc'[t] # "filling"
        BY <1>1, <2>1, <2>4, <1>2, HandleFacts, OnlyOne DEF NextFile
      <4>4. CASE files["allowed"] = {}
        <5>1. AllowsAll'
          BY <4>1, <4>3, <4>4 DEF AllowsAll, Filling
        <5> QED
          BY <4>2, <5>1 DEF EntryHeld
      <4>5. CASE Entry(s, "allowed") \in files["allowed"]
        BY <4>1, <4>2, <4>5 DEF EntryHeld, Held
      <4>6. CASE "allowed" \in rigid
        BY <4>1, <4>2, <4>6 DEF EntryHeld
      <4> QED
        BY <4>1, <4>4, <4>5, <4>6
    <3> QED
      BY <1>12, <2>1, <2>4, <3>0, <3>1, NextFits DEF Read
  <2>5. CASE /\ ~Refused(s) /\ ~NotNeeded(s) /\ seen' = [seen EXCEPT ![s] = files[File(s)]]
             /\ pc' = [pc EXCEPT ![s] = "writing"] /\ UNCHANGED <<at, result>>
    <3>1. /\ seen'[s] = files[File(s)] /\ pc'[s] = "writing" /\ File(s)' = File(s)
          /\ UNCHANGED <<form, name, files>>
      BY <1>12, <2>5, <1>2 DEF Read, File
    <3>2. File(s) = "allowed" => files[File(s)] # {}
      BY <2>5 DEF NotNeeded
    <3> QED
      BY <1>1, <1>3, <2>1, <2>5, <3>1, <3>2 DEF FormFits, Wizard
  <2> QED
    BY <1>12, <2>r, <2>3, <2>4, <2>5 DEF Read
<1>13. CASE Open(s)
  <2>1. /\ pc[s] = "writing" /\ pc'[s] = "filling" /\ File(s)' = File(s)
        /\ files' = [files EXCEPT ![File(s)] = {}] /\ UNCHANGED <<form, name, at, seen, result>>
    BY <1>13, <1>2 DEF Open, File
  <2>2. /\ files'[File(s)] = {}
        /\ files'["environments"] \subseteq files["environments"]
        /\ files'["identities"] \subseteq files["identities"]
    BY <2>1, <1>1, <1>2, FileFacts
  <2> QED
    BY <1>1, <1>3, <2>1, <2>2 DEF FormFits, Wizard
<1>14. CASE Fill(s)
  <2>1. /\ pc[s] = "filling" /\ NextFile(s) /\ UNCHANGED <<form, name>>
        /\ files' = [files EXCEPT ![File(s)] = seen[s] \cup {Entry(s, File(s))}]
    BY <1>14 DEF Fill
  <2>2. /\ File(s) \in Names /\ at[s] \in 1 .. Len(Order(form[s].kind))
        /\ File(s) = Order(form[s].kind)[at[s]]
    BY <1>1, <2>1, FileFacts
  <2>3. PICK n : n = at[s]
    OBVIOUS
  <2>4. EntryHeld(s, n)'
    <3>1. PICK file : file = File(s)
      OBVIOUS
    <3>2. Order(form'[s].kind)[n] = file
      BY <2>1, <2>2, <2>3, <3>1
    <3>3. Entry(s, file) \in files'[file]
      BY <2>1, <2>2, <3>1, <1>2
    <3>4. Entry(s, file)' = Entry(s, file)
      BY <2>1 DEF Entry, Place
    <3>5. Entry(s, file)' \in Held(file)'
      BY <3>3, <3>4 DEF Held
    <3> QED
      BY <3>2, <3>5 DEF EntryHeld
  <2>5. /\ Wizard(s) /\ at[s] # 2 => files'["environments"] = files["environments"]
        /\ Wizard(s) /\ at[s] # 3 => files'["identities"] = files["identities"]
    <3>1. /\ Wizard(s) /\ at[s] # 2 => File(s) # "environments"
          /\ Wizard(s) /\ at[s] # 3 => File(s) # "identities"
      BY <2>2, OrderFacts DEF Wizard
    <3> QED
      BY <2>1, <3>1, <1>2 DEF Names
  <2> QED
    BY <2>1, <2>3, <2>4, <2>5, NextFits
<1>15. CASE Finish(s) \/ Answer(s) \/ Exit(s)
  <2>1. /\ at' = at /\ result' = result /\ pc'[s] \in {"answering", "answered"} /\ form' = form
    BY <1>15, <1>2 DEF Finish, Answer, Exit
  <2> QED
    BY <1>1, <2>1, MovedFits DEF FormFits
<1> QED
  BY <1>5, <1>6, <1>7, <1>8, <1>9, <1>10, <1>11, <1>12, <1>13, <1>14, <1>15 DEF Handle

-----------------------------------------------------------------------------

\* What is new in a file is the entry of the form that has just filled it.
LEMMA HandleAdds ==
    ASSUME OrderInv, NEW s \in Submissions, Handle(s), NEW file \in Names, NEW i,
           i \in Held(file)', i \notin Held(file)
    PROVE  Fill(s) /\ file = File(s) /\ i = Entry(s, file)
<1>1. /\ i \notin files[file]
      /\ \A t \in Submissions : pc[t] = "filling" /\ File(t) = file => i \notin seen[t]
      /\ \/ i \in files'[file]
         \/ \E t \in Submissions : pc'[t] = "filling" /\ File(t)' = file /\ i \in seen'[t]
  BY DEF Held, Filling, From
<1>2. TypeInv /\ FormFits(s) /\ Busy(s) /\ files = [f \in Names |-> files[f]]
  BY HandleFacts DEF OrderInv, TypeInv, Typing
<1>3. \A t \in Submissions \ {s} : pc'[t] = pc[t] /\ pc[t] # "filling"
  BY <1>2, HandleFacts, OnlyOne DEF OrderInv
<1>4. CASE files' = files /\ pc'[s] # "filling"
  BY <1>1, <1>3, <1>4
<1>5. CASE Open(s)
  <2>1. /\ pc[s] = "writing" /\ files' = [files EXCEPT ![File(s)] = {}] /\ File(s)' = File(s)
        /\ seen' = seen
    BY <1>5 DEF Open, From, File
  <2>2. seen[s] = files[File(s)]
    BY <2>1, <1>2 DEF FormFits
  <2> QED
    BY <1>1, <1>2, <1>3, <2>1, <2>2
<1>6. CASE Fill(s)
  <2>1. /\ pc[s] = "filling" /\ pc'[s] # "filling"
        /\ files' = [files EXCEPT ![File(s)] = seen[s] \cup {Entry(s, File(s))}]
    BY <1>2, <1>6 DEF Fill, From, NextFile, Goto, TypeInv, TypeOK
  <2>2. i \in files'[file]
    BY <1>1, <1>3, <2>1
  <2> QED
    BY <1>1, <1>2, <1>6, <2>1, <2>2
<1> QED
  BY <1>2, <1>4, <1>5, <1>6, HandleFacts

LEMMA AccountsStayHeld ==
    ASSUME OrderInv, NEW s \in Submissions, Handle(s)
    PROVE  AccountsHeld'
<1>1. torn' = torn
  BY HandleFacts DEF OrderInv
<1>2. SUFFICES ASSUME NEW i \in Held("identities")', i \notin Given
               PROVE  /\ torn["secrets"] = {} => i \in Held("secrets")'
                      /\ torn["environments"] = {} => Place(i.environment) \in Held("environments")'
  BY <1>1 DEF AccountsHeld, Place
<1>3. {"secrets", "environments", "identities"} \subseteq Names
  BY DEF Names
<1>4. /\ torn["secrets"] = {} => i \in Held("secrets")
      /\ torn["environments"] = {} => Place(i.environment) \in Held("environments")
  <2>1. CASE i \in Held("identities")
    BY <1>2, <2>1 DEF OrderInv, AccountsHeld
  <2>2. CASE i \notin Held("identities")
    <3>1. Fill(s) /\ File(s) = "identities" /\ i = Entry(s, "identities")
      BY <1>2, <1>3, <2>2, HandleAdds
    <3>2. /\ TypeInv /\ FormFits(s) /\ pc[s] = "filling"
      BY <3>1 DEF OrderInv, Fill, From
    <3>3. /\ at[s] \in 1 .. Len(Order(form[s].kind)) /\ form[s].kind \in Kinds
          /\ File(s) = Order(form[s].kind)[at[s]]
      BY <3>2, FileFacts
    <3>4. Wizard(s) /\ at[s] = 3
      <4>1. form[s].kind # "public" /\ form[s].kind # "fill"
        BY <3>1, <3>3, OrderFacts
      <4>2. Wizard(s)
        BY <3>3, <4>1 DEF Kinds, Wizard
      <4>3. form[s].kind \in {"account", "script"}
        BY <4>2 DEF Wizard
      <4>4. at[s] \in 1 .. 4
        BY <3>3, <4>3, OrderFacts
      <4>5. at[s] \notin {1, 2, 4}
        BY <3>1, <3>3, <4>3, OrderFacts
      <4> QED
        BY <4>2, <4>4, <4>5
    <3>5. EntryHeld(s, 1) /\ EntryHeld(s, 2)
      BY <3>2, <3>4 DEF FormFits
    <3>6. /\ torn["secrets"] = {} => Entry(s, "secrets") \in Held("secrets")
          /\ torn["environments"] = {} => Entry(s, "environments") \in Held("environments")
      BY <1>2, <3>4, <3>5, OrderFacts DEF EntryHeld, Wizard
    <3> QED
      BY <3>1, <3>6 DEF Entry, Place
  <2> QED
    BY <2>1, <2>2
<1> QED
  BY <1>3, <1>4, HandleKeepsHeld

LEMMA HandleKeepsOrder ==
    ASSUME OrderInv, NEW s \in Submissions, Handle(s)
    PROVE  OrderInv'
<1>1. TypeInv' /\ AccountsHeld'
  BY HandleKeepsType, AccountsStayHeld DEF OrderInv
<1>2. \A t \in Submissions : FormFits(t)'
  BY OthersFit, HandlerFits
<1>3. Busy(s) /\ \A t \in Submissions \ {s} : pc'[t] = pc[t] /\ ~Busy(t)
  BY HandleFacts DEF OrderInv, Alone
<1>4. Alone'
  BY <1>3 DEF Alone, Busy
<1> QED
  BY <1>1, <1>2, <1>4 DEF OrderInv

\* A form is sent when none is being handled.
LEMMA SubmitKeepsOrder ==
    ASSUME Overlap = FALSE, OrderInv, NEW s \in Submissions, NEW f \in Forms,
           Submit(s, f) \/ RunScript(s, f)
    PROVE  OrderInv'
<1>1. TypeInv /\ TypeInv'
  BY SubmitKeepsType DEF OrderInv
<1>2. /\ pc[s] = "off" /\ \A t \in Submissions : ~Busy(t)
      /\ form' = [form EXCEPT ![s] = f] /\ UNCHANGED <<name, at, seen, result, files, torn, rigid>>
      /\ \E w \in {"choosing", "knowing", "reading"} : pc' = [pc EXCEPT ![s] = w]
      /\ Submit(s, f) => f.kind # "script"
      /\ pc'[s] = "reading" => f.kind \notin {"account", "script"}
  BY <1>1, SetupAssumption DEF Submit, RunScript, IsNext, From, Goto, SetupAssumption, TypeInv, TypeOK
<1>3. /\ \A t \in Submissions \ {s} : pc'[t] = pc[t] /\ form'[t] = form[t]
      /\ form'[s] = f /\ at[s] = 1 /\ pc'[s] # "filling"
      /\ \A t \in Submissions : pc[t] # "filling"
  BY ZenonT(60), <1>1, <1>2 DEF TypeInv, TypeOK, Typing, PlaceFits, Busy, AtRest
<1>4. Alone'
  BY <1>2, <1>3 DEF Alone, Busy
<1>5. \A file : Filling(file) = {} /\ Filling(file)' = {} /\ Held(file)' = Held(file)
  BY <1>2, <1>3 DEF Held, Filling, From
<1>6. AccountsHeld'
  BY <1>2, <1>5 DEF OrderInv, AccountsHeld, Place
<1>7. ASSUME NEW t \in Submissions, t # s PROVE FormFits(t)'
  <2>1. FormFits(t) /\ pc'[t] = pc[t] /\ form'[t] = form[t] /\ pc[t] \in AtRest
    BY <1>2, <1>3, <1>7 DEF OrderInv, Busy
  <2>2. ASSUME NEW k \in 1 .. at[t] - 1 PROVE EntryHeld(t, k)'
    <3>1. EntryHeld(t, k)
      BY <2>1, <2>2 DEF FormFits
    <3> QED
      BY <1>2, <1>5, <2>1, <3>1 DEF EntryHeld, Entry, Place, AllowsAll
  <2> QED
    BY <1>2, <1>3, <1>7, <2>1, <2>2 DEF FormFits, AtRest, File
<1>8. FormFits(s)'
  <2>1. FormFits(s)
    BY DEF OrderInv
  <2> QED
    BY <1>2, <1>3, <2>1 DEF FormFits, Wizard
<1> QED
  BY <1>1, <1>4, <1>6, <1>7, <1>8 DEF OrderInv

\* The process ends, and with it the one form that was being handled: the file it had open is
\* torn, the others are as they are.
LEMMA StopKeepsOrder ==
    ASSUME OrderInv, ServerStops
    PROVE  OrderInv'
<1>1. TypeInv /\ TypeInv'
  BY StopKeepsType DEF OrderInv
<1>2. /\ \A t \in Submissions : pc'[t] = IF Busy(t) THEN "dead" ELSE pc[t]
      /\ \A file \in Names : torn'[file] = IF Filling(file) = {} THEN torn[file]
                                           ELSE {s \in Submissions : pc[s] # "off"}
      /\ UNCHANGED <<form, name, at, result, files, rigid>>
  BY DEF ServerStops, Closed, Filling, From
<1>3. \A t \in Submissions : ~Busy(t)' /\ pc'[t] # "filling"
  BY <1>2 DEF Busy, AtRest
<1>4. Alone'
  BY <1>3 DEF Alone
<1>5. \A file : Filling(file)' = {}
  BY <1>3 DEF Filling, From
<1>6. ASSUME NEW file \in Names, NEW t \in Submissions, pc[t] # "off", t \notin torn'[file]
      PROVE  Held(file)' = Held(file) /\ t \notin torn[file] /\ Filling(file) = {}
  <2>1. Filling(file) = {} /\ torn'[file] = torn[file]
    BY <1>2, <1>6
  <2> QED
    BY <1>2, <1>5, <1>6, <2>1 DEF Held
<1>a. ASSUME NEW file \in Names, torn'[file] = {}
      PROVE  Held(file)' = Held(file) /\ torn[file] = {} /\ Filling(file) = {}
  <2>1. Filling(file) = {}
    <3>1. SUFFICES ASSUME NEW t \in Filling(file) PROVE FALSE
      OBVIOUS
    <3>2. t \in Submissions /\ pc[t] = "filling"
      BY <3>1 DEF Filling, From
    <3> QED
      BY <1>2, <1>a, <3>1, <3>2
  <2> QED
    BY <1>2, <1>5, <1>a, <2>1 DEF Held
<1>7. AccountsHeld'
  <2>1. SUFFICES ASSUME NEW i \in Held("identities")', i \notin Given
                 PROVE  /\ torn'["secrets"] = {} => i \in Held("secrets")'
                        /\ torn'["environments"] = {} =>
                               Place(i.environment) \in Held("environments")'
    BY DEF AccountsHeld, Place
  <2>2. i \in Held("identities")
    BY <1>2, <1>5, <2>1 DEF Held
  <2>3. \A file \in {"secrets", "environments"} :
            torn'[file] = {} => torn[file] = {} /\ Held(file)' = Held(file)
    BY <1>a DEF Names
  <2> QED
    BY <2>1, <2>2, <2>3 DEF OrderInv, AccountsHeld
<1>8. ASSUME NEW t \in Submissions PROVE FormFits(t)'
  <2>1. FormFits(t)
    BY DEF OrderInv
  <2>2. ASSUME NEW k \in 1 .. at[t] - 1 PROVE EntryHeld(t, k)'
    <3>1. EntryHeld(t, k) /\ k \in 1 .. Len(Order(form[t].kind))
          /\ form[t].kind \in Kinds \cup {"none"} /\ pc[t] # "off"
      <4>1. EntryHeld(t, k)
        BY <2>1, <2>2 DEF FormFits
      <4>2. at[t] \in 1 .. Len(Order(form[t].kind)) + 1 /\ form[t].kind \in Kinds \cup {"none"}
        BY <1>1 DEF TypeInv, TypeOK, Kinds
      <4>3. pc[t] # "off"
        BY <1>1, <2>2 DEF TypeInv, PlaceFits
      <4> QED
        BY <4>1, <4>2, <4>3, LenOfOrder
    <3>2. PICK file \in Names : file = Order(form[t].kind)[k]
      BY <3>1, LenOfOrder
    <3>3. Entry(t, file)' = Entry(t, file) /\ Order(form'[t].kind)[k] = file
      BY <1>2, <3>2 DEF Entry, Place
    <3>4. "allowed" \in Names
      BY DEF Names
    <3> QED
      BY <1>2, <1>5, <1>6, <3>1, <3>2, <3>3, <3>4 DEF EntryHeld, AllowsAll
  <2> QED
    BY <1>2, <1>3, <2>1, <2>2 DEF FormFits, Busy, AtRest, File
<1> QED
  BY <1>1, <1>4, <1>7, <1>8 DEF OrderInv

LEMMA InitOrdered == Init => OrderInv
<1> SUFFICES ASSUME Init PROVE OrderInv
  OBVIOUS
<1>1. TypeInv
  BY InitTyped
<1>2. /\ \A s \in Submissions : pc[s] = "off" /\ ~Busy(s) /\ at[s] = 1 /\ result[s] = "none"
      /\ files["identities"] = Given
  BY DEF Init, Busy, AtRest
<1>3. Held("identities") = Given
  BY <1>2 DEF Held, Filling, From
<1>4. AccountsHeld /\ Alone
  BY <1>2, <1>3 DEF AccountsHeld, Alone
<1>5. \A s \in Submissions : FormFits(s)
  BY <1>2 DEF FormFits
<1> QED
  BY <1>1, <1>4, <1>5 DEF OrderInv

LEMMA StepKeepsOrder ==
    ASSUME Overlap = FALSE
    PROVE  OrderInv /\ [Next]_vars => OrderInv'
<1> SUFFICES ASSUME OrderInv, [Next]_vars PROVE OrderInv'
  OBVIOUS
<1>1. CASE UNCHANGED vars
  <2>1. TypeInv'
    BY <1>1, StepKeepsType DEF OrderInv
  <2>2. /\ \A file : Held(file)' = Held(file) /\ Filling(file)' = Filling(file)
        /\ torn' = torn /\ rigid' = rigid /\ files' = files
    BY <1>1 DEF vars, threadVars, Held, Filling, From, File
  <2>3. AccountsHeld' /\ Alone'
    BY <1>1, <2>2 DEF OrderInv, AccountsHeld, Alone, vars, threadVars, Busy, Place
  <2>4. \A s \in Submissions : FormFits(s)'
    BY SMTT(40), <1>1, <2>2 DEF OrderInv, FormFits, EntryHeld, Entry, Place, AllowsAll, vars, threadVars,
                      Wizard, File
  <2> QED
    BY <2>1, <2>3, <2>4 DEF OrderInv
<1>2. CASE Next
  BY <1>2, HandleKeepsOrder, SubmitKeepsOrder, StopKeepsOrder DEF Next
<1> QED
  BY <1>1, <1>2

\* A whole file holds what it is held to hold.
LEMMA WholeFile ==
    ASSUME NEW file, Whole(file)
    PROVE  torn[file] = {} /\ Held(file) = files[file]
BY DEF Whole, Closed, Held, Filling

LEMMA OrderGives ==
    ASSUME OrderInv
    PROVE  RefusedUntouched /\ IdentityIsUsable /\ EntriesSurvive
<1>1. RefusedUntouched
  BY DEF OrderInv, FormFits, RefusedUntouched, File
<1>2. IdentityIsUsable
  <2>1. SUFFICES ASSUME \A file \in Names : Whole(file)
                 PROVE  \A i \in files["identities"] \ Given :
                            /\ i \in files["secrets"]
                            /\ Place(i.environment) \in files["environments"]
    BY DEF IdentityIsUsable
  <2>2. \A file \in {"secrets", "environments", "identities"} :
            torn[file] = {} /\ Held(file) = files[file]
    BY <2>1, WholeFile DEF Names
  <2> QED
    BY <2>2 DEF OrderInv, AccountsHeld
<1>3. EntriesSurvive
  <2>1. SUFFICES ASSUME NEW s \in Submissions, NEW k \in 1 .. at[s] - 1,
                        NEW file, file = Order(form[s].kind)[k], Closed(file),
                        s \notin torn[file]
                 PROVE  \/ Entry(s, file) \in files[file]
                        \/ file = "allowed" /\ (files[file] = {} \/ file \in rigid)
    BY DEF EntriesSurvive
  <2>2. EntryHeld(s, k)
    BY DEF OrderInv, FormFits
  <2> QED
    BY <2>1, <2>2 DEF EntryHeld, AllowsAll, Held, Filling, Closed
<1> QED
  BY <1>1, <1>2, <1>3

-----------------------------------------------------------------------------
(***************************************************************************)
(* The page beside the assistant.                                          *)
(***************************************************************************)

\* What the assistant adds to the page's steps is not seen in the page's variables, but for a
\* page that is opened anew.
LEMMA AssistantStep ==
    ASSUME [AssistantNext]_allVars
    PROVE  [Next]_vars \/ OpenAnew
<1>1. CASE UNCHANGED allVars
  BY <1>1 DEF allVars
<1>2. CASE \E s \in Submissions, f \in Forms : (Submit(s, f) /\ UNCHANGED assistantVars) \/ Launch(s, f)
  BY <1>2 DEF Next, Launch
<1>3. CASE \E s \in Submissions : Serve(s)
  BY <1>3 DEF Next, Serve, Handle, Settle, Started
<1>4. CASE Render \/ Restart
  BY <1>4 DEF Next, Render, Restart
<1> QED
  BY <1>1, <1>2, <1>3, <1>4 DEF AssistantNext

LEMMA OpenKeepsOrder ==
    ASSUME OpenAnew
    PROVE  (TypeInv => TypeInv') /\ (OrderInv => OrderInv')
<1>1. UNCHANGED <<pc, form, name, at, seen, result, answer, files, torn, rigid>>
      /\ status' = [state |-> "waiting", of |-> Nobody]
  BY DEF OpenAnew, threadVars
<1>2. ASSUME TypeInv PROVE TypeInv'
  BY <1>1, <1>2 DEF TypeInv, TypeOK, Typing, PlaceFits, Wizard, Statuses
<1>3. ASSUME OrderInv PROVE OrderInv'
  <2>1. TypeInv'
    BY <1>2, <1>3 DEF OrderInv
  <2>2. /\ \A file : Held(file)' = Held(file) /\ Filling(file)' = Filling(file)
        /\ torn' = torn /\ rigid' = rigid /\ files' = files
    BY <1>1 DEF Held, Filling, From, File
  <2>3. AccountsHeld' /\ Alone'
    BY <1>1, <1>3, <2>2 DEF OrderInv, AccountsHeld, Alone, Busy, Place
  <2>4. \A s \in Submissions : FormFits(s)'
    BY SMTT(40), <1>1, <1>3, <2>2 DEF OrderInv, FormFits, EntryHeld, Entry, Place, AllowsAll, Wizard, File
  <2> QED
    BY <2>1, <2>3, <2>4 DEF OrderInv
<1> QED
  BY <1>2, <1>3

LEMMA AssistantOrdered ==
    ASSUME Overlap = FALSE
    PROVE  AssistantSpec => []OrderInv
<1>1. AssistantInit => OrderInv
  BY InitOrdered DEF AssistantInit
<1>2. OrderInv /\ [AssistantNext]_allVars => OrderInv'
  BY AssistantStep, StepKeepsOrder, OpenKeepsOrder
<1> QED
  BY <1>1, <1>2, PTL DEF AssistantSpec

\* The page's variables keep their types, whatever is sent at once.
THEOREM SetupTypes == AssistantSpec => []TypeOK
<1>1. AssistantInit => TypeInv
  BY InitTyped DEF AssistantInit
<1>2. TypeInv /\ [AssistantNext]_allVars => TypeInv'
  BY AssistantStep, StepKeepsType, OpenKeepsOrder
<1>3. TypeInv => TypeOK
  BY DEF TypeInv
<1> QED
  BY <1>1, <1>2, <1>3, PTL DEF AssistantSpec

\* Of any number of forms sent one after the other, none is refused halfway, whatever those that
\* were finished or cut short have left.
THEOREM NothingHalfway ==
    ASSUME Overlap = FALSE
    PROVE  AssistantSpec => []RefusedUntouched
BY AssistantOrdered, OrderGives, PTL

\* An account in the configuration has its secrets and its environment, wherever the process
\* was stopped.
THEOREM AccountsAreUsable ==
    ASSUME Overlap = FALSE
    PROVE  AssistantSpec => []IdentityIsUsable
BY AssistantOrdered, OrderGives, PTL

\* What was written stays, but in a file whose write was cut short.
THEOREM EntriesStay ==
    ASSUME Overlap = FALSE
    PROVE  AssistantSpec => []EntriesSurvive
BY AssistantOrdered, OrderGives, PTL

-----------------------------------------------------------------------------
(***************************************************************************)
(* What the assistant can use.                                             *)
(***************************************************************************)

NoScript == \A s \in Submissions : Busy(s) => form[s].kind # "script"

IdentitiesShaped == \A i \in Held("identities") : i = [name |-> i.name, environment |-> i.environment]

\* An account that is being filled in is there, and was configured by hand; when it has been
\* filled in, the process that serves the page has it.
FillFits(s) ==
    form[s].kind = "fill" =>
        /\ pc[s] \in {"signing", "reading"} => Entry(s, "secrets") \in files["identities"]
        /\ torn["secrets"] = {} /\ (pc[s] \in {"writing", "filling"} \/ at[s] = 2) =>
               Entry(s, "secrets") \in Given
        /\ torn["secrets"] = {} /\ at[s] = 2 /\ pc[s] # "finishing" /\ NoScript =>
               Entry(s, "secrets") \in Has(environ)

\* Only .env strips, and what was filled in is not read from it again.
ValuesFit ==
    /\ \A x \in environ : x.value = "typed" \/ x.account \in Quoted
    /\ \A s \in filled :
        /\ s \in Submissions /\ pc[s] \in {"answering", "answered", "dead"}
        /\ Entry(s, "secrets") \in Has(environ)
        /\ \A x \in environ : x.account = Entry(s, "secrets") => x.value = "typed"

\* Who was told that it is done.
AnswerFits(s) ==
    /\ form[s].kind = "script" => pc[s] # "answering"
    /\ result[s] = "done" => at[s] = Len(Order(form[s].kind)) + 1
    /\ at[s] = 2 /\ pc[s] = "finishing" /\ form[s].kind = "fill" => result[s] = "done"
    /\ status = [state |-> "done", of |-> s] =>
           result[s] = "done" /\ pc[s] \in {"answering", "answered"}
    /\ answer[s] = [state |-> "done", of |-> s] => result[s] = "done" /\ pc[s] = "answered"

UseInv ==
    /\ OrderInv /\ IdentitiesShaped /\ ValuesFit
    /\ \A s \in Submissions : FillFits(s) /\ AnswerFits(s)

LEMMA OneFile == Len(Order("fill")) = 1
BY OrderFacts

LEMMA HasMore ==
    ASSUME NEW environment
    PROVE  environment \subseteq LoadDotenv(environment)
           /\ Has(environment) \subseteq Has(LoadDotenv(environment))
BY DEF Has, LoadDotenv

LEMMA UseGives == UseInv => FilledIsUsable
<1>0. Len(Order("fill")) = 1
  BY OneFile
<1> SUFFICES ASSUME UseInv, NEW s \in Submissions, NEW i, i = Entry(s, "secrets"),
                    form[s].kind = "fill", answer[s] = [state |-> "done", of |-> s],
                    Whole("secrets"), NoScript
             PROVE  /\ i \notin Pending
                    /\ i \in known => i \in Has(environ)
                    /\ \A x \in environ : x.account = i /\ x.value # "typed" =>
                           i \in Quoted /\ s \notin filled
  BY DEF FilledIsUsable, NoScript
<1>1. OrderInv /\ FillFits(s) /\ AnswerFits(s) /\ ValuesFit /\ torn["secrets"] = {}
  BY WholeFile DEF UseInv
<1>2. at[s] = 2 /\ pc[s] = "answered"
  <2>1. result[s] = "done" /\ pc[s] = "answered" /\ at[s] = Len(Order("fill")) + 1
    BY <1>1 DEF AnswerFits
  <2>2. at[s] \in Nat
    BY <1>1 DEF OrderInv, TypeInv, Typing
  <2>3. at[s] = 1 + 1
    BY <2>1, <2>2, <1>0
  <2> QED
    BY <2>1, <2>3
<1>3. i \in Has(environ)
  BY <1>1, <1>2 DEF FillFits
<1>4. i \notin Pending
  BY <1>3, HasMore DEF Pending
<1>5. \A x \in environ : x.account = i /\ x.value # "typed" => i \in Quoted /\ s \notin filled
  BY <1>1 DEF ValuesFit
<1> QED
  BY <1>3, <1>4, <1>5

LEMMA InitUsable == AssistantInit => UseInv
<1> SUFFICES ASSUME AssistantInit PROVE UseInv
  OBVIOUS
<1>1. OrderInv
  BY InitOrdered DEF AssistantInit
<1>2. \A s \in Submissions : pc[s] = "off" /\ at[s] = 1 /\ result[s] = "none" /\ form[s] = NoForm
                            /\ answer[s] = [state |-> "none", of |-> Nobody]
  BY DEF AssistantInit, Init
<1>3. files["identities"] = Given /\ status = [state |-> "waiting", of |-> Nobody]
  BY DEF AssistantInit, Init
<1>4. Held("identities") = Given
  BY <1>2, <1>3 DEF Held, Filling, From
<1>5. IdentitiesShaped /\ ValuesFit
  BY <1>4, SetupAssumption DEF SetupAssumption, IdentitiesShaped, ValuesFit, AssistantInit
<1>6. ASSUME NEW s \in Submissions PROVE FillFits(s) /\ AnswerFits(s)
  <2>1. /\ form[s].kind = "none" /\ status.state = "waiting" /\ answer[s].state = "none"
        /\ result[s] = "none"
    BY <1>2, <1>3 DEF NoForm
  <2> QED
    BY <2>1 DEF FillFits, AnswerFits
<1> QED
  BY <1>1, <1>5, <1>6 DEF UseInv

LEMMA ShapesStay ==
    ASSUME UseInv, NEW s \in Submissions, Handle(s)
    PROVE  IdentitiesShaped'
<1>1. "identities" \in Names
  BY DEF Names
<1>2. SUFFICES ASSUME NEW i \in Held("identities")'
               PROVE  i = [name |-> i.name, environment |-> i.environment]
  BY DEF IdentitiesShaped
<1>3. CASE i \in Held("identities")
  BY <1>3 DEF UseInv, IdentitiesShaped
<1>4. CASE i \notin Held("identities")
  BY <1>1, <1>4, HandleAdds DEF UseInv, Entry
<1> QED
  BY <1>3, <1>4

\* How a form is told what became of it.
LEMMA AnswersFit ==
    ASSUME UseInv, NEW s \in Submissions, Handle(s), NEW t \in Submissions
    PROVE  AnswerFits(t)'
<1> USE DEF From, Goto
<1>1. /\ OrderInv /\ TypeInv /\ FormFits(s) /\ PlaceFits(s) /\ AnswerFits(s) /\ AnswerFits(t)
      /\ form[s].kind \in Kinds /\ Alone
  BY HandleFacts DEF UseInv, OrderInv, TypeInv, PlaceFits
<1>2. /\ at \in [Submissions -> Nat] /\ pc \in [Submissions -> Positions]
      /\ result \in [Submissions -> Results] /\ answer \in [Submissions -> Statuses]
  BY <1>1 DEF TypeInv, TypeOK, Typing
<1>3. CASE Incomplete(s) \/ CheckEnvironment(s) \/ CheckName(s) \/ SignIn(s) \/ VerifyLogin(s)
           \/ ChooseName(s) \/ KnowAccount(s)
  <2>1. /\ UNCHANGED <<answer, status, at>> /\ pc'[s] \in {"finishing", "checking", "looking", "signing", "reading"}
        /\ result'[s] \in {result[s], "failed"}
        /\ pc[s] \notin {"finishing", "answering", "answered", "dead"}
        /\ \A u \in Submissions \ {s} : pc'[u] = pc[u] /\ result'[u] = result[u]
    BY <1>2, <1>3 DEF Incomplete, CheckEnvironment, CheckName, SignIn, VerifyLogin, ChooseName,
                      KnowAccount, Fail
  <2>2. form'[t].kind = form[t].kind
    BY HandleFacts, <1>1
  <2>3. result[s] = "none"
    BY <1>1, <2>1 DEF FormFits
  <2>4. t = s => at[s] = 1
    <3>1. pc'[s] = "finishing" => at[s] = 1
      BY <1>1, <1>2, <1>3 DEF Incomplete, CheckEnvironment, CheckName, SignIn, VerifyLogin,
                        ChooseName, KnowAccount, PlaceFits
    <3>2. pc'[s] # "finishing" => at[s] = 1
      BY <1>1, <1>2, <1>3 DEF Incomplete, CheckEnvironment, CheckName, SignIn, VerifyLogin,
                        ChooseName, KnowAccount, PlaceFits, Fail
    <3> QED
      BY <3>1, <3>2
  <2> QED
    BY <1>1, <2>1, <2>2, <2>3, <2>4 DEF AnswerFits
<1>4. CASE Raise(s)
  <2>1. /\ UNCHANGED <<form, status, at>> /\ pc'[s] = "answered" /\ result'[s] = "failed"
        /\ answer'[s].state = "failed" /\ pc[s] \in {"signing", "reading"}
        /\ \A u \in Submissions \ {s} : /\ pc'[u] = pc[u] /\ result'[u] = result[u]
                                        /\ answer'[u] = answer[u]
    BY <1>2, <1>4 DEF Raise
  <2>2. result[s] = "none"
    BY <1>1, <2>1 DEF FormFits
  <2> QED
    BY <1>1, <2>1, <2>2 DEF AnswerFits
<1>5. CASE Read(s) \/ Fill(s) \/ Open(s)
  <2>1. /\ UNCHANGED <<form, status, answer>> /\ pc'[s] \in {"finishing", "reading", "writing", "filling"}
        /\ pc[s] \in {"reading", "writing", "filling"}
        /\ \A u \in Submissions \ {s} : /\ pc'[u] = pc[u] /\ result'[u] = result[u]
                                        /\ at'[u] = at[u]
    BY <1>2, <1>5 DEF Read, Fill, Open, NextFile, Fail
  <2>2. result[s] = "none"
    BY <1>1, <2>1 DEF FormFits
  <2>3. CASE NextFile(s)
    <3>1. /\ at'[s] = at[s] + 1
          /\ \/ at[s] = Len(Order(form[s].kind)) /\ result'[s] = "done"
             \/ result'[s] = result[s] /\ pc'[s] = "reading"
      BY <1>2, <2>3 DEF NextFile
    <3> QED
      BY <1>1, <2>1, <2>2, <3>1 DEF AnswerFits
  <2>4. CASE /\ UNCHANGED at /\ pc'[s] \in {"writing", "filling"} /\ UNCHANGED result
    BY <1>1, <2>1, <2>2, <2>4 DEF AnswerFits
  <2>5. CASE Fail(s) /\ form[s].kind # "fill" /\ UNCHANGED at
    BY <1>1, <1>2, <2>1, <2>2, <2>5 DEF AnswerFits, Fail
  <2> QED
    BY <1>2, <1>5, <2>3, <2>4, <2>5 DEF Read, Fill, Open
<1>6. CASE Finish(s)
  <2>1. /\ UNCHANGED <<form, at, result, answer>> /\ pc'[s] = "answering" /\ pc[s] = "finishing"
        /\ form[s].kind # "script" /\ status' = [state |-> result[s], of |-> s]
        /\ \A u \in Submissions \ {s} : pc'[u] = pc[u]
    BY <1>2, <1>6 DEF Finish
  <2> QED
    BY <1>1, <2>1 DEF AnswerFits
<1>7. CASE Answer(s)
  <2>1. /\ UNCHANGED <<form, at, result, status>> /\ pc'[s] = "answered" /\ pc[s] = "answering"
        /\ answer'[s] = status
        /\ \A u \in Submissions \ {s} : pc'[u] = pc[u] /\ answer'[u] = answer[u]
    BY <1>2, <1>7 DEF Answer
  <2> QED
    BY <1>1, <2>1 DEF AnswerFits
<1>8. CASE Exit(s)
  <2>1. /\ UNCHANGED <<form, at, result, status>> /\ pc'[s] = "answered" /\ pc[s] = "finishing"
        /\ answer'[s] = [state |-> result[s], of |-> s]
        /\ \A u \in Submissions \ {s} : pc'[u] = pc[u] /\ answer'[u] = answer[u]
    BY <1>2, <1>8 DEF Exit
  <2> QED
    BY <1>1, <2>1 DEF AnswerFits
<1> QED
  BY <1>3, <1>4, <1>5, <1>6, <1>7, <1>8 DEF Handle

\* An account that was found was there by hand if its secrets are not there yet.
LEMMA FoundByHand ==
    ASSUME OrderInv, NEW i \in files["identities"], torn["secrets"] = {},
           i \notin files["secrets"], Filling("secrets") = {}
    PROVE  i \in Given
<1>1. i \in Held("identities") /\ Held("secrets") = files["secrets"]
  BY DEF Held
<1> QED
  BY <1>1 DEF OrderInv, AccountsHeld

LEMMA FillsFit ==
    ASSUME UseInv, NEW s \in Submissions, Handle(s), NoScript' => NoScript,
           Has(environ) \subseteq Has(environ)',
           Finish(s) /\ Fills(s) => Entry(s, "secrets") \in Has(environ)',
           NEW t \in Submissions
    PROVE  FillFits(t)'
<1> USE DEF From, Goto
<1>1. /\ OrderInv /\ TypeInv /\ FormFits(s) /\ PlaceFits(s) /\ AnswerFits(s) /\ FillFits(s)
      /\ FillFits(t) /\ Alone /\ Busy(s) /\ torn' = torn
  BY HandleFacts DEF UseInv, OrderInv, TypeInv
<1>2. /\ at \in [Submissions -> Nat] /\ pc \in [Submissions -> Positions]
      /\ files = [file \in Names |-> files[file]]
      /\ form = [u \in Submissions |-> form[u]] /\ name = [u \in Submissions |-> name[u]]
      /\ "secrets" \in Names /\ "identities" \in Names
  BY <1>1 DEF TypeInv, TypeOK, Typing, Names
<1>3. CASE t # s
  <2>1. /\ pc'[t] = pc[t] /\ form'[t] = form[t] /\ name'[t] = name[t] /\ at'[t] = at[t]
        /\ pc[t] \in AtRest
    BY <1>1, <1>3, HandleFacts, OnlyOne
  <2> QED
    BY <1>1, <2>1 DEF FillFits, Entry, AtRest
<1>4. CASE t = s /\ form[s].kind # "fill"
  BY <1>1, <1>4, HandleFacts DEF FillFits
<1>5. CASE t = s /\ form[s].kind = "fill"
  <2>0. form'[s].kind = "fill"
    BY <1>1, <1>5, HandleFacts
  <2>1. pc[s] \in {"reading", "writing", "filling"} => at[s] = 1 /\ File(s) = "secrets"
    <3>1. SUFFICES ASSUME pc[s] \in {"reading", "writing", "filling"}
                   PROVE  at[s] = 1 /\ File(s) = "secrets"
      OBVIOUS
    <3>2. at[s] \in 1 .. Len(Order(form[s].kind)) /\ File(s) = Order(form[s].kind)[at[s]]
      BY <1>1, <3>1, FileFacts
    <3> QED
      BY <1>5, <3>2, OrderFacts
  <2>2. CASE Incomplete(s)
    <3>1. at'[s] = 1 /\ pc'[s] = "finishing"
      BY <1>1, <1>2, <1>5, <2>2 DEF Incomplete, Fail, PlaceFits
    <3> QED
      BY <1>5, <3>1 DEF FillFits
  <2>3. CASE KnowAccount(s)
    <3>1. at'[s] = 1 /\ pc'[s] \in {"finishing", "signing"} /\ files' = files
      BY <1>1, <1>2, <2>3 DEF KnowAccount, Fail, PlaceFits
    <3>2. ASSUME NEW i \in files["identities"], name' = [name EXCEPT ![s] = i.name],
                 form' = [form EXCEPT ![s].environment = i.environment]
          PROVE  Entry(s, "secrets")' \in files["identities"]
      <4>1. name'[s] = i.name /\ form'[s].environment = i.environment
        <5>1. form'[s] = [form[s] EXCEPT !.environment = i.environment] /\ Shaped(form[s])
          BY <1>1, <1>2, <3>2 DEF PlaceFits
        <5> QED
          BY <1>2, <3>2, <5>1 DEF Shaped
      <4>2. i = [name |-> i.name, environment |-> i.environment]
        BY <3>2 DEF UseInv, IdentitiesShaped, Held
      <4> QED
        BY <4>1, <4>2, <3>2 DEF Entry
    <3>3. pc'[s] = "signing" => Entry(s, "secrets")' \in files["identities"]
      BY <1>2, <2>3, <3>2 DEF KnowAccount, Fail
    <3> QED
      BY <1>5, <3>1, <3>3 DEF FillFits
  <2>4. CASE VerifyLogin(s)
    <3>1. /\ at'[s] = 1 /\ pc'[s] \in {"finishing", "reading"} /\ pc[s] = "signing"
          /\ UNCHANGED <<files, form, name>>
      BY <1>1, <1>2, <2>4 DEF VerifyLogin, Fail, PlaceFits
    <3> QED
      BY <1>1, <1>5, <3>1 DEF FillFits, Entry
  <2>5. CASE Raise(s)
    <3>1. at'[s] = 1 /\ pc'[s] = "answered"
      BY <1>1, <1>2, <2>1, <2>5 DEF Raise, PlaceFits
    <3> QED
      BY <1>5, <3>1 DEF FillFits
  <2>6. CASE Read(s)
    <3>1. /\ pc[s] = "reading" /\ at'[s] = 1 /\ pc'[s] = "writing" /\ ~Refused(s)
          /\ UNCHANGED <<files, form, name>>
      BY <1>2, <1>5, <2>1, <2>6 DEF Read, NotNeeded
    <3>2. Entry(s, "secrets") \in files["identities"] /\ Entry(s, "secrets") \notin files["secrets"]
      BY <1>1, <1>5, <2>1, <3>1 DEF FillFits, Refused, Taken
    <3>3. Filling("secrets") = {}
      BY <1>1, <3>1, OnlyOne DEF Filling
    <3>4. torn["secrets"] = {} => Entry(s, "secrets") \in Given
      BY <1>1, <3>2, <3>3, FoundByHand
    <3>5. Entry(s, "secrets")' = Entry(s, "secrets")
      BY <3>1 DEF Entry
    <3> QED
      BY <1>1, <1>5, <3>1, <3>4, <3>5 DEF FillFits
  <2>7. CASE Open(s)
    <3>1. /\ pc[s] = "writing" /\ at'[s] = 1 /\ pc'[s] = "filling" /\ UNCHANGED <<form, name>>
      BY <1>2, <2>1, <2>7 DEF Open
    <3> QED
      BY <1>1, <1>5, <3>1 DEF FillFits, Entry
  <2>8. CASE Fill(s)
    <3>1. /\ pc[s] = "filling" /\ pc'[s] = "finishing" /\ UNCHANGED <<form, name>>
      BY <1>2, <1>5, <2>1, <2>8, OrderFacts DEF Fill, NextFile
    <3> QED
      BY <1>1, <1>5, <3>1 DEF FillFits, Entry
  <2>9. CASE Finish(s)
    <3>1. /\ pc[s] = "finishing" /\ pc'[s] = "answering" /\ at' = at /\ UNCHANGED <<form, name>>
      BY <1>2, <2>9 DEF Finish
    <3>2. at[s] = 2 => Entry(s, "secrets") \in Has(environ)'
      BY <1>1, <1>5, <2>9, <3>1 DEF AnswerFits, Fills
    <3>3. Entry(s, "secrets")' = Entry(s, "secrets")
      BY <3>1 DEF Entry
    <3> QED
      BY <1>1, <1>5, <3>1, <3>2, <3>3 DEF FillFits
  <2>10. CASE Answer(s)
    <3>1. /\ pc[s] = "answering" /\ pc'[s] = "answered" /\ at' = at /\ UNCHANGED <<form, name>>
      BY <1>2, <2>10 DEF Answer
    <3> QED
      BY <1>1, <1>5, <3>1 DEF FillFits, Entry
  <2>11. ~ChooseName(s) /\ ~CheckEnvironment(s) /\ ~CheckName(s) /\ ~SignIn(s) /\ ~Exit(s)
    BY <1>1, <1>5 DEF ChooseName, CheckEnvironment, CheckName, SignIn, Exit, PlaceFits, Wizard
  <2> QED
    BY <2>2, <2>3, <2>4, <2>5, <2>6, <2>7, <2>8, <2>9, <2>10, <2>11 DEF Handle
<1> QED
  BY <1>3, <1>4, <1>5

\* A process that begins has every secret that is in a whole file.
LEMMA LoadsFit ==
    ASSUME UseInv, Loads, UNCHANGED <<form, name, at, files>>,
           torn'["secrets"] = {} => torn["secrets"] = {} /\ Filling("secrets") = {},
           \A t \in Submissions : pc'[t] \in AtRest
    PROVE  ValuesFit' /\ \A t \in Submissions : FillFits(t)'
<1>1. environ' = {AsRead(i) : i \in files["secrets"]} /\ filled' = {}
  BY DEF Loads, LoadDotenv, Has
<1>2. /\ torn'["secrets"] = {} => torn["secrets"] = {} /\ Held("secrets") = files["secrets"]
      /\ Has(environ)' = files["secrets"]
  <2>1. \A i : AsRead(i).account = i
    BY DEF AsRead
  <2>2. Has(environ)' = files["secrets"]
    BY <1>1, <2>1 DEF Has
  <2> QED
    BY <2>2 DEF Held
<1>3. ValuesFit'
  BY <1>1 DEF ValuesFit, AsRead
<1>4. ASSUME NEW t \in Submissions PROVE FillFits(t)'
  <2>1. FillFits(t) /\ FormFits(t) /\ pc'[t] \in AtRest
    BY DEF UseInv, OrderInv
  <2>2. SUFFICES ASSUME form[t].kind = "fill", at[t] = 2, torn'["secrets"] = {}
                 PROVE  Entry(t, "secrets") \in Given /\ Entry(t, "secrets") \in files["secrets"]
    BY <1>1, <1>2, <2>1 DEF FillFits, Entry, AtRest
  <2>3. Entry(t, "secrets") \in Given
    BY <1>2, <2>1, <2>2 DEF FillFits
  <2>4. EntryHeld(t, 1)
    BY <2>1, <2>2 DEF FormFits
  <2>5. Order("fill")[1] = "secrets"
    BY OrderFacts
  <2>6. Entry(t, "secrets") \in Held("secrets")
    BY <1>2, <2>2, <2>4, <2>5 DEF EntryHeld
  <2> QED
    BY <1>2, <2>2, <2>3, <2>6
<1> QED
  BY <1>3, <1>4

\* Only its exit ends a script.
LEMMA ScriptGoesOn ==
    ASSUME UseInv, NEW s \in Submissions, Handle(s), ~Exit(s), NoScript'
    PROVE  NoScript
<1>1. /\ TypeInv /\ PlaceFits(s) /\ AnswerFits(s) /\ pc \in [Submissions -> Positions]
      /\ at \in [Submissions -> Nat]
  BY DEF UseInv, OrderInv, TypeInv, TypeOK, Typing
<1>2. /\ form'[s].kind = form[s].kind
      /\ \A t \in Submissions \ {s} : pc'[t] = pc[t] /\ form'[t] = form[t]
  BY <1>1, HandleFacts
<1>3. form[s].kind = "script" => pc'[s] \notin AtRest
  <2>1. SUFFICES ASSUME form[s].kind = "script" PROVE pc'[s] \notin AtRest
    OBVIOUS
  <2>2. ~Raise(s) /\ ~Answer(s) /\ ~Finish(s) /\ ~KnowAccount(s) /\ ~VerifyLogin(s)
    BY <1>1, <2>1 DEF Raise, Answer, Finish, KnowAccount, VerifyLogin, From, AnswerFits, PlaceFits
  <2>3. CASE Incomplete(s) \/ ChooseName(s) \/ CheckEnvironment(s) \/ CheckName(s) \/ SignIn(s)
    BY <1>1, <2>3 DEF Incomplete, ChooseName, CheckEnvironment, CheckName, SignIn, Fail, Goto, AtRest
  <2>4. CASE Read(s) \/ Open(s) \/ Fill(s)
    BY <1>1, <2>4 DEF Read, Open, Fill, NextFile, Fail, Goto, AtRest
  <2> QED
    BY <2>2, <2>3, <2>4 DEF Handle
<1> QED
  BY <1>2, <1>3 DEF NoScript, Busy

\* A form that this process has filled in has only its answer to come.
LEMMA FilledGoesOn ==
    ASSUME UseInv, NEW s \in Submissions, Handle(s), NEW t \in filled
    PROVE  /\ t \in Submissions /\ pc'[t] \in {"answering", "answered", "dead"}
           /\ Entry(t, "secrets")' = Entry(t, "secrets")
<1>1. /\ t \in Submissions /\ pc[t] \in {"answering", "answered", "dead"}
      /\ TypeInv /\ Busy(s) /\ pc \in [Submissions -> Positions]
  BY HandleFacts DEF UseInv, OrderInv, TypeInv, TypeOK, ValuesFit
<1>2. CASE t # s
  BY <1>1, <1>2, HandleFacts DEF Entry
<1>3. CASE t = s
  <2>1. pc[s] = "answering"
    BY <1>1, <1>3 DEF Busy, AtRest
  <2>2. Answer(s)
    BY <2>1 DEF Handle, Incomplete, ChooseName, CheckEnvironment, CheckName, KnowAccount, SignIn,
                VerifyLogin, Raise, Read, Open, Fill, Finish, Exit, From
  <2>3. UNCHANGED <<form, name>> /\ pc'[s] = "answered"
    BY <1>1, <2>2 DEF Answer, Goto
  <2> QED
    BY <1>1, <1>3, <2>3 DEF Entry
<1> QED
  BY <1>2, <1>3

\* Nobody reads what the process has as long as the environment is as it is.
LEMMA ValuesStay ==
    ASSUME UseInv, NEW s \in Submissions, Handle(s), UNCHANGED <<environ, filled>>
    PROVE  ValuesFit'
<1>1. ASSUME NEW t \in filled
      PROVE  /\ t \in Submissions /\ pc'[t] \in {"answering", "answered", "dead"}
             /\ Entry(t, "secrets")' \in Has(environ)
             /\ \A x \in environ : x.account = Entry(t, "secrets")' => x.value = "typed"
  BY <1>1, FilledGoesOn DEF UseInv, ValuesFit
<1> QED
  BY <1>1 DEF UseInv, ValuesFit, Has

LEMMA ExportFits ==
    ASSUME UseInv, NEW s \in Submissions, Settle(s)
    PROVE  /\ ValuesFit' /\ Has(environ) \subseteq Has(environ)'
           /\ Fills(s) => Entry(s, "secrets") \in Has(environ)'
<1> DEFINE e == Entry(s, "secrets")
<1>1. /\ Handle(s) /\ Finish(s) /\ Export(s) /\ UNCHANGED <<form, name>> /\ pc'[s] = "answering"
  <2>1. pc \in [Submissions -> Positions] /\ Finish(s) /\ Export(s)
    BY DEF UseInv, OrderInv, TypeInv, TypeOK, Settle
  <2> QED
    BY <2>1 DEF Handle, Finish, Goto
<1>2. CASE ~Fills(s)
  <2>1. UNCHANGED <<environ, filled>>
    BY <1>1, <1>2 DEF Export
  <2> QED
    BY <1>1, <1>2, <2>1, ValuesStay DEF Has
<1>3. CASE Fills(s)
  <2>1. /\ environ' = {x \in environ : x.account # e} \cup {Typed(e)}
        /\ filled' = filled \cup {s}
    BY <1>1, <1>3 DEF Export
  <2>2. Typed(e).account = e /\ Typed(e).value = "typed"
    BY DEF Typed
  <2>3. /\ e \in Has(environ)' /\ Has(environ) \subseteq Has(environ)'
        /\ \A x \in environ' : x \in environ \/ x.value = "typed"
        /\ \A x \in environ' : x.account = e => x.value = "typed"
    BY <2>1, <2>2 DEF Has
  <2>4. ASSUME NEW t \in filled'
        PROVE  /\ t \in Submissions /\ pc'[t] \in {"answering", "answered", "dead"}
               /\ Entry(t, "secrets")' = Entry(t, "secrets")
               /\ Entry(t, "secrets") \in Has(environ)'
               /\ \A x \in environ' : x.account = Entry(t, "secrets") => x.value = "typed"
    <3>1. CASE t = s
      BY <1>1, <2>3, <3>1 DEF Entry
    <3>2. CASE t \in filled
      BY <1>1, <2>3, <3>2, FilledGoesOn DEF UseInv, ValuesFit
    <3> QED
      BY <2>1, <2>4, <3>1, <3>2
  <2>5. \A x \in environ' : x.value = "typed" \/ x.account \in Quoted
    BY <2>3 DEF UseInv, ValuesFit
  <2> QED
    BY <2>3, <2>4, <2>5 DEF ValuesFit
<1> QED
  BY <1>2, <1>3

LEMMA ServeKeepsUse ==
    ASSUME UseInv, NEW s \in Submissions, Serve(s)
    PROVE  UseInv'
<1>1. Handle(s) /\ OrderInv
  BY DEF Serve, Handle, Settle, Started, UseInv
<1>2. /\ OrderInv' /\ IdentitiesShaped' /\ torn' = torn
      /\ \A t \in Submissions : AnswerFits(t)'
  BY <1>1, HandleKeepsOrder, ShapesStay, AnswersFit, HandleFacts DEF OrderInv
<1>3. CASE Started(s)
  <2>1. /\ Exit(s) /\ Loads /\ pc[s] = "finishing" /\ pc'[s] = "answered"
        /\ UNCHANGED <<form, name, at, files>>
    BY <1>1, <1>3 DEF Started, Exit, From, Goto, OrderInv, TypeInv, TypeOK
  <2>2. \A t \in Submissions \ {s} : pc'[t] = pc[t] /\ pc[t] \in AtRest
    BY <1>1, OnlyOne, HandleFacts DEF OrderInv
  <2>3. Filling("secrets") = {} /\ \A t \in Submissions : pc'[t] \in AtRest
    BY <2>1, <2>2 DEF Filling, From, AtRest
  <2> QED
    BY <1>2, <2>1, <2>3, LoadsFit DEF UseInv
<1>4. CASE Settle(s)
  <2>1. /\ Finish(s) /\ Has(environ) \subseteq Has(environ)' /\ ValuesFit'
        /\ Fills(s) => Entry(s, "secrets") \in Has(environ)'
    BY <1>4, ExportFits DEF Settle
  <2>2. ~Exit(s)
    BY <2>1 DEF Finish, Exit
  <2>3. \A t \in Submissions : FillFits(t)'
    BY <1>1, <2>1, <2>2, FillsFit, ScriptGoesOn
  <2> QED
    BY <1>2, <2>1, <2>3 DEF UseInv
<1>5. CASE UNCHANGED assistantVars /\ ~Exit(s) /\ ~Finish(s)
  <2>0. UNCHANGED <<environ, filled>> /\ Has(environ)' = Has(environ)
    BY <1>5 DEF assistantVars, Has
  <2>1. \A t \in Submissions : FillFits(t)'
    BY <1>1, <1>5, <2>0, FillsFit, ScriptGoesOn
  <2>2. ValuesFit'
    BY <1>1, <2>0, ValuesStay
  <2> QED
    BY <1>2, <2>1, <2>2 DEF UseInv
<1>6. ASSUME Exit(s) \/ Finish(s) PROVE Started(s) \/ Settle(s)
  <2>1. pc[s] = "finishing"
    BY <1>6 DEF Exit, Finish, From
  <2>2. CASE Exit(s)
    <3>1. form[s].kind = "script" /\ result' = result /\ pc'[s] = "answered" /\ at' = at
      BY <1>1, <2>2 DEF Exit, Goto, OrderInv, TypeInv, TypeOK
    <3> QED
      BY <2>1, <3>1 DEF Serve, Incomplete, ChooseName, CheckEnvironment, CheckName, KnowAccount,
                        SignIn, VerifyLogin, Raise, Read, Open, Fill, Answer, Settle, Finish, From
  <2>3. CASE Finish(s)
    <3>1. form[s].kind # "script"
      BY <2>3 DEF Finish
    <3> QED
      BY <2>1, <3>1 DEF Serve, Incomplete, ChooseName, CheckEnvironment, CheckName, KnowAccount,
                        SignIn, VerifyLogin, Raise, Read, Open, Fill, Answer, Settle, Started,
                        Exit, From
  <2> QED
    BY <1>6, <2>2, <2>3
<1> QED
  BY <1>3, <1>4, <1>5, <1>6 DEF Serve

LEMMA SendKeepsUse ==
    ASSUME Overlap = FALSE, UseInv, NEW s \in Submissions, NEW f \in Forms,
           (Submit(s, f) /\ UNCHANGED assistantVars) \/ Launch(s, f)
    PROVE  UseInv'
<1>1. /\ OrderInv' /\ TypeInv /\ PlaceFits(s) /\ FormFits(s) /\ f.kind \in Kinds
  BY SubmitKeepsOrder, SetupAssumption DEF Launch, UseInv, OrderInv, TypeInv, SetupAssumption, Kinds
<1>2. /\ pc[s] = "off" /\ \A t \in Submissions : ~Busy(t)
      /\ form' = [form EXCEPT ![s] = f] /\ UNCHANGED <<name, at, seen, result, answer, files, torn, rigid>>
      /\ \E w \in {"choosing", "knowing", "reading"} : pc' = [pc EXCEPT ![s] = w]
      /\ pc'[s] = "reading" => f.kind = "public"
      /\ status'.state \in {"running", "waiting"}
  <2>1. CASE Submit(s, f)
    BY <1>1, <2>1 DEF Submit, IsNext, From, Goto, TypeInv, TypeOK, Kinds
  <2>2. CASE RunScript(s, f)
    BY <1>1, <2>2 DEF RunScript, IsNext, From, Goto, TypeInv, TypeOK
  <2> QED
    BY <2>1, <2>2 DEF Launch
<1>3. /\ \A t \in Submissions \ {s} : pc'[t] = pc[t] /\ form'[t] = form[t] /\ pc[t] \in AtRest
      /\ form'[s] = f /\ at[s] = 1 /\ pc'[s] \in {"choosing", "knowing", "reading"}
      /\ result[s] = "none"
  BY <1>1, <1>2 DEF TypeInv, TypeOK, Typing, PlaceFits, FormFits, Busy
<1>4. \A t \in Submissions : AnswerFits(t)'
  <2>1. \A t \in Submissions : status' # [state |-> "done", of |-> t]
    BY <1>2
  <2>2. AnswerFits(s) /\ FillFits(s)
    BY DEF UseInv
  <2>3. AnswerFits(s)'
    BY <1>2, <1>3, <2>1, <2>2 DEF AnswerFits
  <2>4. ASSUME NEW t \in Submissions, t # s PROVE AnswerFits(t)'
    BY <1>2, <1>3, <2>1, <2>4 DEF AnswerFits, UseInv
  <2> QED
    BY <2>3, <2>4
<1>5. IdentitiesShaped'
  <2>1. Held("identities")' = Held("identities")
    BY <1>2, <1>3 DEF Held, Filling, From, Busy, AtRest
  <2> QED
    BY <2>1 DEF UseInv, IdentitiesShaped
<1>6. ValuesFit'
  <2>1. CASE Launch(s, f)
    BY <2>1 DEF Launch, ValuesFit, Has
  <2>2. CASE UNCHANGED assistantVars
    <3>1. \A t \in filled : t # s /\ Entry(t, "secrets")' = Entry(t, "secrets") /\ pc'[t] = pc[t]
      BY <1>2, <1>3 DEF UseInv, ValuesFit, Entry
    <3> QED
      BY <2>2, <3>1 DEF UseInv, ValuesFit, assistantVars, Has
  <2> QED
    BY <2>1, <2>2
<1>7. ASSUME NEW t \in Submissions PROVE FillFits(t)'
  <2>1. CASE t = s
    BY <1>2, <1>3, <2>1 DEF FillFits
  <2>2. CASE t # s
    <3>1. FillFits(t) /\ NoScript /\ Entry(t, "secrets")' = Entry(t, "secrets")
      BY <1>2, <1>3, <2>2 DEF UseInv, NoScript, Entry
    <3>2. NoScript' => Has(environ)' = Has(environ)
      <4>1. SUFFICES ASSUME Launch(s, f) PROVE ~NoScript'
        BY DEF assistantVars, Has
      <4>2. f.kind = "script"
        BY <4>1 DEF Launch, RunScript
      <4> QED
        BY <1>3, <4>2 DEF NoScript, Busy, AtRest
    <3> QED
      BY <1>2, <1>3, <2>2, <3>1, <3>2 DEF FillFits, AtRest
  <2> QED
    BY <2>1, <2>2
<1> QED
  BY <1>1, <1>4, <1>5, <1>6, <1>7 DEF UseInv

LEMMA RestartKeepsUse ==
    ASSUME UseInv, Restart
    PROVE  UseInv'
<1>1. /\ OrderInv' /\ Loads /\ ServerStops
      /\ \A t \in Submissions : pc'[t] = IF Busy(t) THEN "dead" ELSE pc[t]
      /\ torn'["secrets"] = IF Closed("secrets") THEN torn["secrets"]
                            ELSE {t \in Submissions : pc[t] # "off"}
      /\ UNCHANGED <<form, name, at, result, answer, files>>
      /\ status' = [state |-> "waiting", of |-> Nobody]
  BY StopKeepsOrder DEF Restart, ServerStops, Names, From, UseInv
<1>2. \A t \in Submissions : pc'[t] \in AtRest
  BY <1>1 DEF Busy, AtRest
<1>3. torn'["secrets"] = {} => torn["secrets"] = {} /\ Filling("secrets") = {}
  <2>1. SUFFICES ASSUME torn'["secrets"] = {} PROVE Closed("secrets")
    BY <1>1 DEF Closed, Filling
  <2> QED
    BY <1>1, <2>1 DEF Closed, From
<1>4. ValuesFit' /\ \A t \in Submissions : FillFits(t)'
  BY <1>1, <1>2, <1>3, LoadsFit
<1>5. ASSUME NEW t \in Submissions PROVE AnswerFits(t)'
  <2>1. AnswerFits(t) /\ status' # [state |-> "done", of |-> t]
    BY <1>1 DEF UseInv
  <2> QED
    BY <1>1, <1>2, <2>1 DEF AnswerFits, AtRest, Busy
<1>6. IdentitiesShaped'
  <2>1. Held("identities")' \subseteq Held("identities")
    BY <1>1, <1>2 DEF Held, Filling, From, AtRest
  <2> QED
    BY <2>1 DEF UseInv, IdentitiesShaped
<1> QED
  BY <1>1, <1>4, <1>5, <1>6 DEF UseInv

\* The page is shown, or opened anew, or nothing happens.
LEMMA ShownKeepsUse ==
    ASSUME UseInv, Render \/ OpenAnew \/ UNCHANGED allVars, OrderInv'
    PROVE  UseInv'
<1>1. /\ UNCHANGED <<pc, form, name, at, seen, result, answer, files, torn, filled>>
      /\ environ' = environ \/ environ' = LoadDotenv(environ)
      /\ status' = status \/ status'.state = "waiting"
  BY DEF Render, OpenAnew, allVars, assistantVars, vars, threadVars
<1>2. Held("identities")' = Held("identities") /\ Has(environ) \subseteq Has(environ)'
  BY <1>1, HasMore DEF Held, Filling, From, File, Has
<1>3. IdentitiesShaped' /\ ValuesFit'
  <2>1. IdentitiesShaped'
    BY <1>1, <1>2 DEF UseInv, IdentitiesShaped
  <2>2. ASSUME NEW x \in environ'
        PROVE  \/ x \in environ
               \/ x.account \notin Has(environ) /\ (x.value = "typed" \/ x.account \in Quoted)
    BY <1>1, <2>2 DEF LoadDotenv, AsRead
  <2>3. \A s \in filled : Entry(s, "secrets")' = Entry(s, "secrets")
    BY <1>1 DEF Entry
  <2>4. ValuesFit'
    BY <1>1, <1>2, <2>2, <2>3 DEF UseInv, ValuesFit
  <2> QED
    BY <2>1, <2>4
<1>4. ASSUME NEW t \in Submissions PROVE FillFits(t)' /\ AnswerFits(t)'
  <2>1. FillFits(t) /\ AnswerFits(t)
    BY DEF UseInv
  <2>2. status' = [state |-> "done", of |-> t] => status' = status
    BY <1>1
  <2>3. AnswerFits(t)'
    BY <1>1, <2>1, <2>2 DEF AnswerFits
  <2>4. (NoScript' <=> NoScript) /\ Entry(t, "secrets")' = Entry(t, "secrets")
    BY <1>1 DEF NoScript, Busy, Entry
  <2> QED
    BY <1>1, <1>2, <2>1, <2>3, <2>4 DEF FillFits
<1> QED
  BY <1>3, <1>4 DEF UseInv

\* An account that the page said is in place can be used by the process that serves it, through
\* any number of restarts, scripts and other forms.
THEOREM FilledAreUsable ==
    ASSUME Overlap = FALSE
    PROVE  AssistantSpec => []FilledIsUsable
<1>1. AssistantInit => UseInv
  BY InitUsable
<1>2. UseInv /\ [AssistantNext]_allVars => UseInv'
  <2> SUFFICES ASSUME UseInv, [AssistantNext]_allVars PROVE UseInv'
    OBVIOUS
  <2>1. OrderInv'
    BY AssistantStep, StepKeepsOrder, OpenKeepsOrder DEF UseInv
  <2> QED
    BY <2>1, ServeKeepsUse, SendKeepsUse, RestartKeepsUse, ShownKeepsUse DEF AssistantNext
<1>3. UseInv => FilledIsUsable
  BY UseGives
<1> QED
  BY <1>1, <1>2, <1>3, PTL DEF AssistantSpec
=============================================================================
