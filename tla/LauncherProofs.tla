--------------------------- MODULE LauncherProofs ---------------------------
(***************************************************************************)
(* What holds of the launcher for any number of launches and versions,     *)
(* and what its lock is worth to two launches.                             *)
(***************************************************************************)
EXTENDS LauncherCmd, TLAPS

Done == {"exec", "serving", "died", "vanished", "killed"}
Before == {"off"} \cup Waiting

\* What the stages are to the lock: most move on within the setup ...
Advance(l) ==
    /\ pc[l] \in InSetup
    /\ \E w \in InSetup : pc' = [pc EXCEPT ![l] = w]
    /\ UNCHANGED <<waited, lockVars>>

\* ... some end it and release what the launch believes to hold ...
Leave(l) ==
    /\ pc[l] \in InSetup
    /\ \E w \in Done : pc' = [pc EXCEPT ![l] = w]
    /\ ReleaseLock(l) /\ UNCHANGED waited

\* ... and the last one is past it.
Finish(l) ==
    /\ pc[l] = "exec"
    /\ \E w \in Done : pc' = [pc EXCEPT ![l] = w]
    /\ UNCHANGED <<waited, lockVars>>

LEMMA StageKinds ==
    ASSUME NEW l \in Launches, Stage(l)
    PROVE  Advance(l) \/ Leave(l) \/ Finish(l)
<1> USE DEF From, Goto, StageUnchanged, Die, Advance, Leave, Finish, InSetup,
            BeforeInstall, AfterInstall, Done, lockVars
<1>1. PrepareRuntime(l) => Advance(l) \/ Leave(l)
  BY DEF PrepareRuntime
<1>2. Compare(l) => Advance(l)
  BY DEF Compare
<1>3. Rewrite(l) \/ Installed(l) \/ WriteStamp(l) => Advance(l)
  BY DEF Rewrite, Installed, WriteStamp
<1>4. InstallFails(l) \/ CopyFails(l) => Leave(l)
  BY DEF InstallFails, CopyFails
<1>5. MakeWorkspace(l) \/ Copied(l) => Advance(l)
  BY DEF MakeWorkspace, Copied
<1>6. Provision(l) \/ FetchBrowser(l) => Advance(l)
  BY DEF Provision, FetchBrowser
<1>7. CheckServer(l) => Advance(l) \/ Leave(l)
  BY DEF CheckServer
<1>8. Release(l) => Leave(l)
  BY DEF Release
<1>9. Exec(l) => Finish(l)
  BY DEF Exec
<1> QED
  BY <1>1, <1>2, <1>3, <1>4, <1>5, <1>6, <1>7, <1>8, <1>9 DEF Stage

-----------------------------------------------------------------------------
(***************************************************************************)
(* Types, and the lock a launch leaves behind: for every launcher.         *)
(***************************************************************************)

\* A launch that still waits has not used up its patience.
Patient == \A l \in Launches : pc[l] \in Before => waited[l] < Patience

\* Whoever began, and whoever downloads, knows its version.
Versioned == \A l \in Launches : version[l] = NoVersion => pc[l] = "off" /\ l \notin fetching

TypeInv == TypeOK /\ Patient /\ Versioned

LEMMA TypeInit == Init => TypeInv
<1> SUFFICES ASSUME Init PROVE TypeInv
  OBVIOUS
<1>1. /\ python \in BOOLEAN /\ config \in {"absent", "partial", "whole"}
      /\ package \in Versions \cup {NoVersion, Torn} /\ stamp \in Versions \cup {NoVersion}
  BY DEF Init
<1>2. pc \in [Launches -> Positions] /\ haveLock \in [Launches -> BOOLEAN]
  BY DEF Init, Positions
<1>3. /\ version \in [Launches -> Versions \cup {NoVersion}]
      /\ lock \in Launches \cup {NoLaunch} /\ provisioned \in BOOLEAN
      /\ fetching \subseteq Launches /\ verified \subseteq Versions
  BY DEF Init
<1>4. waited \in [Launches -> 0 .. Patience] /\ age \in 0 .. StaleAge
  BY LauncherAssumption DEF Init
<1>5. Patient /\ Versioned
  BY LauncherAssumption DEF Init, Patient, Versioned
<1>6. writer \in Launches \cup {NoLaunch}
  BY DEF Init
<1> QED
  BY <1>1, <1>2, <1>3, <1>4, <1>5, <1>6 DEF TypeInv, TypeOK

LEMMA TypeStage ==
    ASSUME TypeInv, NEW l \in Launches, Stage(l)
    PROVE  TypeInv'
<1> USE LauncherAssumption DEF TypeInv, TypeOK, Patient, Versioned, Positions, Before, Waiting, InSetup,
        BeforeInstall, AfterInstall, From, Goto, StageUnchanged, Die, ReleaseLock,
        lockVars, installVars, workspaceVars, browserVars
<1>1. CASE PrepareRuntime(l)
  <2>1. CASE python' = TRUE /\ Goto(l, "comparing")
    BY <1>1, <2>1 DEF PrepareRuntime
  <2>2. CASE UNCHANGED python /\ Die(l)
    BY <1>1, <2>2 DEF PrepareRuntime
  <2> QED
    BY <1>1, <2>1, <2>2 DEF PrepareRuntime
<1>2. CASE Compare(l)
  BY <1>2 DEF Compare
<1>3. CASE Rewrite(l)
  BY <1>3 DEF Rewrite
<1>4. CASE Installed(l) \/ WriteStamp(l)
  <2>1. version[l] \in Versions \cup {NoVersion}
    OBVIOUS
  <2> QED
    BY <2>1, <1>4 DEF Installed, WriteStamp
<1>5. CASE InstallFails(l) \/ CopyFails(l)
  BY <1>5 DEF InstallFails, CopyFails
<1>6. CASE MakeWorkspace(l) \/ Copied(l)
  BY <1>6 DEF MakeWorkspace, Copied
<1>7. CASE Provision(l) \/ FetchBrowser(l)
  <2>1. CASE Provision(l)
    BY <2>1 DEF Provision
  <2>2. CASE FetchBrowser(l)
    BY <2>2 DEF FetchBrowser
  <2> QED
    BY <1>7, <2>1, <2>2
<1>8. CASE CheckServer(l) \/ Release(l) \/ Exec(l)
  <2>1. CASE CheckServer(l)
    BY <2>1 DEF CheckServer
  <2>2. CASE Release(l)
    BY <2>2 DEF Release
  <2>3. CASE Exec(l)
    BY <2>3 DEF Exec
  <2> QED
    BY <1>8, <2>1, <2>2, <2>3
<1> QED
  BY <1>1, <1>2, <1>3, <1>4, <1>5, <1>6, <1>7, <1>8 DEF Stage

LEMMA TypeWait ==
    ASSUME TypeInv, NEW l \in Launches, Wait(l)
    PROVE  TypeInv'
<1> USE LauncherAssumption DEF TypeInv, TypeOK, Patient, Versioned, Positions, Before, Waiting, InSetup,
        BeforeInstall, From, Goto, lockVars, installVars, workspaceVars, browserVars
<1>1. CASE Take(l)
  BY <1>1 DEF Take
<1>2. CASE FindTaken(l) \/ Look(l)
  BY <1>2 DEF FindTaken, Look
<1>3. CASE Clear(l)
  BY <1>3 DEF Clear
<1> QED
  BY <1>1, <1>2, <1>3 DEF Wait

LEMMA TypeTick == TypeInv /\ Tick => TypeInv'
<1> SUFFICES ASSUME TypeInv, Tick PROVE TypeInv'
  OBVIOUS
<1> USE LauncherAssumption DEF Tick, From
<1>1. pc' \in [Launches -> Positions]
  BY DEF TypeInv, TypeOK, Positions, Waiting, InSetup, BeforeInstall
<1>2. ASSUME NEW m \in Launches
      PROVE  waited'[m] \in 0 .. Patience /\ (pc'[m] \in Before => waited'[m] < Patience)
  BY <1>2 DEF TypeInv, TypeOK, Patient, Before, Waiting
<1>3. waited' \in [Launches -> 0 .. Patience]
  BY <1>2
<1>4. age' \in 0 .. StaleAge
  BY DEF TypeInv, TypeOK
<1>5. Versioned'
  BY DEF TypeInv, TypeOK, Versioned, browserVars
<1> QED
  BY <1>1, <1>2, <1>3, <1>4, <1>5
     DEF TypeInv, TypeOK, Patient, Versioned, installVars, workspaceVars, browserVars

LEMMA TypeStep == TypeInv /\ [Next]_vars => TypeInv'
<1> SUFFICES ASSUME TypeInv, [Next]_vars PROVE TypeInv'
  OBVIOUS
<1> USE LauncherAssumption DEF TypeInv, TypeOK, Patient, Versioned, Positions, Before, Waiting, InSetup,
        Goto, From, ReleaseLock, StageUnchanged, lockVars, installVars, workspaceVars, browserVars
<1>1. ASSUME NEW l \in Launches, NEW v \in Versions, Launch(l, v) PROVE TypeInv'
  BY <1>1 DEF Launch
<1>2. ASSUME NEW l \in Launches, Wait(l) PROVE TypeInv'
  BY <1>2, TypeWait
<1>3. ASSUME NEW l \in Launches, Stage(l) PROVE TypeInv'
  BY <1>3, TypeStage
<1>4. ASSUME NEW l \in Launches, Fetched(l) PROVE TypeInv'
  <2>1. version[l] \in Versions
    BY <1>4 DEF Fetched
  <2> QED
    BY <1>4, <2>1 DEF Fetched
<1>5. ASSUME NEW l \in Launches, Interrupted(l) PROVE TypeInv'
  <2>1. CASE Signal(l)
    BY <1>5, <2>1 DEF Interrupted, Elsewhere, Signal
  <2>2. CASE Kill(l)
    BY <1>5, <2>2 DEF Interrupted, Elsewhere, Kill, BeforeInstall, AfterInstall
  <2> QED
    BY <1>5, <2>1, <2>2 DEF Interrupted
<1>6. CASE Tick
  BY <1>6, TypeTick
<1>7. CASE UNCHANGED vars
  BY <1>7 DEF vars
<1> QED
  BY <1>1, <1>2, <1>3, <1>4, <1>5, <1>6, <1>7 DEF Next
\* Launcher is well typed: no launch tries more often than its patience, and whoever
\* stamps a version or a browser knows which (the waiting loop and the stages).
THEOREM TypeCorrect == Spec => []TypeOK
<1>1. TypeInv => TypeOK
  BY DEF TypeInv
<1> QED
  BY <1>1, TypeInit, TypeStep, PTL DEF Spec

\* A launch that waits has never had the lock, and the owner of a lock knows that it has it.
Owned ==
    /\ \A l \in Launches : pc[l] \in Before => ~haveLock[l]
    /\ lock # NoLaunch => haveLock[lock]

LockInv == TypeInv /\ Owned /\ NoLockLeftBehind

LEMMA LockInit == Init => LockInv
  BY TypeInit, LauncherAssumption DEF Init, LockInv, Owned, NoLockLeftBehind

LEMMA LockStep == LockInv /\ [Next]_vars => LockInv'
<1> SUFFICES ASSUME LockInv, [Next]_vars PROVE LockInv'
  OBVIOUS
<1>0. TypeInv'
  BY TypeStep DEF LockInv
<1> SUFFICES Owned' /\ NoLockLeftBehind'
  BY <1>0 DEF LockInv
<1> USE LauncherAssumption DEF LockInv, TypeInv, TypeOK, Owned, NoLockLeftBehind, Before, Waiting,
        InSetup, BeforeInstall, AfterInstall, Done, From, Goto, lockVars, ReleaseLock
<1>1. ASSUME NEW l \in Launches, NEW v \in Versions, Launch(l, v)
      PROVE  Owned' /\ NoLockLeftBehind'
  BY <1>1 DEF Launch
<1>2. ASSUME NEW l \in Launches, Wait(l) PROVE Owned' /\ NoLockLeftBehind'
  <2>1. CASE Take(l)
    BY <2>1 DEF Take
  <2>2. CASE FindTaken(l) \/ Look(l)
    BY <2>2 DEF FindTaken, Look
  <2>3. CASE Clear(l)
    BY <2>3 DEF Clear
  <2> QED
    BY <1>2, <2>1, <2>2, <2>3 DEF Wait
<1>3. ASSUME NEW l \in Launches, Stage(l) PROVE Owned' /\ NoLockLeftBehind'
  <2>1. CASE Advance(l)
    BY <2>1 DEF Advance
  <2>2. CASE Leave(l)
    BY <2>2 DEF Leave
  <2>3. CASE Finish(l)
    BY <2>3 DEF Finish
  <2> QED
    BY <1>3, <2>1, <2>2, <2>3, StageKinds
<1>4. ASSUME NEW l \in Launches, Fetched(l) PROVE Owned' /\ NoLockLeftBehind'
  BY <1>4 DEF Fetched, StageUnchanged
<1>5. ASSUME NEW l \in Launches, Signal(l), Elsewhere PROVE Owned' /\ NoLockLeftBehind'
  BY <1>5 DEF Signal, Elsewhere
<1>6. ASSUME NEW l \in Launches, Kill(l), Elsewhere PROVE Owned' /\ NoLockLeftBehind'
  BY <1>6 DEF Kill, Elsewhere
<1>7. CASE Tick
  BY <1>7 DEF Tick
<1>8. CASE UNCHANGED vars
  BY <1>8 DEF vars
<1> QED
  BY <1>1, <1>2, <1>3, <1>4, <1>5, <1>6, <1>7, <1>8 DEF Next, Interrupted

\* However many launches there are, whatever fails, is signalled or takes its time: a lock
\* that is there belongs to a launch that is still provisioning, or to one that was killed
\* (release_lock, its traps and its call before exec).
THEOREM LocksAreReleased == Spec => []NoLockLeftBehind
<1>1. LockInv => NoLockLeftBehind
  BY DEF LockInv
<1> QED
  BY <1>1, LockInit, LockStep, PTL DEF Spec
-----------------------------------------------------------------------------
(***************************************************************************)
(* Two launches, and what the lock is worth to them.                       *)
(***************************************************************************)

\* Two launches at most, none of them signalled, and whoever has the lock is done with it
\* before it counts as stale and before the other runs out of patience.
TwoQuickLaunches ==
    /\ \A l, m, n \in Launches : l = m \/ m = n \/ l = n
    /\ ~Signals
    /\ HoldTime < StaleAge /\ HoldTime < Patience

\* What a launch l in its setup means for another launch m.
Excludes(l, m) ==
    /\ haveLock[l] => /\ lock = l /\ age <= HoldTime
                      /\ pc[m] \in Before => waited[m] <= age
    /\ ~haveLock[l] => pc[m] \in Done

\* The inductive invariant: a launch that sleeps, looks at the lock or clears it waits for one
\* that has had it; clearing is for the lock of the dead; waiting begins when the lock is taken.
Pair(l, m) ==
    /\ pc[l] \in InSetup => Excludes(l, m)
    /\ pc[l] \in {"looking", "sleeping"} => pc[m] \notin Before
    /\ pc[l] = "clearing" => pc[m] = "killed"
    /\ pc[l] \in Before /\ pc[m] \in Before => waited[l] = 0

Exclusion == \A l, m \in Launches : l # m => Pair(l, m)

ExclusionInv == LockInv /\ Exclusion
LEMMA ExclusionInit == Init => Exclusion
  BY LauncherAssumption DEF Init, Exclusion, Pair, InSetup, BeforeInstall, AfterInstall

\* A step of one of the two keeps what holds between them, seen from either.
LEMMA ExclusionWait ==
    ASSUME TwoQuickLaunches, LockInv, Exclusion,
           NEW l \in Launches, NEW m \in Launches, l # m, Wait(l)
    PROVE  Pair(l, m)' /\ Pair(m, l)'
<1> USE LauncherAssumption DEF Pair, Excludes, Before, Waiting, InSetup, BeforeInstall,
        AfterInstall, Done, From, Goto, lockVars
<1>1. /\ pc \in [Launches -> Positions] /\ haveLock \in [Launches -> BOOLEAN]
      /\ age \in Nat /\ waited \in [Launches -> Nat]
      /\ lock \in Launches \cup {NoLaunch}
  BY DEF LockInv, TypeInv, TypeOK
<1>2. Pair(l, m) /\ Pair(m, l)
  BY DEF Exclusion
<1>3. /\ pc[l] \in Before => ~haveLock[l]
      /\ pc[m] \in Before => ~haveLock[m]
      /\ lock # NoLaunch => haveLock[lock] /\ pc[lock] \in InSetup \cup {"killed"}
  BY DEF LockInv, Owned, NoLockLeftBehind
<1>4. lock # NoLaunch => lock \in {l, m}
  BY <1>1 DEF TwoQuickLaunches
<1>5. CASE Take(l)
  BY <1>5, <1>1, <1>2, <1>3 DEF Take
<1>6. CASE FindTaken(l)
  BY <1>6, <1>1, <1>2, <1>3, <1>4 DEF FindTaken
<1>7. CASE Look(l)
  <2>1. lock # NoLaunch /\ age >= StaleAge => pc[m] = "killed"
    BY <1>7, <1>1, <1>2, <1>3, <1>4 DEF Look, TwoQuickLaunches
  <2> QED
    BY <2>1, <1>7, <1>1, <1>2, <1>3 DEF Look
<1>8. CASE Clear(l)
  BY <1>8, <1>1, <1>2, <1>3 DEF Clear
<1> QED
  BY <1>5, <1>6, <1>7, <1>8 DEF Wait

LEMMA ExclusionStage ==
    ASSUME TwoQuickLaunches, LockInv, Exclusion,
           NEW l \in Launches, NEW m \in Launches, l # m, Stage(l) \/ (Kill(l) /\ Elsewhere)
    PROVE  Pair(l, m)' /\ Pair(m, l)'
<1> USE LauncherAssumption DEF Pair, Excludes, Before, Waiting, InSetup, BeforeInstall,
        AfterInstall, Done, From, Goto, lockVars, ReleaseLock
<1>1. /\ pc \in [Launches -> Positions] /\ haveLock \in [Launches -> BOOLEAN]
      /\ age \in Nat /\ waited \in [Launches -> Nat]
  BY DEF LockInv, TypeInv, TypeOK
<1>2. Pair(l, m) /\ Pair(m, l)
  BY DEF Exclusion
<1>3. CASE Advance(l)
  BY <1>3, <1>1, <1>2 DEF Advance
<1>4. CASE Leave(l)
  BY <1>4, <1>1, <1>2 DEF Leave
<1>5. CASE Finish(l)
  BY <1>5, <1>1, <1>2 DEF Finish
<1>6. CASE Kill(l) /\ Elsewhere
  BY <1>6, <1>1, <1>2 DEF Kill, Elsewhere
<1> QED
  BY <1>3, <1>4, <1>5, <1>6, StageKinds

\* A second more of patience never outlasts a holder that is alive.
LEMMA ExclusionTick ==
    ASSUME TwoQuickLaunches, LockInv, Exclusion,
           NEW l \in Launches, NEW m \in Launches, l # m, Tick
    PROVE  Pair(l, m)'
<1> USE LauncherAssumption DEF Pair, Excludes, Before, Waiting, From
<1>1. /\ pc \in [Launches -> Positions] /\ haveLock \in [Launches -> BOOLEAN]
      /\ age \in Nat /\ waited \in [Launches -> Nat]
      /\ lock \in Launches \cup {NoLaunch}
  BY DEF LockInv, TypeInv, TypeOK
<1>2. Pair(l, m) /\ Pair(m, l)
  BY DEF Exclusion
<1>3. /\ pc[l] \in Before => ~haveLock[l]
      /\ pc[m] \in Before => ~haveLock[m]
  BY DEF LockInv, Owned
<1>4. lock # NoLaunch /\ pc[lock] \in InSetup => age < HoldTime
  BY DEF Tick
<1>5. lock # NoLaunch /\ pc[lock] \in InSetup => age' = age + 1
  BY <1>1, <1>4 DEF Tick, TwoQuickLaunches
<1>6. UNCHANGED <<haveLock, lock>>
  BY DEF Tick
<1>7. ASSUME NEW n \in Launches
      PROVE  /\ pc[n] # "sleeping" => pc'[n] = pc[n] /\ waited'[n] = waited[n]
             /\ pc[n] = "sleeping" => pc'[n] \in {"taking", "runtime"} /\ waited'[n] = waited[n] + 1
             /\ pc[n] = "sleeping" /\ pc'[n] = "runtime" => waited[n] + 1 >= Patience
  BY <1>1, <1>7 DEF Tick
<1>8. ASSUME NEW n \in Launches, NEW k \in Launches, n # k, n \in {l, m}, k \in {l, m},
             pc[n] = "sleeping", pc'[n] = "runtime"
      PROVE  pc[k] \in Done
  <2>1. pc[k] \notin Before
    BY <1>2, <1>8
  <2>2. pc[k] \in InSetup => haveLock[k]
    BY <1>2, <1>8 DEF Done
  <2>3. pc[k] \in InSetup => waited[n] <= age /\ age < HoldTime
    BY <1>2, <1>4, <1>8, <2>2
  <2>4. pc[k] \notin InSetup
    BY <2>3, <1>7, <1>8, <1>1 DEF TwoQuickLaunches
  <2> QED
    BY <2>1, <2>4, <1>1 DEF Positions, Done
<1>9. CASE pc[l] = "sleeping"
  BY <1>9, <1>1, <1>2, <1>3, <1>6, <1>7, <1>8 DEF Done, InSetup, BeforeInstall, AfterInstall
<1>10. CASE pc[l] \in InSetup
  <2>1. pc'[l] = pc[l] /\ waited'[l] = waited[l]
    BY <1>7, <1>10 DEF InSetup, BeforeInstall, AfterInstall
  <2>2. haveLock[l] => /\ lock' = l /\ age' <= HoldTime
                       /\ pc'[m] \in Before => waited'[m] <= age'
    BY <1>10, <1>1, <1>2, <1>4, <1>5, <1>6, <1>7
  <2>3. ~haveLock[l] => pc'[m] \in Done
    BY <1>10, <1>2, <1>7 DEF Done
  <2> QED
    BY <2>1, <2>2, <2>3, <1>6, <1>10 DEF InSetup, BeforeInstall, AfterInstall
<1>11. CASE pc[l] # "sleeping" /\ pc[l] \notin InSetup
  BY <1>11, <1>1, <1>2, <1>7
<1> QED
  BY <1>9, <1>10, <1>11

LEMMA ExclusionStep ==
    ASSUME TwoQuickLaunches
    PROVE  LockInv /\ Exclusion /\ [Next]_vars => Exclusion'
<1> SUFFICES ASSUME LockInv, Exclusion, [Next]_vars,
                    NEW l \in Launches, NEW m \in Launches, l # m
             PROVE  Pair(l, m)'
  BY DEF Exclusion
<1>1. \A n \in Launches : n = l \/ n = m
  BY DEF TwoQuickLaunches
<1>2. Pair(l, m)
  BY DEF Exclusion
<1>3. ASSUME NEW n \in Launches, NEW v \in Versions, Launch(n, v) PROVE Pair(l, m)'
  <2>1. pc \in [Launches -> Positions] /\ Pair(m, l)
    BY DEF LockInv, TypeInv, TypeOK, Exclusion
  <2> QED
    BY <1>1, <1>2, <1>3, <2>1 DEF Launch, Pair, Excludes, From, Goto, lockVars, InSetup,
       BeforeInstall, AfterInstall, Before, Waiting, Done
<1>4. ASSUME NEW n \in Launches, Wait(n) PROVE Pair(l, m)'
  BY <1>1, <1>4, ExclusionWait
<1>5. ASSUME NEW n \in Launches, Stage(n) \/ (Kill(n) /\ Elsewhere) PROVE Pair(l, m)'
  BY <1>1, <1>5, ExclusionStage
<1>6. ASSUME NEW n \in Launches, Fetched(n) PROVE Pair(l, m)'
  BY <1>2, <1>6 DEF Fetched, StageUnchanged, lockVars, Pair, Excludes
<1>7. ASSUME NEW n \in Launches, Signal(n) PROVE Pair(l, m)'
  BY <1>7 DEF Signal, TwoQuickLaunches
<1>8. CASE Tick
  BY <1>8, ExclusionTick
<1>9. CASE UNCHANGED vars
  BY <1>2, <1>9 DEF vars, lockVars, Pair, Excludes
<1> QED
  BY <1>3, <1>4, <1>5, <1>6, <1>7, <1>8, <1>9 DEF Next, Interrupted

\* Of two launches that are not signalled, at most one provisions, whichever stage fails and
\* whichever of them is killed, if a live one is quicker with the lock than the other is ready
\* to wait (the lock directory, its age, and the loop that waits for it).
THEOREM OneAtATime ==
    ASSUME TwoQuickLaunches
    PROVE  Spec => []OneProvisioner
<1>1. LockInv /\ Exclusion => OneProvisioner
  <2> SUFFICES ASSUME LockInv, Exclusion, NEW l \in Launches, NEW m \in Launches,
                      pc[l] \in InSetup, pc[m] \in InSetup, l # m
               PROVE  FALSE
    BY DEF OneProvisioner
  <2>1. Excludes(l, m) /\ Excludes(m, l)
    BY DEF Exclusion, Pair
  <2>2. haveLock \in [Launches -> BOOLEAN] /\ pc[l] \notin Done /\ pc[m] \notin Done
    BY DEF LockInv, TypeInv, TypeOK, Done, InSetup, BeforeInstall, AfterInstall
  <2> QED
    BY <2>1, <2>2 DEF Excludes
<1>2. LockInv /\ Exclusion /\ [Next]_vars => (LockInv /\ Exclusion)'
  BY LockStep, ExclusionStep
<1>3. Init => LockInv /\ Exclusion
  BY LockInit, ExclusionInit
<1> QED
  BY <1>1, <1>2, <1>3, PTL DEF Spec

-----------------------------------------------------------------------------
(***************************************************************************)
(* What is installed, when one launch provisions at a time.                *)
(***************************************************************************)

\* The stamp is another version's until the install is over.  Whoever rewrites the package is its
\* writer, and so is one that ended doing it; a stamp that does not fit the package is of another
\* version than the writer's.
StampFits ==
    /\ \A l \in Launches : pc[l] \in {"installing", "rewriting", "stamping"} => stamp # version[l]
    /\ \A l \in Launches : pc[l] \in {"rewriting", "stamping"} => writer = l
    /\ \A l \in Launches : pc[l] = "stamping" => package = version[l]
    /\ \A l \in Launches : pc[l] \in AfterInstall => stamp = version[l]
    /\ writer # NoLaunch =>
           writer \in Launches /\ pc[writer] \in {"rewriting", "stamping", "died", "killed"}
    /\ stamp # NoVersion /\ package # stamp => writer # NoLaunch /\ version[writer] # stamp

LEMMA StampInit == Init => StampFits
BY DEF Init, StampFits, AfterInstall

\* Whoever leaves the setup behind an unfinished install was of another version.
LEMMA StampStage ==
    ASSUME TypeInv, StampFits, OneProvisioner, NEW l \in Launches, Stage(l) \/ (Kill(l) /\ Elsewhere)
    PROVE  StampFits'
<1> USE DEF From, Goto, StageUnchanged, Die, InSetup, BeforeInstall, AfterInstall
<1>1. /\ pc \in [Launches -> Positions] /\ version \in [Launches -> Versions \cup {NoVersion}]
      /\ \A m \in Launches : pc[m] # "off" => version[m] # NoVersion
  BY DEF TypeInv, TypeOK, Versioned
<1>2. ASSUME pc[l] \in InSetup, NEW m \in Launches, m # l PROVE pc[m] \notin InSetup
  BY <1>2 DEF OneProvisioner
<1>3. ASSUME version' = version, package' = package, stamp' = stamp, writer' = writer,
             pc[l] \notin {"off", "died", "killed"},
             NEW w, pc' = [pc EXCEPT ![l] = w],
             w \in {"died", "killed"} \/ pc[l] \notin {"rewriting", "stamping"},
             w \notin {"rewriting", "stamping"},
             w = "installing" => stamp # version[l],
             w \in AfterInstall => stamp = version[l]
      PROVE  StampFits'
  <2>1. /\ pc'[l] = w /\ \A m \in Launches \ {l} : pc'[m] = pc[m]
        /\ pc[l] # "off"
    BY <1>1, <1>3 DEF Waiting
  <2>2. writer # NoLaunch => pc'[writer] \in {"rewriting", "stamping", "died", "killed"}
    BY <2>1, <1>3 DEF StampFits
  <2> QED
    BY <2>1, <2>2, <1>3 DEF StampFits
<1>4. CASE PrepareRuntime(l)
  <2>1. /\ version' = version /\ package' = package /\ stamp' = stamp /\ writer' = writer /\ pc[l] = "runtime"
        /\ pc' = [pc EXCEPT ![l] = "comparing"] \/ pc' = [pc EXCEPT ![l] = "died"]
    BY <1>4 DEF PrepareRuntime, installVars
  <2> QED
    BY <2>1, <1>3
<1>5. CASE Compare(l)
  <2>1. /\ version' = version /\ package' = package /\ stamp' = stamp /\ writer' = writer /\ pc[l] = "comparing"
        /\ \/ pc' = [pc EXCEPT ![l] = "workspace"] /\ stamp = version[l]
           \/ pc' = [pc EXCEPT ![l] = "installing"] /\ stamp # version[l]
    BY <1>5 DEF Compare, installVars
  <2> QED
    BY <2>1, <1>3
<1>6. CASE Rewrite(l)
  <2>1. /\ UNCHANGED <<version, stamp>> /\ pc[l] = "installing" /\ pc'[l] = "rewriting"
        /\ writer' = l /\ l # NoLaunch
        /\ \A m \in Launches \ {l} : pc'[m] = pc[m] /\ pc[m] \notin InSetup
    BY <1>1, <1>2, <1>6, LauncherAssumption DEF Rewrite
  <2>2. \A m \in Launches : pc'[m] \in {"installing", "rewriting", "stamping"} => m = l
    BY <2>1
  <2> QED
    BY <2>1, <2>2 DEF StampFits
<1>7. CASE Installed(l)
  <2>1. /\ UNCHANGED <<version, stamp>> /\ pc[l] = "rewriting" /\ pc'[l] = "stamping"
        /\ package' = version[l] /\ writer' = writer /\ writer = l
        /\ \A m \in Launches \ {l} : pc'[m] = pc[m] /\ pc[m] \notin InSetup
    BY <1>1, <1>2, <1>7 DEF Installed, StampFits
  <2>2. /\ \A m \in Launches : pc'[m] \in {"installing", "rewriting", "stamping"} => m = l
        /\ l # NoLaunch /\ version[l] # stamp
    BY <2>1, LauncherAssumption DEF StampFits
  <2> QED
    BY <2>1, <2>2 DEF StampFits
<1>8. CASE WriteStamp(l)
  <2>1. /\ UNCHANGED <<version, package>> /\ pc[l] = "stamping" /\ pc'[l] = "workspace"
        /\ stamp' = version[l] /\ writer' = NoLaunch /\ package = version[l]
        /\ \A m \in Launches \ {l} : pc'[m] = pc[m] /\ pc[m] \notin InSetup
    BY <1>1, <1>2, <1>8 DEF WriteStamp, StampFits
  <2> QED
    BY <2>1 DEF StampFits
<1>9. CASE InstallFails(l) \/ CopyFails(l)
  <2>1. /\ version' = version /\ package' = package /\ stamp' = stamp /\ writer' = writer /\ pc[l] \in InSetup
        /\ \E w \in {"died"} : pc' = [pc EXCEPT ![l] = w]
    BY <1>9 DEF InstallFails, CopyFails, installVars
  <2>2. pc[l] \notin {"off", "died", "killed"}
    BY <2>1 DEF Waiting
  <2> QED
    BY <2>1, <2>2, <1>3
<1>10. CASE MakeWorkspace(l) \/ Copied(l) \/ Provision(l) \/ FetchBrowser(l)
  <2>1. /\ version' = version /\ package' = package /\ stamp' = stamp /\ writer' = writer /\ pc[l] \in AfterInstall
        /\ \E w \in {"provisioning", "copying", "browsing", "checking"} :
               pc' = [pc EXCEPT ![l] = w]
    BY <1>10 DEF MakeWorkspace, Copied, Provision, FetchBrowser, installVars
  <2>2. stamp = version[l]
    BY <2>1 DEF StampFits
  <2> QED
    BY <2>1, <2>2, <1>3
<1>11. CASE CheckServer(l) \/ Release(l) \/ Exec(l)
  <2>1. /\ version' = version /\ package' = package /\ stamp' = stamp /\ writer' = writer /\ pc[l] \in {"checking", "releasing", "exec"}
        /\ \E w \in {"releasing", "died", "exec", "serving", "vanished"} :
               /\ pc' = [pc EXCEPT ![l] = w]
               /\ w = "releasing" => pc[l] = "checking"
    BY <1>11 DEF CheckServer, Release, Exec, installVars
  <2>2. pc[l] = "checking" => stamp = version[l]
    BY DEF StampFits
  <2> QED
    BY <2>1, <2>2, <1>3
<1>12. CASE Kill(l) /\ Elsewhere
  <2>1. /\ version' = version /\ package' = package /\ stamp' = stamp /\ writer' = writer /\ pc[l] \in InSetup \cup Waiting
        /\ \E w \in {"killed"} : pc' = [pc EXCEPT ![l] = w]
    BY <1>12 DEF Kill, Elsewhere, installVars
  <2>2. pc[l] \notin {"off", "died", "killed"}
    BY <2>1 DEF Waiting
  <2> QED
    BY <2>1, <2>2, <1>3
<1> QED
  BY <1>4, <1>5, <1>6, <1>7, <1>8, <1>9, <1>10, <1>11, <1>12 DEF Stage

Rests(m) ==
    \/ pc'[m] = pc[m] /\ version'[m] = version[m]
    \/ pc[m] \in Before /\ pc'[m] \in Before \cup {"runtime"}

\* A launch that only waits, is started or downloads installs nothing.
LEMMA StampRest ==
    ASSUME TypeInv, StampFits, package' = package, stamp' = stamp, writer' = writer,
           \A m \in Launches : Rests(m)
    PROVE  StampFits'
<1> USE DEF Rests, Before, Waiting, AfterInstall
<1>1. writer # NoLaunch => pc'[writer] = pc[writer] /\ version'[writer] = version[writer]
  BY DEF StampFits
<1> QED
  BY <1>1 DEF StampFits

LEMMA StampStep ==
    ASSUME TypeInv, StampFits, OneProvisioner, ~Signals, [Next]_vars
    PROVE  StampFits'
<1> USE DEF From, Goto, Before, Waiting, installVars
<1>0. pc \in [Launches -> Positions] /\ version \in [Launches -> Versions \cup {NoVersion}]
  BY DEF TypeInv, TypeOK
<1>1. ASSUME NEW l \in Launches, NEW v \in Versions, Launch(l, v) PROVE StampFits'
  <2>1. /\ package' = package /\ stamp' = stamp /\ writer' = writer /\ pc[l] = "off" /\ pc'[l] = "taking"
        /\ \A m \in Launches \ {l} : pc'[m] = pc[m] /\ version'[m] = version[m]
    BY <1>0, <1>1 DEF Launch
  <2>2. \A m \in Launches : Rests(m)
    BY <2>1 DEF Rests
  <2> QED
    BY <2>1, <2>2, StampRest
<1>2. ASSUME NEW l \in Launches, Wait(l) PROVE StampFits'
  <2>1. /\ version' = version /\ package' = package /\ stamp' = stamp /\ writer' = writer /\ pc[l] \in Waiting
        /\ pc'[l] \in Waiting \cup {"runtime"}
        /\ \A m \in Launches \ {l} : pc'[m] = pc[m]
    BY <1>0, <1>2 DEF Wait, Take, FindTaken, Look, Clear
  <2>2. \A m \in Launches : Rests(m)
    BY <2>1 DEF Rests
  <2> QED
    BY <2>1, <2>2, StampRest
<1>3. ASSUME NEW l \in Launches, Stage(l) \/ (Kill(l) /\ Elsewhere) PROVE StampFits'
  BY <1>3, StampStage
<1>4. ASSUME NEW l \in Launches, Fetched(l) PROVE StampFits'
  <2>1. pc' = pc /\ version' = version /\ package' = package /\ stamp' = stamp /\ writer' = writer
    BY <1>4 DEF Fetched, StageUnchanged
  <2>2. \A m \in Launches : Rests(m)
    BY <2>1 DEF Rests
  <2> QED
    BY <2>1, <2>2, StampRest
<1>5. CASE Tick
  <2>1. version' = version /\ package' = package /\ stamp' = stamp /\ writer' = writer
    BY <1>5 DEF Tick
  <2>2. ASSUME NEW m \in Launches
        PROVE  pc'[m] = pc[m] \/ (pc[m] = "sleeping" /\ pc'[m] \in {"taking", "runtime"})
    BY <1>5 DEF Tick
  <2>3. \A m \in Launches : Rests(m)
    BY <2>1, <2>2 DEF Rests
  <2> QED
    BY <2>1, <2>3, StampRest
<1>6. CASE UNCHANGED vars
  <2>1. pc' = pc /\ version' = version /\ package' = package /\ stamp' = stamp /\ writer' = writer
    BY <1>6 DEF vars
  <2>2. \A m \in Launches : Rests(m)
    BY <2>1 DEF Rests
  <2>3. package' = package /\ stamp' = stamp /\ writer' = writer
    BY <2>1
  <2> QED
    BY ONLY TypeInv, StampFits, <2>3, <2>2, StampRest
<1> QED
  BY <1>1, <1>2, <1>3, <1>4, <1>5, <1>6 DEF Next, Interrupted, Signal

\* Past the install stage a launch works on a whole package of its own version, unless the
\* last launch to rewrite it was of another version and never reached its stamp, as long as one provisions at a time (the stamp, which is
\* compared before it is trusted and written last).
THEOREM PackagesAreWhole ==
    ASSUME TwoQuickLaunches
    PROVE  Spec => []InstallIsWhole
<1>1. TypeInv /\ StampFits /\ OneProvisioner => InstallIsWhole
  <2> SUFFICES ASSUME TypeInv, StampFits, OneProvisioner, NEW l \in Launches, pc[l] \in AfterInstall
               PROVE  stamp = version[l] /\ (package = version[l] \/ CutShort(l))
    BY DEF InstallIsWhole
  <2>1. stamp = version[l] /\ version[l] # NoVersion
    BY DEF StampFits, TypeInv, Versioned, AfterInstall
  <2>2. writer # NoLaunch => pc[writer] \in {"died", "killed"}
    BY DEF StampFits, OneProvisioner, InSetup, BeforeInstall, AfterInstall
  <2> QED
    BY <2>1, <2>2 DEF StampFits, CutShort
<1>2. TypeInv /\ StampFits /\ OneProvisioner /\ [Next]_vars => StampFits'
  BY StampStep DEF TwoQuickLaunches
<1>3. Spec => []OneProvisioner
  BY OneAtATime
<1>4. TypeInv /\ [Next]_vars => TypeInv'
  BY TypeStep
<1>5. Init => TypeInv /\ StampFits
  BY TypeInit, StampInit
<1> QED
  BY <1>1, <1>2, <1>3, <1>4, <1>5, PTL DEF Spec

-----------------------------------------------------------------------------
(***************************************************************************)
(* What a machine may count on whichever of the two launchers it runs: the *)
(* lock is released on every way out, with traps or without.               *)
(***************************************************************************)

\* The part of LockInv that the batch file keeps: its patience may be used up as it waits.
CmdLockInv ==
    /\ pc \in [Launches -> Positions]
    /\ haveLock \in [Launches -> BOOLEAN]
    /\ lock \in Launches \cup {NoLaunch}
    /\ Owned /\ NoLockLeftBehind

MachineInv ==
    /\ windows \in BOOLEAN
    /\ windows => CmdLockInv
    /\ ~windows => LockInv

LEMMA MachineBegins == MachineInit => MachineInv
<1> SUFFICES ASSUME MachineInit PROVE MachineInv
  OBVIOUS
<1>1. LockInv
  BY LockInit DEF MachineInit
<1>2. CmdLockInv
  BY <1>1 DEF LockInv, TypeInv, TypeOK, CmdLockInv
<1> QED
  BY <1>1, <1>2 DEF MachineInit, MachineInv

\* To the lock the stages of the batch file are what the shell script's are.
LEMMA CmdStageKinds ==
    ASSUME NEW l \in Launches, CmdStage(l)
    PROVE  Advance(l) \/ Leave(l) \/ Finish(l)
<1>1. SharedStage(l) => Stage(l)
  BY DEF SharedStage, Stage
<1>2. CmdCompare(l) \/ CmdMakeWorkspace(l) \/ CmdCopied(l) \/ CmdFetchBrowser(l) => Advance(l)
  BY DEF CmdCompare, CmdMakeWorkspace, CmdCopied, CmdFetchBrowser, Advance, From, Goto,
         StageUnchanged, InSetup, BeforeInstall, AfterInstall, lockVars
<1> QED
  BY <1>1, <1>2, StageKinds DEF CmdStage

LEMMA CmdLockStep == CmdLockInv /\ CmdNext => CmdLockInv'
<1> SUFFICES ASSUME CmdLockInv, CmdNext PROVE CmdLockInv'
  OBVIOUS
<1> USE LauncherAssumption DEF CmdLockInv, Owned, NoLockLeftBehind, Positions, Before, Waiting,
        InSetup, BeforeInstall, AfterInstall, Done, From, Goto, lockVars, ReleaseLock
<1>1. ASSUME NEW l \in Launches, NEW v \in Versions, CmdReady(l, v) \/ CmdNeedsSetup(l, v)
      PROVE  CmdLockInv'
  BY <1>1 DEF CmdReady, CmdNeedsSetup, Launch
<1>2. ASSUME NEW l \in Launches, CmdWait(l) PROVE CmdLockInv'
  <2>1. CASE CmdTake(l)
    BY <2>1 DEF CmdTake
  <2>2. CASE CmdFindTaken(l)
    BY <2>2 DEF CmdFindTaken
  <2>3. CASE Clear(l)
    BY <2>3 DEF Clear
  <2> QED
    BY <1>2, <2>1, <2>2, <2>3 DEF CmdWait
<1>3. ASSUME NEW l \in Launches, CmdStage(l) PROVE CmdLockInv'
  <2>1. CASE Advance(l)
    BY <2>1 DEF Advance
  <2>2. CASE Leave(l)
    BY <2>2 DEF Leave
  <2>3. CASE Finish(l)
    BY <2>3 DEF Finish
  <2> QED
    BY <1>3, <2>1, <2>2, <2>3, CmdStageKinds
<1>4. ASSUME NEW l \in Launches, Kill(l), Elsewhere PROVE CmdLockInv'
  BY <1>4 DEF Kill, Elsewhere
<1>5. CASE CmdTick
  BY <1>5 DEF CmdTick
<1> QED
  BY <1>1, <1>2, <1>3, <1>4, <1>5 DEF CmdNext

LEMMA MachineStep == MachineInv /\ [MachineNext]_machineVars => MachineInv'
<1> SUFFICES ASSUME MachineInv, [MachineNext]_machineVars PROVE MachineInv'
  OBVIOUS
<1>1. CASE ~windows /\ Next /\ UNCHANGED cmdVars
  BY <1>1, LockStep DEF MachineInv, cmdVars
<1>2. ASSUME windows, CmdNext PROVE MachineInv'
  <2>1. windows' = windows
    BY <1>2 DEF CmdNext, CmdReady, CmdNeedsSetup, CmdWait, CmdTake, CmdFindTaken, CmdStage,
                CmdCompare, CmdMakeWorkspace, CmdCopied, CmdFetchBrowser, CmdTick, cmdVars
  <2> QED
    BY <1>2, <2>1, CmdLockStep DEF MachineInv
<1>3. CASE UNCHANGED machineVars
  <2>1. UNCHANGED vars /\ windows' = windows
    BY <1>3 DEF machineVars, cmdVars
  <2>2. LockInv => LockInv'
    BY <2>1, LockStep
  <2>3. CmdLockInv => CmdLockInv'
    BY <2>1 DEF CmdLockInv, Owned, NoLockLeftBehind, vars, lockVars
  <2> QED
    BY <2>1, <2>2, <2>3 DEF MachineInv
<1> QED
  BY <1>1, <1>2, <1>3 DEF MachineNext

\* Whichever launcher the machine has and however many of it run: a lock that is there
\* belongs to a launch that is still provisioning, or to one that was killed.  On Windows
\* every early exit calls :unlock itself, and a launch that took the lock over removes what
\* it finds ("Every early exit must release the lock first, or the next start waits").
THEOREM LocksAreReleasedOnEither == MachineSpec => []NoLockLeftBehind
<1>1. MachineInv => NoLockLeftBehind
  BY DEF MachineInv, CmdLockInv, LockInv
<1> QED
  BY <1>1, MachineBegins, MachineStep, PTL DEF MachineSpec
=============================================================================
