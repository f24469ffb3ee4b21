------------------------------ MODULE Launcher ------------------------------
(***************************************************************************)
(* packaging/launcher/qa-copilot-launch: launches of the server that share *)
(* one workspace (~/.qa-copilot), each provisioning whatever it finds      *)
(* missing and then serving.  A lock directory is meant to let one         *)
(* provision at a time; a host may start several, of several versions, and *)
(* may kill or signal any of them.                                         *)
(*                                                                         *)
(* Time counts in the seconds of the waiting loop: each Tick wakes every   *)
(* launch that sleeps in it and ages the lock by one.                      *)
(***************************************************************************)
EXTENDS Naturals

CONSTANTS
    Launches,       \* processes
    NoLaunch,       \* nobody's
    Versions,       \* versions of the package
    NoVersion,      \* nothing installed, no stamp
    Torn,           \* a package that is being rewritten, or was left so
    Hosted,         \* the launches whose host decided where the configuration lives
    Pointed,        \* the launches that were given the address of an application
    Patience,       \* times a launch tries for the lock (300)
    StaleAge,       \* age from which the lock counts as stale (-mmin +10)
    HoldTime,       \* environment: a live launch is done with the lock by this age
    Kills,          \* environment: launches may be killed
    Signals         \* environment: launches may receive TERM or INT

ASSUME LauncherAssumption ==
    /\ NoLaunch \notin Launches
    /\ NoVersion \notin Versions /\ Torn \notin Versions /\ NoVersion # Torn
    /\ Hosted \subseteq Launches /\ Pointed \subseteq Launches
    /\ Patience \in Nat \ {0} /\ StaleAge \in Nat /\ HoldTime \in Nat
    /\ Kills \in BOOLEAN /\ Signals \in BOOLEAN

VARIABLES
    pc,             \* where each launch is
    version,        \* the version each launch wants to serve
    haveLock,       \* have_lock of each launch
    waited,         \* i of each launch
    lock,           \* the launch that made setup.lock; NoLaunch: there is none
    age,            \* the age of setup.lock
    python,         \* uv and the virtual environment are there
    package,        \* what is installed in the virtual environment
    stamp,          \* runtime/installed-version
    writer,         \* history: the launch that began to rewrite the package last, until its stamp
    config,         \* the configuration in the workspace
    provisioned,    \* the marker of the environment
    fetching,       \* the launches whose background download runs
    verified        \* the versions with a browser-verified stamp

lockVars == <<haveLock, lock, age>>
installVars == <<python, package, stamp, writer>>
workspaceVars == <<config, provisioned>>
browserVars == <<fetching, verified>>
vars == <<pc, version, waited, lockVars, installVars, workspaceVars, browserVars>>

Waiting == {"taking", "looking", "clearing", "sleeping"}

\* Between the loop and the release of the lock, in the order of the script.
BeforeInstall == {"runtime", "comparing", "installing", "rewriting", "stamping"}
AfterInstall == {"workspace", "copying", "provisioning", "browsing", "checking", "releasing"}
InSetup == BeforeInstall \cup AfterInstall

\* exec: the lock is released, exec not yet reached.  vanished: exec found no file.
Positions == {"off", "exec", "serving", "died", "vanished", "killed"} \cup Waiting \cup InSetup

TypeOK ==
    /\ pc \in [Launches -> Positions]
    /\ version \in [Launches -> Versions \cup {NoVersion}]
    /\ haveLock \in [Launches -> BOOLEAN]
    /\ waited \in [Launches -> 0 .. Patience]
    /\ lock \in Launches \cup {NoLaunch}
    /\ age \in 0 .. StaleAge
    /\ python \in BOOLEAN
    /\ package \in Versions \cup {NoVersion, Torn}
    /\ stamp \in Versions \cup {NoVersion}
    /\ writer \in Launches \cup {NoLaunch}
    /\ config \in {"absent", "partial", "whole"}
    /\ provisioned \in BOOLEAN
    /\ fetching \subseteq Launches
    /\ verified \subseteq Versions

\* A fresh machine, or one on which some version was installed and has served.
Init ==
    /\ pc = [l \in Launches |-> "off"]
    /\ version = [l \in Launches |-> NoVersion]
    /\ haveLock = [l \in Launches |-> FALSE]
    /\ waited = [l \in Launches |-> 0]
    /\ lock = NoLaunch /\ age = 0
    /\ \E before \in Versions \cup {NoVersion} :
        /\ package = before /\ stamp = before
        /\ python = (before # NoVersion)
        /\ config = IF before = NoVersion THEN "absent" ELSE "whole"
    /\ writer = NoLaunch
    /\ provisioned = FALSE
    /\ fetching = {} /\ verified = {}

Goto(l, where) == pc' = [pc EXCEPT ![l] = where]
From(l, here) == pc[l] = here

-----------------------------------------------------------------------------
\* The lock.

Launch(l, v) ==
    /\ From(l, "off")
    /\ version' = [version EXCEPT ![l] = v]
    /\ Goto(l, "taking")
    /\ UNCHANGED <<waited, lockVars, installVars, workspaceVars, browserVars>>

\* Mutant of Take: mkdir -p, which is content with a directory that is there.
TakeAnyway(l) ==
    /\ From(l, "taking")
    /\ lock' = l /\ age' = 0
    /\ haveLock' = [haveLock EXCEPT ![l] = TRUE]
    /\ Goto(l, "runtime")
    /\ UNCHANGED <<version, waited, installVars, workspaceVars, browserVars>>

\* mkdir is atomic.
Take(l) ==
    /\ From(l, "taking") /\ lock = NoLaunch
    /\ lock' = l /\ age' = 0
    /\ haveLock' = [haveLock EXCEPT ![l] = TRUE]
    /\ Goto(l, "runtime")
    /\ UNCHANGED <<version, waited, installVars, workspaceVars, browserVars>>

FindTaken(l) ==
    /\ From(l, "taking") /\ lock # NoLaunch
    /\ Goto(l, "looking")
    /\ UNCHANGED <<version, waited, lockVars, installVars, workspaceVars, browserVars>>

\* The age is read here and acted upon in Clear, one process later.
Look(l) ==
    /\ From(l, "looking")
    /\ Goto(l, IF lock # NoLaunch /\ age >= StaleAge THEN "clearing" ELSE "sleeping")
    /\ UNCHANGED <<version, waited, lockVars, installVars, workspaceVars, browserVars>>

\* Mutant of Clear: the lock directory is not empty, and rmdir's failure goes unnoticed.
ClearInVain(l) ==
    /\ From(l, "clearing")
    /\ Goto(l, "taking")
    /\ UNCHANGED <<version, waited, lockVars, installVars, workspaceVars, browserVars>>

\* rmdir removes whatever lock is there by now; the loop continues without a sleep.
Clear(l) ==
    /\ From(l, "clearing")
    /\ lock' = NoLaunch
    /\ Goto(l, "taking")
    /\ UNCHANGED <<version, waited, haveLock, age, installVars, workspaceVars, browserVars>>

\* Mutant of Tick: one try too many.
TickOnceMore ==
    /\ lock # NoLaunch /\ pc[lock] \in InSetup => age < HoldTime
    /\ age' = IF lock # NoLaunch /\ age < StaleAge THEN age + 1 ELSE age
    /\ waited' = [l \in Launches |-> IF From(l, "sleeping") THEN waited[l] + 1 ELSE waited[l]]
    /\ pc' = [l \in Launches |->
                  IF ~From(l, "sleeping") THEN pc[l]
                  ELSE IF waited[l] < Patience THEN "taking" ELSE "runtime"]
    /\ UNCHANGED <<version, haveLock, lock, installVars, workspaceVars, browserVars>>

\* A second passes.  A launch whose patience is over goes on without the lock.
Tick ==
    /\ lock # NoLaunch /\ pc[lock] \in InSetup => age < HoldTime
    /\ age' = IF lock # NoLaunch /\ age < StaleAge THEN age + 1 ELSE age
    /\ waited' = [l \in Launches |-> IF From(l, "sleeping") THEN waited[l] + 1 ELSE waited[l]]
    /\ pc' = [l \in Launches |->
                  IF ~From(l, "sleeping") THEN pc[l]
                  ELSE IF waited[l] + 1 < Patience THEN "taking" ELSE "runtime"]
    /\ UNCHANGED <<version, haveLock, lock, installVars, workspaceVars, browserVars>>

\* have_lock is never reset: a launch that thinks it has the lock removes the one it finds.
ReleaseLock(l) ==
    /\ lock' = IF haveLock[l] THEN NoLaunch ELSE lock
    /\ UNCHANGED <<haveLock, age>>

\* Mutant of Die: the lock is released at the end of the script only.
DieHolding(l) ==
    /\ Goto(l, "died")
    /\ UNCHANGED <<version, waited, lockVars, workspaceVars, browserVars>>

\* The script ends early; the EXIT trap releases the lock.
Die(l) ==
    /\ Goto(l, "died")
    /\ ReleaseLock(l)
    /\ UNCHANGED <<version, waited, workspaceVars, browserVars>>

\* The handler of TERM and INT releases the lock too, but the script goes on where it was.
Signal(l) ==
    /\ Signals /\ pc[l] \in InSetup
    /\ ReleaseLock(l)
    /\ UNCHANGED pc

\* No trap runs; the lock stays.
Kill(l) ==
    /\ Kills /\ pc[l] \in Waiting \cup InSetup
    /\ Goto(l, "killed")
    /\ UNCHANGED lockVars

Elsewhere == UNCHANGED <<version, waited, installVars, workspaceVars, browserVars>>

\* The host stops a launch, politely or not.
Interrupted(l) == (Signal(l) \/ Kill(l)) /\ Elsewhere

-----------------------------------------------------------------------------
\* The stages.

StageUnchanged == UNCHANGED <<version, waited, lockVars>>

\* uv and the virtual environment, made when they are not there.
PrepareRuntime(l) ==
    /\ From(l, "runtime")
    /\ \/ /\ python' = TRUE
          /\ Goto(l, "comparing")
          /\ StageUnchanged /\ UNCHANGED <<package, stamp, writer, workspaceVars, browserVars>>
       \/ ~python /\ Die(l) /\ UNCHANGED installVars

\* Mutant of Compare: any stamp will do.
CompareExists(l) ==
    /\ From(l, "comparing")
    /\ Goto(l, IF stamp # NoVersion THEN "workspace" ELSE "installing")
    /\ StageUnchanged /\ UNCHANGED <<installVars, workspaceVars, browserVars>>

Compare(l) ==
    /\ From(l, "comparing")
    /\ Goto(l, IF stamp = version[l] THEN "workspace" ELSE "installing")
    /\ StageUnchanged /\ UNCHANGED <<installVars, workspaceVars, browserVars>>

\* uv has what it needs and begins to rewrite the package and its console script.
Rewrite(l) ==
    /\ From(l, "installing")
    /\ package' = Torn /\ writer' = l
    /\ Goto(l, "rewriting")
    /\ StageUnchanged /\ UNCHANGED <<python, stamp, workspaceVars, browserVars>>

Installed(l) ==
    /\ From(l, "rewriting")
    /\ package' = version[l]
    /\ Goto(l, "stamping")
    /\ StageUnchanged /\ UNCHANGED <<python, stamp, writer, workspaceVars, browserVars>>

\* The install fails before or after it began to write.
InstallFails(l) ==
    /\ pc[l] \in {"installing", "rewriting"}
    /\ Die(l) /\ UNCHANGED installVars

WriteStamp(l) ==
    /\ From(l, "stamping")
    /\ stamp' = version[l]
    /\ writer' = IF writer = l THEN NoLaunch ELSE writer
    /\ Goto(l, "workspace")
    /\ StageUnchanged /\ UNCHANGED <<python, package, workspaceVars, browserVars>>

\* The starting configuration is copied when there is no configuration directory.
MakeWorkspace(l) ==
    /\ From(l, "workspace")
    /\ IF l \in Hosted \/ config # "absent"
         THEN Goto(l, "provisioning") /\ UNCHANGED config
         ELSE Goto(l, "copying") /\ config' = "partial"
    /\ StageUnchanged /\ UNCHANGED <<installVars, provisioned, browserVars>>

Copied(l) ==
    /\ From(l, "copying")
    /\ config' = "whole"
    /\ Goto(l, "provisioning")
    /\ StageUnchanged /\ UNCHANGED <<installVars, provisioned, browserVars>>

\* set -e: the script ends where cp failed.
CopyFails(l) ==
    /\ From(l, "copying")
    /\ Die(l) /\ UNCHANGED installVars

\* provision.py finds the sign-in form, or does not; only then there is no marker.
Provision(l) ==
    /\ From(l, "provisioning")
    /\ \/ provisioned' = (provisioned \/ l \in Pointed)
       \/ l \in Pointed /\ UNCHANGED provisioned
    /\ Goto(l, "browsing")
    /\ StageUnchanged /\ UNCHANGED <<installVars, config, browserVars>>

\* The browser is fetched in the background, by a process that outlives the launch.
FetchBrowser(l) ==
    /\ From(l, "browsing")
    /\ fetching' = IF version[l] \in verified THEN fetching ELSE fetching \cup {l}
    /\ Goto(l, "checking")
    /\ StageUnchanged /\ UNCHANGED <<installVars, workspaceVars, verified>>

Fetched(l) ==
    /\ l \in fetching
    /\ fetching' = fetching \ {l}
    /\ \/ package \in Versions /\ verified' = verified \cup {version[l]}
       \/ UNCHANGED verified
    /\ StageUnchanged /\ UNCHANGED <<pc, installVars, workspaceVars>>

\* The console script: there, not there, or either while the package is torn.
ServerThere == package # NoVersion
ServerMissing == package \in {NoVersion, Torn}

CheckServer(l) ==
    /\ From(l, "checking")
    /\ \/ /\ ServerThere
          /\ Goto(l, "releasing")
          /\ StageUnchanged /\ UNCHANGED <<installVars, workspaceVars, browserVars>>
       \/ ServerMissing /\ Die(l) /\ UNCHANGED installVars

Release(l) ==
    /\ From(l, "releasing")
    /\ ReleaseLock(l)
    /\ Goto(l, "exec")
    /\ UNCHANGED <<version, waited, installVars, workspaceVars, browserVars>>

Exec(l) ==
    /\ From(l, "exec")
    /\ \/ ServerThere /\ Goto(l, "serving")
       \/ ServerMissing /\ Goto(l, "vanished")
    /\ StageUnchanged /\ UNCHANGED <<installVars, workspaceVars, browserVars>>

-----------------------------------------------------------------------------

Stage(l) ==
    \/ PrepareRuntime(l) \/ Compare(l)
    \/ Rewrite(l) \/ Installed(l) \/ InstallFails(l) \/ WriteStamp(l)
    \/ MakeWorkspace(l) \/ Copied(l) \/ CopyFails(l)
    \/ Provision(l) \/ FetchBrowser(l) \/ CheckServer(l) \/ Release(l) \/ Exec(l)

Wait(l) == Take(l) \/ FindTaken(l) \/ Look(l) \/ Clear(l)

Next ==
    \/ \E l \in Launches : \/ \E v \in Versions : Launch(l, v)
                           \/ Wait(l) \/ Stage(l) \/ Fetched(l)
                           \/ Interrupted(l)
    \/ Tick

Spec == Init /\ [][Next]_vars

\* The machine runs the script, every command of it ends, and time passes.
Fairness == WF_vars(Tick) /\ \A l \in Launches : WF_vars(Wait(l) \/ Stage(l))
FairSpec == Spec /\ Fairness

-----------------------------------------------------------------------------
(***************************************************************************)
(* Properties.                                                             *)
(***************************************************************************)

\* "two launchers must not install at once" (test_browser_missing.py:100).  It holds
\* for two launches that are never signalled while nobody holds the lock for as long
\* as the other is ready to wait; killing one of them does not break it.
\* (the waiting loop, the stale lock, release_lock and its traps)
OneProvisioner ==
    \A l, m \in Launches : pc[l] \in InSetup /\ pc[m] \in InSetup => l = m

\* The last launch that began to rewrite the package was of another version, and it ended
\* before it wrote its stamp.
CutShort(l) ==
    /\ writer # NoLaunch
    /\ version[writer] # version[l]
    /\ pc[writer] \in {"died", "killed"}

\* Past the install stage a launch works on a whole package of its own version, whatever the
\* launches before it left unfinished, but for one case: the stamp is not removed before the
\* package is rewritten, so when another version's install was the last to begin and was cut
\* short, the stamp vouches for what is no longer there.
\* (the stamp is compared before it is trusted and written last)
InstallIsWhole ==
    \A l \in Launches : pc[l] \in AfterInstall =>
        stamp = version[l] /\ (package = version[l] \/ CutShort(l))

\* Only a killed launch leaves its lock behind: neither a failed stage nor serving does.
\* (trap release_lock EXIT, and the release before exec)
NoLockLeftBehind == lock # NoLaunch => pc[lock] \in InSetup \cup {"killed"}

\* "A lock left by a process that died is not a reason to wait forever." (line 95)
EveryLaunchEnds ==
    \A l \in Launches : pc[l] = "taking" ~> pc[l] \in {"serving", "died", "vanished", "killed"}

\* VIOLATED.  "The launcher never execs into nothing" (test_browser_missing.py:109, and
\* lines 222-224 of the script): the console script is there when exec is reached.
ExecFindsServer == \A l \in Launches : pc[l] # "vanished"
=============================================================================
