---------------------------- MODULE LauncherCmd ----------------------------
(***************************************************************************)
(* packaging/launcher/qa-copilot-launch.cmd, the launcher for Windows, on  *)
(* the state of Launcher, and a machine that runs one of the two.          *)
(*                                                                         *)
(* The batch file decides before it touches the lock whether there is      *)
(* anything to set up, compares the stamp it read then, takes the lock by  *)
(* force when its patience is over, and has no traps: every exit releases  *)
(* the lock by a call of its own.  The age of the lock is not looked at.   *)
(***************************************************************************)
EXTENDS Launcher

VARIABLES
    windows,        \* the machine runs the batch file; chosen once
    installed       \* INSTALLED of each launch: the stamp it read as it began

cmdVars == <<windows, installed>>
machineVars == <<vars, cmdVars>>

CmdTypeOK ==
    /\ windows \in BOOLEAN
    /\ installed \in [Launches -> Versions \cup {NoVersion}]

MachineInit ==
    /\ Init
    /\ windows \in BOOLEAN
    /\ installed = [l \in Launches |-> NoVersion]

-----------------------------------------------------------------------------
\* The lock.

\* A complete install of this version never waits, and never takes the lock.
CmdReady(l, v) ==
    /\ From(l, "off")
    /\ ServerThere /\ stamp = v
    /\ version' = [version EXCEPT ![l] = v]
    /\ Goto(l, "workspace")
    /\ UNCHANGED <<waited, lockVars, installVars, workspaceVars, browserVars, cmdVars>>

CmdNeedsSetup(l, v) ==
    /\ ServerMissing \/ stamp # v
    /\ Launch(l, v)
    /\ installed' = [installed EXCEPT ![l] = stamp]
    /\ UNCHANGED windows

\* md succeeds, or this is the md after the takeover, whose failure is not looked at.
CmdTake(l) ==
    /\ From(l, "taking")
    /\ lock = NoLaunch \/ waited[l] = Patience
    /\ lock' = IF lock = NoLaunch THEN l ELSE lock
    /\ haveLock' = [haveLock EXCEPT ![l] = TRUE]
    /\ Goto(l, "runtime")
    /\ UNCHANGED <<version, waited, age, installVars, workspaceVars, browserVars, cmdVars>>

\* TRIES; the last one takes over.
CmdFindTaken(l) ==
    /\ From(l, "taking") /\ lock # NoLaunch /\ waited[l] < Patience
    /\ waited' = [waited EXCEPT ![l] = @ + 1]
    /\ Goto(l, IF waited[l] + 1 = Patience THEN "clearing" ELSE "sleeping")
    /\ UNCHANGED <<version, lockVars, installVars, workspaceVars, browserVars, cmdVars>>

\* The pings that run end.
CmdTick ==
    /\ pc' = [l \in Launches |-> IF From(l, "sleeping") THEN "taking" ELSE pc[l]]
    /\ UNCHANGED <<version, waited, lockVars, installVars, workspaceVars, browserVars, cmdVars>>

-----------------------------------------------------------------------------
\* The stages that differ from the shell script's.

\* The stamp is not read again: INSTALLED is what it was before the wait.
CmdCompare(l) ==
    /\ From(l, "comparing")
    /\ Goto(l, IF installed[l] = version[l] THEN "workspace" ELSE "installing")
    /\ installed' = [installed EXCEPT ![l] = NoVersion]     \* not used any more
    /\ StageUnchanged /\ UNCHANGED <<installVars, workspaceVars, browserVars, windows>>

CmdMakeWorkspace(l) ==
    /\ From(l, "workspace")
    /\ IF l \in Hosted \/ config # "absent"
         THEN Goto(l, "browsing") /\ UNCHANGED config
         ELSE Goto(l, "copying") /\ config' = "partial"
    /\ StageUnchanged /\ UNCHANGED <<installVars, provisioned, browserVars, cmdVars>>

\* Nobody looks at how xcopy ended.
CmdCopied(l) ==
    /\ From(l, "copying")
    /\ config' \in {"partial", "whole"}
    /\ Goto(l, "browsing")
    /\ StageUnchanged /\ UNCHANGED <<installVars, provisioned, browserVars, cmdVars>>

\* The stamp says that the download was started, and nothing comes back from it.
CmdFetchBrowser(l) ==
    /\ From(l, "browsing")
    /\ verified' = verified \cup {version[l]}
    /\ Goto(l, "checking")
    /\ StageUnchanged /\ UNCHANGED <<installVars, workspaceVars, fetching, cmdVars>>

-----------------------------------------------------------------------------

CmdWait(l) == CmdTake(l) \/ CmdFindTaken(l) \/ (Clear(l) /\ UNCHANGED cmdVars)

\* What the two scripts do alike.
SharedStage(l) ==
    \/ PrepareRuntime(l) \/ Rewrite(l) \/ Installed(l) \/ InstallFails(l) \/ WriteStamp(l)
    \/ CheckServer(l) \/ Release(l) \/ Exec(l)

CmdStage(l) ==
    \/ SharedStage(l) /\ UNCHANGED cmdVars
    \/ CmdCompare(l) \/ CmdMakeWorkspace(l) \/ CmdCopied(l) \/ CmdFetchBrowser(l)

CmdNext ==
    \/ \E l \in Launches : \/ \E v \in Versions : CmdReady(l, v) \/ CmdNeedsSetup(l, v)
                           \/ CmdWait(l) \/ CmdStage(l)
                           \/ Kill(l) /\ Elsewhere /\ UNCHANGED cmdVars
    \/ CmdTick

MachineNext ==
    \/ ~windows /\ Next /\ UNCHANGED cmdVars
    \/ windows /\ CmdNext

MachineSpec == MachineInit /\ [][MachineNext]_machineVars

\* As in Launcher: whichever script it is, its commands end and time passes.
MachineFairness ==
    /\ WF_machineVars(~windows /\ Tick /\ UNCHANGED cmdVars)
    /\ WF_machineVars(windows /\ CmdTick)
    /\ \A l \in Launches :
        /\ WF_machineVars(~windows /\ (Wait(l) \/ Stage(l)) /\ UNCHANGED cmdVars)
        /\ WF_machineVars(windows /\ (CmdWait(l) \/ CmdStage(l)))

MachineFairSpec == MachineSpec /\ MachineFairness
=============================================================================
