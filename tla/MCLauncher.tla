----------------------------- MODULE MCLauncher -----------------------------
(* Instances of Launcher for TLC: two launches, of two versions. *)
EXTENDS Launcher

CONSTANTS l1, l2, v1, v2

TwoLaunches == {l1, l2}
TwoVersions == {v1, v2}
MCPointed == {l1}
MCHosted == {l2}
None == {}
=============================================================================
