--------------------------- MODULE MCLauncherCmd ---------------------------
(* The instances of MCLauncher, on a machine that may run either script. *)
EXTENDS MCLauncher, LauncherCmd
=============================================================================
