------------------------------ MODULE MCLauncher ------------------------------
(* A small instance of Launcher for TLC. *)
EXTENDS Launcher

CONSTANTS pid1, pid2, pid3

ThreePIDs == {pid1, pid2, pid3}
==============================================================================
