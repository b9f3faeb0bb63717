--------------------------- MODULE MCCaptureLease ----------------------------
(* Small instances of CaptureLease for TLC. *)
EXTENDS CaptureLease

CONSTANTS p1, p2, d1

TwoProcs == {p1, p2}
OneProc  == {p1}
OneDir   == {d1}
==============================================================================
