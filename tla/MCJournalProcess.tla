--------------------------- MODULE MCJournalProcess ---------------------------
(* A small instance of JournalProcess for TLC. *)
EXTENDS JournalProcess

CONSTANTS p1, p2, a1, a2

TwoProcs    == {p1, p2}
TwoAccounts == {a1, a2}
==============================================================================
