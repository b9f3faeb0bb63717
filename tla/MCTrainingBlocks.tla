-------------------------- MODULE MCTrainingBlocks ---------------------------
(* A small instance of TrainingBlocks for TLC: one automatic target ("at
   most two deaths") and one manual target, and every outcome of a match. *)
EXTENDS TrainingBlocks

CONSTANTS m1, h1, deaths, adherence

OneMatch   == {m1}
OneHandler == {h1}
OneAuto    == {deaths}
OneManual  == {adherence}
AtMost     == [t \in OneAuto |-> "<="]
TwoDeaths  == [t \in OneAuto |-> 2]

Game(remake, value) == [remake |-> remake, metric |-> [t \in OneAuto |-> value]]

AllStats  == {Game(FALSE, 2), Game(FALSE, 3), Game(FALSE, Unavailable), Game(TRUE, 0)}
TwoStats  == {Game(FALSE, 2), Game(FALSE, 3)}
==============================================================================
