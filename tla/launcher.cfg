\* Three PIDs: the command's game, and processes of the player.
CONSTANTS
  pid1 = pid1
  pid2 = pid2
  pid3 = pid3
  None = None
  PIDs <- ThreePIDs
SPECIFICATION Spec
INVARIANTS
  SignalsOnlyItsGame
PROPERTIES
  RestoredAfterExit
