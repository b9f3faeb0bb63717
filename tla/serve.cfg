\* Two processes on one database, two accounts, two migrations.
CONSTANTS
  p1 = p1
  p2 = p2
  a1 = a1
  a2 = a2
  Demo = Demo
  None = None
  Procs <- TwoProcs
  Accounts <- TwoAccounts
  N = 2
SPECIFICATION FairSpec
INVARIANTS
  MigrationsAreWhole
  OneOwner
  RunningRunIsLive
PROPERTIES
  ProfileIsFixed
  ProcessSettles
