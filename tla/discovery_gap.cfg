\* Two queues, one page of games at a time; no failing store call, one kill.
CONSTANTS
  NQueues = 2
  MaxGames = 4
  HistoryLimit = 1
  Cap = 4
  KnownLimit = 4
  BatchLimit = 4
  StoreFails = FALSE
  MaxCrashes = 1
SPECIFICATION Spec
INVARIANTS
  FullKnownBoundary
