\* Two queues paged one by one, the cap and the window within reach.
CONSTANTS
  NQueues = 2
  MaxGames = 3
  HistoryLimit = 1
  Cap = 2
  KnownLimit = 1
  BatchLimit = 2
  StoreFails = TRUE
  MaxCrashes = 1
SPECIFICATION Spec
INVARIANTS
  PassedOverIsExplained
PROPERTIES
  SucceededRunMissesNothing
  SucceededRunIsComplete
  SyncRunsDown
