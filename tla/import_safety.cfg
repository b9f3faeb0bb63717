\* One match through every document class, every failure and two crashes.
CONSTANTS
  m1 = m1
  m2 = m2
  None = None
  Matches <- OneMatch
  BatchLimit = 1
  DetailDocs <- AllDocs
  TimelineDocs <- AllDocs
  Failures <- AllFailures
  Poison <- Nobody
  StoreFails = TRUE
  MaxCrashes = 2
SPECIFICATION WorkerSpec
INVARIANTS
  CompleteJobIsWhole
  ResumeStepIsBacked
  RawBeforeNormalized
  CompletenessMatchesEvents
  WorkerAgreesWithStore
  AttemptIsReported
PROPERTIES
  ImplementsImport
  UsablePayloadIsKept
  SyncRunsDown
  EverySyncEnds
