\* Two matches, every request failure, bad documents that get corrected.
CONSTANTS
  m1 = m1
  m2 = m2
  None = None
  Matches <- TwoMatches
  BatchLimit = 2
  DetailDocs <- OkInvalid
  TimelineDocs <- OkOnly
  Failures <- AllFailures
  Poison <- Nobody
  StoreFails = FALSE
  MaxCrashes = 1
SPECIFICATION CorrectedSpec
PROPERTIES
  RateLimitedJobsWait
  StoppedBatchIsLeft
  QueuedJobsComplete
