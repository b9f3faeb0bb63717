\* One match Riot never serves, another that nothing is wrong with.
CONSTANTS
  m1 = m1
  m2 = m2
  None = None
  Matches <- TwoMatches
  BatchLimit = 2
  DetailDocs <- OkOnly
  TimelineDocs <- OkOnly
  Failures <- NoFailures
  Poison <- OneMatch
  StoreFails = FALSE
  MaxCrashes = 0
SPECIFICATION FairSpec
PROPERTIES
  QueuedJobsComplete
