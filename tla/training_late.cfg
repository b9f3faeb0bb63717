\* As training, for the match that is imported after its block was replaced.
CONSTANTS
  m1 = m1
  h1 = h1
  deaths = deaths
  adherence = adherence
  Unavailable = Unavailable
  NotImported = NotImported
  NoMatch = NoMatch
  Matches <- OneMatch
  Handlers <- OneHandler
  AutoTargets <- OneAuto
  ManualTargets <- OneManual
  Comparator <- AtMost
  Threshold <- TwoDeaths
  Stats <- TwoStats
  MaxBlocks = 2
  MaxDay = 3
SPECIFICATION Spec
INVARIANTS
  MatchKeepsItsFocus
