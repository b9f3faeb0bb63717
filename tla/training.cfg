\* Two blocks, one match with every outcome, three days, one review request.
CONSTANTS
  m1 = m1
  h1 = h1
  deaths = deaths
  adherence = adherence
  Unavailable = Unavailable
  NotImported = NotImported
  NoMatch = NoMatch
  Matches <- OneMatch
  Handlers <- OneHandler
  AutoTargets <- OneAuto
  ManualTargets <- OneManual
  Comparator <- AtMost
  Threshold <- TwoDeaths
  Stats <- AllStats
  MaxBlocks = 2
  MaxDay = 3
SPECIFICATION Spec
INVARIANTS
  TypeOK
  ResultsAreCurrent
  AssignedInsideBlock
  ActiveBlockHasItsMatches
  CheckinsAreWhole
PROPERTIES
  HistoryIsFinal
