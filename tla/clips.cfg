\* Two deaths; two commands of either kind, one of them killed.
CONSTANTS
  NDeaths = 2
  ShortClips = FALSE
  MaxRuns = 2
  MaxCrashes = 1
  None = None
SPECIFICATION FairSpec
INVARIANTS
  ReadyHasItsClip
  RecordingRowsAreExplained
PROPERTIES
  ReadyFollowsPlayer
  PublishedClipIsKept
  EveryRunEnds
