CONSTANTS
  NumSources = 3
  WithURLs = {1, 2}
  MinInterval = 1
  Prefetch = 2
  CacheTTL = 3
  MaxVersion = 2
  MaxCrashes = 1
  Damaged = {1}
SPECIFICATION FairSourcesSpec
INVARIANTS RunningHasLists
PROPERTIES StartsFromCache UpdatesArrive
