SPECIFICATION FetchSpec
CONSTANTS
  Servers <- MCServers
  Relays <- MCRelays
  Stamps <- MCStamps
  RouteSets <- MCRouteSets
  Width = 2
  MaxTries = 2
  Rtts = {1, 2}
  KnownBlocked = FALSE
  Fallback = TRUE
  SkipIncompatible = TRUE
  Serials = {0, 1}
  Times = {0, 1, 3}
  MaxRecords = 2
  Now = 2
  IgnoreTimestamp = FALSE
INVARIANT AnonymizedOrFailed ScanFindsFarthest NeverDirect BlockedOnlyIfAllFailed BestSoFar
PROPERTY ExchangeEnds
