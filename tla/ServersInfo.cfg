\* A refresh, a change of the source lists and a query that picks servers and
\* forces key updates, all at once.
CONSTANTS
  Strategy = "first"
  LbN = 1
  Names = {"a", "b"}
  Stamps = {1, 2}
  ODoHServers = {"b"}
  InitialServers <- MCOneServer
  Queries = {q1}
  Concurrency = 1
  MaxRtt = 1
  MaxUpdates = 1
  LbEstimator = TRUE
  CertIgnoreTimestamp = TRUE
SPECIFICATION FairSpec
INVARIANTS UniqueServers TimestampsHonoured
PROPERTIES ServersNeverLost ActiveNeverDegrades RefreshTerminates StampsConverge
