\* A goroutine with all clients and protocols, one whose clients only hold a
\* slot, and the listener.
CONSTANTS
  g1 = g1
  g2 = g2
  Goroutines = {g1, g2}
  Silent = {g2}
  MaxClients = 2
  Servers = {"none", "DNSCrypt", "DoH", "ODoH"}
  Accepted = {"tcp", "local_doh"}
  MainProto = "udp"
  Forwarding = TRUE
  DNS64 = TRUE
  CacheSize = 1
SPECIFICATION FairSpec
INVARIANTS SlotsExact OneAnswer TruncatedOnlyOverTCP
PROPERTIES OutageServesStale QueriesEnd
