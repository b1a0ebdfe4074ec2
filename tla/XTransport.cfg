CONSTANTS
  f1 = f1
  f2 = f2
  a1 = a1
  Calls = {f1, f2}
  IgnoreSystemDNS = TRUE
  Addresses = {a1}
  Pinning = TRUE
  MinTTL = 2
  GraceTTL = 1
  SystemTTL = 3
  TTLs = {0, 4}
  Bootstrap <- MCTwoResolvers
SPECIFICATION FairTransportSpec
PROPERTIES CachedAtLeastMinTTL KnownStaysKnown FetchEnds
