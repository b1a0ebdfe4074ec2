SPECIFICATION FairCloakSpec
CONSTANTS
  Sessions = {s1, s2}
  TTL = 2
  MaxTime = 3
INVARIANTS CompleteUnlessOverlapped
PROPERTIES SessionsEnd
