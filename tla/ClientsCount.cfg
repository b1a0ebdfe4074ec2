CONSTANTS
  w1 = w1
  w2 = w2
  w3 = w3
  Workers = {w1, w2, w3}
  MaxClients = 3
  Wrap = 8
SPECIFICATION FairSpec
PROPERTIES ImplementsSlots LockFree
