CONSTANTS
  Queries = {"q1"}
  MaxKeys = 2
  MaxTries = 2
  MaxConfigs = 1
SPECIFICATION Spec
INVARIANT InstallsAccepted
PROPERTY KeyUpdated UpdatesEnd
