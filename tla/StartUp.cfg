SPECIFICATION Spec
CONSTANTS
  ListenAddresses <- MCListenAddresses
  DoHAddresses <- MCDoHAddresses
  Configs <- MCConfigs
  MaxTimeout = 2
  Descriptors <- MCDescriptors
  ActivatedUDP = {4}
  Base = 10
  Contested <- MCContested
  Clients <- MCClients
  Late = {"a2"}
  MaxQueue = 2
CHECK_DEADLOCK FALSE
INVARIANT RightSockets ReadyMeansReachable
PROPERTY InUseOnlyByOthers StartUpEnds
