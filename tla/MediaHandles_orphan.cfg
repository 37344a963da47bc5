SPECIFICATION Spec
CONSTANTS
  SendTransports = {s1}
  RecvTransports = {}
  PeerConnections = {}
  Producers = {a, v}
  Consumers = {}
  DataProducers = {}
  DataConsumers = {}
  Client = "app"
  Device = Device
  None = None
INVARIANT CloseReachesAll
CHECK_DEADLOCK FALSE
