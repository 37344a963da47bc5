SPECIFICATION Spec
CONSTANTS
  SendTransports = {s1}
  RecvTransports = {r1}
  PeerConnections = {p1}
  Producers = {a, v}
  Consumers = {c}
  DataProducers = {d}
  DataConsumers = {e}
  Client = "test"
  Device = Device
  None = None
INVARIANTS
  TypeOK
  NoFreedListener
  NoDanglingTransport
  CloseReachesAll
CHECK_DEADLOCK FALSE
