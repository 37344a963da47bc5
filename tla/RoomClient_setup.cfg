SPECIFICATION Spec
CONSTANTS
  Producers = {pv, pa}
  VideoProducers = {pv}
  NoProducer = NoProducer
  EncryptionModes = {TRUE, FALSE}
  StoreBuffers = TRUE
  MaxKeys = 2
  MaxJoins = 2
INVARIANTS TypeOK KeysAreRecovered SingleConsumer ActiveEncryptorUpToDate
  DeviceOnItsWay
PROPERTY AttachedKeysAdvance
CHECK_DEADLOCK FALSE
