SPECIFICATION Spec
CONSTANTS
  Producers = {pv, pw}
  VideoProducers = {pv, pw}
  NoProducer = NoProducer
  EncryptionModes = {TRUE}
  StoreBuffers = FALSE
  MaxKeys = 2
  MaxJoins = 1
PROPERTY RecoveryReachesDecryptors
CHECK_DEADLOCK FALSE
