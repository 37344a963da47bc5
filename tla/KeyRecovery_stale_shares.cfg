SPECIFICATION Spec
CONSTANTS
  Rooms = {ra, rb}
  Secrets = {ra, rb}
  SecretsOf <- MCSecretsOf
  Indexes = {1, 2, 3, 4}
  Batches = {{1}, {1, 2}, {2, 3, 4}}
  Threshold = 3
  DecodesBase64 = TRUE
  KeySized = {ra, rb}
  NoShare = NoShare
  NoKey = NoKey
  Garbled = Garbled
  MixedRoom = rb
  MaxConns = 2
  MaxCalls = 2
  MaxMessages = 3
PROPERTY RecoveredKeyIsDealt
CHECK_DEADLOCK FALSE
