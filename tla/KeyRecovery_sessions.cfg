SPECIFICATION FairSpec
CONSTANTS
  Rooms = {ra, rb}
  Secrets = {ra, rb, short}
  SecretsOf <- MCSecretsOf
  Indexes = {1, 2, 3, 4}
  Batches = {{1}, {2, 3, 4}}
  Threshold = 3
  DecodesBase64 = TRUE
  KeySized = {ra, rb}
  NoShare = NoShare
  NoKey = NoKey
  Garbled = Garbled
  MixedRoom = rb
  MaxConns = 2
  MaxCalls = 2
  MaxMessages = 2
INVARIANTS TypeOK VersionsOrdered
PROPERTIES PureSharesRecover CompletionsKept SharesLeadToRecovery
CHECK_DEADLOCK FALSE
