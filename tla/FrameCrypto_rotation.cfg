SPECIFICATION Spec
CONSTANTS
  Keys <- MCKeys
  KeyOf <- MCKeyOf
  KeyStreamBit <- MCKeyStreamBit
  Torn = Torn
  MaxVersion = 2
  VersionMod = 4
  Media = {"video"}
  EncModes = {TRUE, FALSE}
  DecModes = {TRUE, FALSE}
  MaxInFlight = 1
INVARIANTS TypeOK LabelBindsKey NoGarbledFrame SameVersionReadable
PROPERTY KeepsChannel
