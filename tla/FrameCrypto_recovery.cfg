SPECIFICATION FairSpec
CONSTANTS
  Keys <- MCKeys
  KeyOf <- MCKeyOf
  KeyStreamBit <- MCKeyStreamBit
  Torn = Torn
  MaxVersion = 1
  VersionMod = 2
  Media = {"video"}
  EncModes = {TRUE, FALSE}
  DecModes = {TRUE}
  MaxInFlight = 2
PROPERTIES StragglersRunOut VersionRecovered
