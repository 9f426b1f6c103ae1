SPECIFICATION FairDeviceSpec
CONSTANTS
  Groups <- MCGroups
  Contents <- MCContents
  MaxStores = 3
INVARIANTS
  EnvelopeNeverWraps
  WidthsAgree
PROPERTIES
  LengthEnds
