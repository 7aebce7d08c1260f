CONSTANTS
  NoSession = NoSession
  Pages <- ThreePages
  PageLinks <- Links
  AoiBox <- Aoi
  ItemLimits = {0, 3}
  MaxRetries = 1
  TokenLife = 3
  BodyChunks = 2
  LastTick = 3
  MaxFaults = 2
  MaxCalls = 2
SPECIFICATION FairSpec
INVARIANTS
  TypeOK
  SearchReturnsEveryItem
  RefusedTokenNotSent
  ProductInPlaceIsWhole
PROPERTY
  EveryCallEnds
