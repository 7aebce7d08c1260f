CONSTANTS
  good = good
  bad = bad
  broken = broken
  Products = {good, bad, broken}
  SelectionKey <- Order
  Republished = {good}
  Lacking <- ThirdOfGood
  Invalid = {broken}
  Unfetchable = {bad}
  SourceAssets <- TwoSources
  PreparedAssets <- OnePrepared
  IndexAssets <- TwoIndices
  MaxNewScenes = 1
  NoObject = NoObject
  NoScene = NoScene
  Nobody = Nobody
  MaxFaults = 3
SPECIFICATION FairSpec
INVARIANTS
  TypeOK
  ServedSceneIsWhole
  LineageHolds
  OutputsAgree
PROPERTIES
  ImplementsLifecycle
  EveryProductServed
