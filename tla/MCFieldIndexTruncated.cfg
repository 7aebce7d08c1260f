CONSTANTS
  r1 = r1
  clear = clear
  hazy = hazy
  edge = edge
  source = source
  before = before
  part = part
  Requests = {r1}
  Scenes = {clear, hazy, edge, source, before, part}
  Row <- SixScenes
  Mask <- SixMasks
  Valued <- SixRasters
  Dates = {1, 2}
  WindowDays = 1
  MaxCandidates = 3
  MinPixels = 1
  MinCoverage = 95
  CloudLimits = {20}
  MaxOutages = 1
  NoScene = NoScene
SPECIFICATION Spec
INVARIANT
  UnavailableMeansNone
