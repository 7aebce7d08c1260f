CONSTANTS
  liss3 = liss3
  liss4 = liss4
  eos04 = eos04
  landsat = landsat
  m1 = m1
  o1 = o1
  w1 = w1
  w2 = w2
  Nobody = Nobody
  NoPlan = NoPlan
  NoKey = NoKey
  ResourceSat = {liss3, liss4}
  Liss3 = liss3
  Checked = {landsat}
  Direct = {eos04}
  Registry = {liss3, liss4}
  Scheduled = {liss3}
  CheckedTicks <- EveryDay
  DirectTicks <- FirstDay
  WindowDays <- OneDay
  RefreshDays <- RefreshNextDay
  Maintenance = {m1}
  Operators = {o1}
  Workers = {w1}
  CliRequests <- CliWindows
  ApiRequests <- ApiKeys
  LastDay = 2
  MaxFaults = 1
SPECIFICATION FairSpec
INVARIANTS
  TypeOK
  LockMatchesHolder
  WindowRunsOnce
  BeatNeverPilesUp
PROPERTY
  EveryScheduledSourceSucceeds
