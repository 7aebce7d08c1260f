CONSTANTS
  a = a
  b = b
  c = c
  NoRow = NoRow
  NoJob = NoJob
  w1 = w1
  Workers = {w1}
  Scenes = {a, b, c}
  Results <- NestedResults
  ManualRequests <- NoRequests
  LastDay = 3
  SeedDays = 2
  RefreshDays = 1
  ItemCap = 2
  MaxFaults = 2
SPECIFICATION Spec
INVARIANT
  CompleteDayForgetsNothing
