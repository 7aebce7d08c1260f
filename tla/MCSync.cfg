CONSTANTS
  a = a
  b = b
  c = c
  NoRow = NoRow
  NoJob = NoJob
  w1 = w1
  Workers = {w1}
  Scenes = {a, b, c}
  Results <- NestedResults
  ManualRequests <- DayOneRequests
  LastDay = 3
  SeedDays = 2
  RefreshDays = 1
  ItemCap = 2
  MaxFaults = 1
SPECIFICATION Spec
INVARIANTS
  TypeOK
  CompleteDayIsPublished
  QuietDayForgetsNothing
PROPERTIES
  PublishedStaysPublished
  CompletedRunLeavesNoGap
  RetriesNeverForgotten
