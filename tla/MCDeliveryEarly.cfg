CONSTANTS
  r1 = r1
  r2 = r2
  r3 = r3
  k1 = k1
  k2 = k2
  w1 = w1
  w2 = w2
  NoJob = NoJob
  Calls = {r1, r2}
  Keys = {k1, k2}
  KeyOf <- OneKey
  Workers = {w1, w2}
  Service <- Eos04DownloadOnly
  StageNames <- PipelineStages
  MaxRedeliveries = 2
  EarlyRedelivery = TRUE
  CallerMayCrash = TRUE
SPECIFICATION Spec
PROPERTY
  ImplementsKeyLease
