CONSTANTS
  r1 = r1
  r2 = r2
  r3 = r3
  k1 = k1
  k2 = k2
  w1 = w1
  w2 = w2
  NoJob = NoJob
  Calls = {r1, r2, r3}
  Keys = {k1, k2}
  KeyOf <- TwoKeys
  Workers = {w1, w2}
  Service <- Sentinel2Backfill
  StageNames <- PipelineStages
  MaxRedeliveries = 2
  EarlyRedelivery = FALSE
  CallerMayCrash = FALSE
SPECIFICATION FairSpec
INVARIANTS
  TypeOK
  NoConcurrentSameKey
  EachTaskHasOneWorker
  SettledJobHasNoRunningStage
  UnsettledJobHasCarrier
  CompletedJobRanPipeline
PROPERTY
  EveryJobSettles
