CONSTANTS
  first = first
  second = second
  Products = {first, second}
  Day <- PassDay
  Overlap <- PassOverlap
  Coverage <- PassCoverage
  Kind <- PassKind
  Described = {first, second}
  MinBaseline = 1
  MinCoverage = 95
  TargetDays = {2}
  SupportDays = 1
  LookbackDays = 2
  MaxHistory = 1
  MaxCandidates = 2
  MaxDownloads = 2
  QueryTtl = 2
  SignedTtl = 1
  DeleteLimit = 1
  IncludeHistory = TRUE
  Profiles = {1, 2}
  LastTick = 2
  MaxFaults = 1
  Backfills <- Asked
  MaxJobs = 2
  MaxRequests = 2
  None = None
SPECIFICATION Spec
INVARIANTS
  TypeOK
  LiveLinkOpens
  ReportedChangeIsOfOneProfile
  CompletedBackfillIsWhole
