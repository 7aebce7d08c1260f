SPECIFICATION Spec
CONSTANTS
    p1 = p1
    p2 = p2
    p3 = p3
    x1 = x1
    x2 = x2
    x3 = x3
    Products = {p1, p2, p3}
    Pixels = {x1, x2, x3}
    Dates = {1, 2}
    Indices <- MCIndices
    Required = {"ndvi", "ndwi"}
    TakenAt <- MCTakenAt
    DateOf <- MCDateOf
    Overlap <- MCOverlap
    Footprint <- MCFootprint
    Bands <- MCBands
    HasSwir = TRUE
    Results <- MCResults
    MaxDownloads = 2
    Submissions <- MCSubmissions
    MaxAge = 0
    MaxJobs = 2
    MaxRuns = 2
    MaxFaults = 1
    LastTick = 1
    None = None
INVARIANT TypeOK
INVARIANT ReadinessIsTrue
PROPERTY CompletedDateIsOneComposite
CHECK_DEADLOCK FALSE
