\* Re-index requests of one version are serial; extraction does anything it may do;
\* one crash and one database error may happen anywhere.
SPECIFICATION Spec
CONSTANTS
    Docs = {d1}
    Requests = {r1, r2}
    OcrThreads = {o1}
    IndexThreads = {x1, x2}
    Readings <- MCReadings
    Passages <- MCPassages
    Blank <- MCBlank
    NoReading = NoReading
    NoDoc = NoDoc
    MaxChunks = 3
    BatchSize = 2
    RequeueLimit = 2
    OverlappingReindexes = {}
    MaxReindexes = 2
    MaxCrashes = 1
    MaxFaults = 1
SYMMETRY Interchangeable
INVARIANTS OneReadingPerVersion IndexedIsWhole
PROPERTIES PointsMoveUnderClaim
