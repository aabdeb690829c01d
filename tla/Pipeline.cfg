\* The two components in one process: one retry, one re-index, one crash and one
\* database error in each of them.
SPECIFICATION FairSpec
CONSTANTS
    Docs = {d1}
    Supported = {d1}
    Requests = {r1}
    OcrThreads = {o1}
    IndexThreads = {x1}
    Readings <- MCSparse
    Passages <- MCSparsePassages
    Blank <- MCSparseBlank
    NoReading = NoReading
    NoDoc = NoDoc
    MaxChunks = 2
    BatchSize = 1
    RequeueLimit = 2
    Overlapping = {}
    OverlappingReindexes = {}
    MaxRetries = 1
    MaxReindexes = 1
    MaxCrashes = 1
    MaxFaults = 1
PROPERTIES ImplementsIndex CleanShutdown EveryRunFinishes ExtractionIsIndexed
