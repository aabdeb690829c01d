\* Retries of d2 overlap, those of the others are serial; one of three versions is of
\* a type that is not read; one crash and one database error may happen anywhere.
SPECIFICATION Spec
CONSTANTS
    Docs = {d1, d2, d3}
    Supported = {d1, d2}
    Requests = {r1, r2}
    Workers = {w1, w2}
    Readings = {t1, t2}
    NoReading = NoReading
    NoDoc = NoDoc
    RequeueLimit = 3
    Overlapping = {d2}
    MaxRetries = 3
    MaxCrashes = 1
    MaxFaults = 1
SYMMETRY Interchangeable
INVARIANTS ExclusiveRun PagesIffCompleted NoPendingRunLost
PROPERTY ImplementsLifecycle
