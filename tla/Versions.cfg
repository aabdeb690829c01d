\* An upload and two requests of any kind that overlap it and each other; two failures or
\* crashes anywhere.
SPECIFICATION FairSpec
CONSTANTS
    Requests = {q1, q2, q3}
    Names = {n1, n2}
    Details = {d1}
    NoRequest = NoRequest
    Nothing = Nothing
    MaxMishaps = 2
INVARIANTS HistoryIsNumbered VersionsAreStored RowIsNewest
PROPERTIES HistoryIsKept CurrentIsExtracted
CHECK_DEADLOCK FALSE
