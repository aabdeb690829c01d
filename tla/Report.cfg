\* Two reports and room for one: requests that overlap pass the limit together, three
\* regenerations or withdrawals, one crash or database error anywhere.
SPECIFICATION FairSpec
CONSTANTS
    MaxReports = 2
    Requests = {q1, q2}
    Workers = {w1, w2}
    Sections = 1
    ActiveLimit = 1
    RequeueLimit = 2
    NoReport = NoReport
    MaxEdits = 3
    MaxMishaps = 1
INVARIANTS ActiveBounded ContentOfLatestAttempt
PROPERTIES WithdrawnIsFinal ReportsFinish
