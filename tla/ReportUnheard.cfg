\* One report, one thread, no crash and no error.
SPECIFICATION FairSpec
CONSTANTS
    MaxReports = 1
    Requests = {q1}
    Workers = {w1}
    Sections = 2
    ActiveLimit = 1
    RequeueLimit = 1
    NoReport = NoReport
    MaxEdits = 0
    MaxMishaps = 0
PROPERTY OutcomeIsHeard
