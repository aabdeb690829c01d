\* Two requests that overlap each other and the worker that tells of them, an inbox with
\* room for one event, one failure, crash or timeout.
SPECIFICATION FairSpec
CONSTANTS
    Requests = {q1, q2}
    Workers = {w1}
    Lawyers = {l1, l2}
    Admin = admin
    Nobody = nobody
    Incumbent = l1
    Muted = {}
    Targets = {"open", "waiting_for_hearing"}
    LastDate = 2
    InboxSize = 1
    MaxMishaps = 1
INVARIANTS SerialUpdatesAreSound ToldWereEntitled NoRepeatInWindow
PROPERTY AssignedAreTold
