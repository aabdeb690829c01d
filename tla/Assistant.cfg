\* Two questions asked at once, one editing request, one mishap.  Each question
\* is asked once and each edit made once, so the system stops.
SPECIFICATION FairSpec
CONSTANTS
    Asks = {a1, a2}
    Editors = {e1}
    Ops = {"rename", "archive", "delete"}
    MaxEvents = 1
    MaxMessages = 3
    MaxMishaps = 1
INVARIANTS AnswerFollowsQuestion FinalIsStored CountIsCovered
PROPERTY EveryAskIsTold
CHECK_DEADLOCK FALSE
