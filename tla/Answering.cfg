\* One question; passages of lengths 1 to 3 with room for 5 and at least 2 of a
\* passage cut short; citation markers 0, 1 and 3.  A run is asked once.
SPECIFICATION AnsweringSpec
CONSTANTS
    Questions = {a1}
    Lengths = {1, 2, 3}
    MaxPassages = 3
    MaxCitations = 3
    Budget = 5
    MaxPassage = 3
    MinPassage = 2
    Markers = {0, 1, 3}
    MaxTokens = 4
    MaxAttempts = 3
INVARIANTS MarkersResolve SentinelIsWithheld FragmentsAreOneReply ContextIsMostRelevant
PROPERTY ImplementsReply
CHECK_DEADLOCK FALSE
