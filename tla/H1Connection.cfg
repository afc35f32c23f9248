CONSTANTS
    MaxRequests = 3
    MaxData = 1
    Misuse = TRUE
SPECIFICATION FairSpec
INVARIANTS TypeOK EscapeOnlyIncomplete ClosesInTime
PROPERTIES ResponsesSpec Served
CHECK_DEADLOCK FALSE
