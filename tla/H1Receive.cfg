CONSTANTS
    MaxRequests = 2
    MaxData = 1
    Misuse = FALSE
SPECIFICATION FairSpec
PROPERTY ReceiveReturns
CHECK_DEADLOCK FALSE
