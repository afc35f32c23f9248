\* Wide windows, one stream: when the end of a response is sent.
SPECIFICATION FairSpec
CONSTANTS
    N = 1
    ChunkSizes = {1, 2}
    MaxFrame = 3
    Windows = {9}
    StreamWindows = {9}
    Peer = {"data"}
    MaxBody = 2
    MaxBytes = 2
    MaxChunks = 2
    MaxData = 1
    MaxBatch = 1
    MaxWindow = 9
PROPERTY ResponseCompletes
\* the client may stop sending and the applications may end
CHECK_DEADLOCK FALSE
