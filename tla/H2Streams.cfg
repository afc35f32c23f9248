\* Two streams at once, on windows that close after every frame and open again,
\* and on one that stays wide.
SPECIFICATION FairSpec
CONSTANTS
    N = 2
    ChunkSizes = {1, 2}
    MaxFrame = 2
    Windows = {1, 2, 9}
    StreamWindows = {2}
    Peer = {"early", "window", "stream_window", "ping"}
    MaxBody = 2
    MaxBytes = 2
    MaxChunks = 2
    MaxData = 1
    MaxBatch = 1
    MaxWindow = 1
INVARIANTS NoRefusedFrame NoSleepOnData
PROPERTIES ResponseSpec LoopReturns OneChunkCompletes
\* the client may stop sending and the applications may end
CHECK_DEADLOCK FALSE
