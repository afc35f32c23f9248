\* One stream after the other: resets, pings, two events in a batch, a lost transport,
\* GOAWAY and frames the library refuses.
SPECIFICATION Spec
CONSTANTS
    N = 2
    ChunkSizes = {1}
    MaxFrame = 1
    Windows = {1}
    StreamWindows = {2}
    Peer = {"data", "ended", "reset", "window", "broken", "goaway", "bad", "ping"}
    MaxBody = 1
    MaxBytes = 2
    MaxChunks = 1
    MaxData = 1
    MaxBatch = 2
    MaxWindow = 1
INVARIANTS TypeOK EndMeansComplete LoopFaults ResetWakesReader
\* the client may stop sending and the applications may end
CHECK_DEADLOCK FALSE
