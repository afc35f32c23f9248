\* A stream whose own window is narrower than the connection's.
SPECIFICATION Spec
CONSTANTS
    N = 1
    ChunkSizes = {1, 2}
    MaxFrame = 5
    Windows = {5}
    StreamWindows = {1}
    Peer = {"stream_window"}
    MaxBody = 4
    MaxBytes = 4
    MaxChunks = 2
    MaxData = 1
    MaxBatch = 1
    MaxWindow = 2
INVARIANT EndMeansComplete
\* the client may stop sending and the applications may end
CHECK_DEADLOCK FALSE
