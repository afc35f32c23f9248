SPECIFICATION FairSpec
CONSTANTS
    MaxFrames = 3
    MaxBuffered = 2
INVARIANTS TypeOK ClosedInOrder EscapeReasons HandshakeFirst
PROPERTY NoHalfOpen
\* the client may send nothing more and the application may have ended
CHECK_DEADLOCK FALSE
