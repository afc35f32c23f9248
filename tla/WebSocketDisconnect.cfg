\* An application that waits in receive when the connection ends.
SPECIFICATION FairSpec
CONSTANTS
    MaxFrames = 1
    MaxBuffered = 1
PROPERTY DisconnectTold
\* the client may send nothing more and the application may have ended
CHECK_DEADLOCK FALSE
