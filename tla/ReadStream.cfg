\* Two readers and two feeders; pauses, cancellations,
\* partial reads and empty chunks.
SPECIFICATION FairSpec
CONSTANTS
    Readers = {r1, r2}
    Feeders = {f1, f2}
    Stale = Stale
    FeedSizes = {0, 1, 2}
    ReadSizes = {1, 2}
    MaxBytes = 3
    MaxChunks = 2
    MaxStale = 1
INVARIANTS TypeOK Backlog NoLostWakeup NoPopFromEmpty
PROPERTIES EveryByteDelivered ChannelSpec
