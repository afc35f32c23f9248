CONSTANTS
    V1Magic = 2  V1Line = 3
    V2Magic = 3  V2Families = 1  V2Length = 1  V2Address = 1
    HelloHead = 1  HelloFields <- Fields
    Preface = 3
    PayloadSizes = {1, 4}
    ChunkSizes = {1, 2, 4}
    MaxReceive = 4
SPECIFICATION FairSpec
INVARIANTS TypeOK ServedInOrder HandoffAtPayload BlankOnlyAfterV1
PROPERTIES ChannelSpec SetupEnds
CHECK_DEADLOCK FALSE
