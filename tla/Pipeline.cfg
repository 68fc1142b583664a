SPECIFICATION FairSpec
CONSTANTS
    QueueCap = 2
    SockCap = 1
    MaxFrames = 3
    MaxInput = 2
    FullEvery = 2
    SelfPaced = FALSE
    FullFits = FALSE
INVARIANTS
    TypeOK
    StreamSafe
    ReturnedMeansReleased
    AtMostOneLateFrame
    NoteFollowsWrite
PROPERTIES
    ChannelSpec
    ConnectionEnds
