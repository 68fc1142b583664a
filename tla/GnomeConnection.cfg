SPECIFICATION MovingCSpec
CONSTANTS
    QueueCap = 1
    SockCap = 1
    MaxFrames = 2
    MaxInput = 1
    FullEvery = 0
    SelfPaced = TRUE
    FullFits = TRUE
    PipeCap = 1
    MaxCanvases = 2
CHECK_DEADLOCK FALSE
INVARIANTS
    SourceSafe
    GoneOnReturn
    CanvasesOnStream
PROPERTIES
    SourceSpec
    CanvasesInOrder
    UnplugEndsAll
    FailureEndsAll
