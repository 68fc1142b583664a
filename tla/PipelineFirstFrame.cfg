SPECIFICATION Spec
CONSTANTS
    QueueCap = 2
    SockCap = 1
    MaxFrames = 3
    MaxInput = 3
    FullEvery = 0
    SelfPaced = FALSE
    FullFits = TRUE
INVARIANTS
    FirstFrameIsFull
