SPECIFICATION Spec
CONSTANTS
    Base = 5
    MaxPayload = 240
    MaxRects = 2
    MaxString = 4
    Scratch = 20
    Streams <- MCStreams
    Budget = 2
CHECK_DEADLOCK FALSE
INVARIANTS
    ReadingSafe
    ReadAsWritten
    AgreedIsUnderstood
PROPERTIES
    ReaderEnds
    HandshakeEnds
