SPECIFICATION Spec
CONSTANTS
    c1 = c1
    c2 = c2
    c3 = c3
    s1 = s1
    s2 = s2
    s3 = s3
    Conn <- MCConn
    SessionId <- MCSessionId
    Bogus = Bogus
    NoSession = NoSession
    NoFrame = NoFrame
    Window = 2
    MaxFrames = 2
    MaxRestarts = 1
SYMMETRY Symmetry
INVARIANTS
    TypeOK
    TableSafe
PROPERTIES
    SessionsRetained
