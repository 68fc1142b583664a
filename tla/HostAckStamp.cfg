SPECIFICATION Spec
CONSTANTS
    c1 = c1
    c2 = c2
    c3 = c3
    s1 = s1
    s2 = s2
    s3 = s3
    Conn <- MCTwoConn
    SessionId <- MCTwoSessionId
    Bogus = Bogus
    NoSession = NoSession
    NoFrame = NoFrame
    Window = 8
    MaxFrames = 2
    MaxRestarts = 1
INVARIANTS
    AckUsesOwnFrame
