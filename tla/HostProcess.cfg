SPECIFICATION Spec
CONSTANTS
    Number <- MCNumber
    Argument <- MCArgument
    MaxArguments = 4
    MaxPayload = 5000000
    Thread = {t1, t2}
    Second = 1
    MaxTime = 1
    MaxLines = 3
    MaxFrames = 2
    MaxFailures = 1
SYMMETRY Symmetry
CHECK_DEADLOCK FALSE
INVARIANTS
    ReadAsMeant
    LogNeedsPort
    SuccessIsWhole
    LogSafe
    CountsAddUp
