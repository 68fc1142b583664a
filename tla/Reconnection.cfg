SPECIFICATION FairRSpec
CONSTANTS
    MaxFaults = 2
    MaxFrames = 1
    Buffer = 2
CHECK_DEADLOCK FALSE
INVARIANTS
    ClientSafe
    KeeperSafe
PROPERTIES
    StopEnds
    ComesBackIfSeen
