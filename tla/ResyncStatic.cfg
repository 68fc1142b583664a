SPECIFICATION FairSpec
CONSTANTS
    Widths = {2}
    Shown = 2
    Colours = {0, 1}
    Black = 0
    Blank = 2
    Sources = {FALSE}
    FullEvery = 3
    MaxRects = 1
    ChannelCap = 2
    PendingCap = 2
    MaxLosses = 1
    MaxBreaks = 0
    MaxChanges = 1
    MaxResizes = 0
CHECK_DEADLOCK FALSE
PROPERTIES
    RecoveryIsBounded
