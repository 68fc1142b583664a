SPECIFICATION FairSpec
CONSTANTS
    Widths = {2, 3}
    Shown = 2
    Colours = {0, 1}
    Black = 0
    Blank = 2
    Sources = {FALSE, TRUE}
    FullEvery = 3
    MaxRects = 1
    ChannelCap = 1
    PendingCap = 2
    MaxLosses = 1
    MaxBreaks = 1
    MaxChanges = 2
    MaxResizes = 1
CHECK_DEADLOCK FALSE
INVARIANTS
    ShownSafe
PROPERTIES
    PatternRecovers
    SettlesButForLoss
