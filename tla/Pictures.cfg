SPECIFICATION PicturesSpec
CONSTANTS
    Sizes <- MCSizes
    Display <- MCDisplay
    Streams <- MCStreams
    Canvases <- MCCanvases
    BoxW = 3
    BoxH = 2
    SqS = 2
    BarW = 2
    BoxDX = 2
    BoxDY = 1
    SqDX <- MCSqDX
    SqDY = 2
    BarStep = 1
    FullEvery = 5
    TILE = 2
    Blank = 9
    MaxRects = 2
    GnomeFullEvery = 3
INVARIANTS
    PatternSafe
    RectsInside
    PictureSafe
PROPERTIES
    DamageIsMinimal
