SPECIFICATION EditorSpec
CONSTANTS
    Quarter = 2
    NoAge = NoAge
    MAX_AGE = 1
    Text <- Text_
    NoText = NoText
    Free = Free
    Unset = Unset
    MaxLines = 3
    MaxGeneration = 5
    Window <- Window_
    Words = {a, b}
    Blank = Blank
    UNSCALED_FONT_SIZE = 2
    FontHeight = 4
    LineAdvance = 4
    AverageWidth = 2
INVARIANTS
    ChildrenMatchLayout
    NextFrameUnwraps
    UnusedIsPruned
    LinesEndAtStatus
    OneSize
PROPERTY ReusesAllItCan
