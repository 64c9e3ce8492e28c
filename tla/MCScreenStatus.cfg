SPECIFICATION ScreenSpec
CONSTANTS
    Quarter = 2
    NoAge = NoAge
    MAX_AGE = 0
    Text = {a, b}
    NoText = NoText
    Free = Free
    Unset = Unset
    MaxLines = 2
    MaxGeneration = 5
    Enclosure = Enclosure
    Editor = Editor
    Center = Center
    StatusLine = StatusLine
    Status = Status
    StatusText = {normal, insert}
    Box = Box
    Home = Home
    Top = Top
    Absent = Absent
    MaxBacklog = 2
    MaxOldFrames = 0
INVARIANT StatusArrives
