SPECIFICATION DrawSpec
CONSTANTS
    Quarter = 2
    NoAge = NoAge
    MAX_AGE = 0
    Text = {a}
    NoText = NoText
    Free = Free
    Unset = Unset
    MaxLines = 3
    MaxGeneration = 3
    Enclosure = Enclosure
    Editor = Editor
    Center = Center
    StatusLine = StatusLine
    Status = Status
    StatusText = {normal}
    Box = Box
    Home = Home
    Top = Top
    Absent = Absent
    MaxBacklog = 1
    MaxOldFrames = 1
    Buffered = {Editor}
    NotRendered = NotRendered
INVARIANTS
    NothingSentTooEarly
    StaleLinesGoAway
    FirstUsesArrive
    NoOldText
    WholePicturesAreRight
