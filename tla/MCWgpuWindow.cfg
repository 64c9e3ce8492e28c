SPECIFICATION FairSpec
CONSTANTS
    Sizes = {NoArea, Small, Large}
    NoArea = NoArea
    Small = Small
    Large = Large
    Missing = Missing
    DefaultSize = Small
    SampleCount = 4
INVARIANTS
    PassIsValid
    FrameIsCurrent
    StillMeansDrawn
PROPERTIES
    SizeIsDrawn
CHECK_DEADLOCK FALSE
