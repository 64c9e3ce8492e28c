SPECIFICATION Spec
CONSTANTS
    w1 = w1
    w2 = w2
    w3 = w3
    small = small
    large = large
    a = a
    b = b
    c = c
    Worker = {w1, w2, w3}
    FrameTask = w1
    Slot = {1, 2, 3}
    NoSlot = NoSlot
    PARALLEL_OVER = 1
    font_names_len = 2
    default_font = default_font
    Options = {small, large}
    Cluster = {a, b, c}
    Texts <- Texts_
    Status <- Status_
INVARIANTS
    InsertedOnce
    FontsOfTheText
PROPERTY AllRendered
