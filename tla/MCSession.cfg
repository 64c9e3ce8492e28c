SPECIFICATION FairSpec
CONSTANTS
    MaxConns = 2
    Cap = 1
    SocketCap = 1
    Size <- MCSize
    Typed <- MCTyped
    MaxFaults = 1
    FewKeys = 2
INVARIANTS OneConnection ViewportFirst
PROPERTIES NeverGoesBack LossIsNoticed UiComesBack SizeIsShown
CHECK_DEADLOCK FALSE
