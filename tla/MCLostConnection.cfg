SPECIFICATION FairSpec
CONSTANTS
    MaxConns = 1
    Cap = 1
    SocketCap = 1
    Size <- MCSize
    Typed <- MCNothing
    MaxFaults = 1
    FewKeys = 0
PROPERTIES CloseIsTold
CHECK_DEADLOCK FALSE
