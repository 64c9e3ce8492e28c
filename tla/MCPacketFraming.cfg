SPECIFICATION FairSpec
CONSTANTS
    HeaderLength = 4
    Count = 3
    Start <- MCStart
    Room = 9
    Garbled = 2
INVARIANTS
    
    NothingLost
PROPERTIES
    ImplementsQueue
    EverythingArrives
