SPECIFICATION Spec
CONSTANTS
    window = window
    left = left
    right = right
    deep = deep
    text = text
    box = box
    Block <- MCBlock
    Top = Top
    Parent <- MCParent
    Ancestors <- MCAncestors
    Wire <- MCWire
    MetaWire <- MCMetaWire
    Absent = Absent
    Layer = {0, 1}
    Loc = {near, far}
    NoLayer = NoLayer
INVARIANTS
    TypeOK
    LayersConsistent
    ContainersPresent
    NothingLeftBehind
PROPERTIES
    ImplementsTree
    DoesWhatItSays
