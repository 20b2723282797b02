SPECIFICATION Spec
CONSTANTS
    Inputs <- MCInputs
    MinReadBlock = 2
    MaxBlock = 3
    FileBlock = 2
    MaxDemuxBuffer = 6
INVARIANTS
    TypeOK
    HandedOverOnce
    AllSent
PROPERTIES
    InDtsOrder
    MergeEnds
