SPECIFICATION Spec
CONSTANTS
    Modes <- MCModes
    Stop <- MCStop
    QueueMaxSize = 3
    MaxQueueSize = 1
    InterleaveBlockSize = 1
    MaxPackets = 3
    MaxSplits = 1
INVARIANTS
    TypeOK
    OutputFiles
    WritesGoToOpenFiles
    SideBlocksFirst
    AssertionsHold
PROPERTIES
    MuxEnds
