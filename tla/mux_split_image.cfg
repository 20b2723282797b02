SPECIFICATION Spec
CONSTANTS
    Modes <- MCSplitImage
    Stop <- MCStop
    QueueMaxSize = 3
    MaxQueueSize = 1
    InterleaveBlockSize = 1
    MaxPackets = 3
    MaxSplits = 1
INVARIANTS
    FilesComplete
