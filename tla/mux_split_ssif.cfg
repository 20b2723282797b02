SPECIFICATION Spec
CONSTANTS
    Modes <- MCSplitSsif
    Stop <- MCStop
    QueueMaxSize = 3
    MaxQueueSize = 1
    InterleaveBlockSize = 1
    MaxPackets = 3
    MaxSplits = 1
INVARIANTS
    DistinctNames
