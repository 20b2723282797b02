SPECIFICATION Spec
CONSTANTS
    Files <- MCFiles
    Blocks <- MCBlocks
    Stop <- MCStop
    Outcomes = {"ok", "short", "throws"}
    QueueMaxSize = 4
    MaxQueueSize = 1
    MaxBlocks = 4
INVARIANTS
    TypeOK
    EmptyMeansWritten
    QueueBound
PROPERTIES
    IsOrderedWriter
    EventuallyWritten
    CallsReturn
\* The program ends once the destructor has returned.
CHECK_DEADLOCK FALSE
