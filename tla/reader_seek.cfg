SPECIFICATION Spec
CONSTANTS
    Readers = {1, 2}
    Names <- MCNames
    NoName <- MCNoName
    FileList <- FileAndList
    FileSize <- MCFileSize
    Unopenable = {}
    BlockSize = 2
    QueueMaxSize = 2
    DetectReaders = {1}
    GotoTargets = {1}
    GotoAnyTime = FALSE
    MaxPastEof = 0
INVARIANTS
    
    JoinedFiles

    
CHECK_DEADLOCK FALSE
