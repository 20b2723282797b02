SPECIFICATION Spec
CONSTANTS
    Readers = {1}
    Names <- MCNames
    NoName <- MCNoName
    FileList <- TwoShortTails
    FileSize <- MCFileSize
    Unopenable = {}
    BlockSize = 2
    QueueMaxSize = 2
    DetectReaders = {}
    GotoTargets = {}
    GotoAnyTime = FALSE
    MaxPastEof = 0
INVARIANTS
    EofIsTheEnd
CHECK_DEADLOCK FALSE
