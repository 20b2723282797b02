SPECIFICATION Spec
CONSTANTS
    Readers = {1}
    Names <- MCNames
    NoName <- MCNoName
    FileList <- FullThenShort
    FileSize <- MCFileSize
    Unopenable = {}
    BlockSize = 2
    QueueMaxSize = 2
    DetectReaders = {}
    GotoTargets = {}
    GotoAnyTime = FALSE
    MaxPastEof = 0
INVARIANTS
    EofAfterLastFile
CHECK_DEADLOCK FALSE
