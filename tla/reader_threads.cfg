SPECIFICATION Spec
CONSTANTS
    Readers = {1, 2}
    Names <- MCNames
    NoName <- MCNoName
    FileList <- SingleFiles
    FileSize <- MCFileSize
    Unopenable = {}
    BlockSize = 2
    QueueMaxSize = 5
    DetectReaders = {}
    GotoTargets = {}
    GotoAnyTime = FALSE
    MaxPastEof = 1
INVARIANTS
    TypeOK
    QueueAccounting
    NoUseAfterFree
    BuffersDisjoint
PROPERTIES
    DeletedIsFreed
    CallsReturn
\* The program ends once the destructor has returned; a call that hangs
\* earlier is caught by CallsReturn.
CHECK_DEADLOCK FALSE
