SPECIFICATION Spec
CONSTANTS
    Options <- MCOptions
    FrameSize = 3
    WriteBlock = 10
    PhysicalSector = 2
    Sector = 6
    HiRes = 12
    Gap = 2
    PcrDelta = 2
    TableDelta = 5
    SitInterval = 6
    Streams = {1, 2}
    MainStream = 1
    Steps = {0, 1, 3}
    MaxSize = 2
    MaxPackets = 4
INVARIANTS
    TypeOK
    AllData
    ArrivalTimes
    DataInTime
    FilesPlayable
