SPECIFICATION Spec
CONSTANTS
    Options <- MCFixed
    FrameSize = 3
    WriteBlock = 10
    PhysicalSector = 2
    Sector = 6
    HiRes = 12
    Gap = 2
    PcrDelta = 2
    TableDelta = 5
    SitInterval = 6
    Streams = {1, 2}
    MainStream = 1
    Steps = {0, 1}
    MaxSize = 9
    MaxPackets = 3
INVARIANT
    FixedBitrate
