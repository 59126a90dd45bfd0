SPECIFICATION FairSpec
CONSTANTS
    ByteBits = 2
    NoData = NoData
    kSyncByte = 2
    kMaxFrameDataLength = 2
    kMaxHandlers = 2
    ReadAheadSize = 3
    ChunkSize = 4
    TimestampRange = 16
    AirTime = 1
    RunLatency = 1
    MaxDamaged = 1
    MaxQueued = 2
    MaxTicks = 7
    Setups <- OnEventSetups
PROPERTIES
    PendingFrameIsSent
CHECK_DEADLOCK FALSE
