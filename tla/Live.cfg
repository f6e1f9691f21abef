SPECIFICATION LiveSpec
CONSTANTS
    FeedBound = 6
    ControlsBound = 2
    MaxMounts = 2
    MaxFailures = 1
    MaxEvents = 3
    BufferCap = 1
    LogCap = 2
    MaxBps = 1
    FrameCap = 1
    SparkCap = 2
    MaxCalls = 2
    MaxOverlap = 1
    MaxModeClicks = 2
    MaxLost = 1
    Providers <- P
    Pools <- MCPools
    MinRows = 1
    Fan = 2
    ParticleCap = 3
    Pauses = {16, 5000}
INVARIANTS
    LiveTypeOK
    ChainsBounded
    LogInOrder
    ConnectedIsTruthful
    SparkFollows
    OneCommandAtATime
    SingleLoop
    DownloadsShowTheirNode
    PipesMeetNodes
PROPERTIES
    NoBacklog
    
