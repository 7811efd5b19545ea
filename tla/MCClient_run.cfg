CONSTANTS
    defaultMaxFrameSize = 2
    Pids = {1, 2}
    NoPid = 0
    controlAttempts = 2
    consecutiveSampleErrors = 2
    MaxSamples = 2
    CommandLines <- MCCommandLines
    MaxConns = 1
    RequestLen = 2
    numCPU = 1
SPECIFICATION LiveSpec
INVARIANTS
    RightProcess
    SetupFeeds
    SamplesKept
    FailsEarly
    BatchFits
PROPERTIES
    NoSampleAfterStop
    
