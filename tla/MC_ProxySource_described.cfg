SPECIFICATION ProxySpec
CONSTANTS
    Kinds = {"video", "audio"}
    Metas <- MCMetas
    QueueSize = 1
    MaxSeq = 0
    MaxEpoch = 4
    MaxSubs = 8
    MaxQuiet = 1
INVARIANT FrameDescribed
CHECK_DEADLOCK FALSE
