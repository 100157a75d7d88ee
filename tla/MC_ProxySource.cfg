SPECIFICATION FairSpec
CONSTANTS
    Kinds = {"video", "audio"}
    Metas <- MCMetas
    QueueSize = 2
    MaxSeq = 0
    MaxEpoch = 4
    MaxSubs = 8
    MaxQuiet = 2
INVARIANT NoFrameRejected
INVARIANT MismatchRemembered
PROPERTY Resync
CHECK_DEADLOCK FALSE
INVARIANT ErrorAnnounced
