SPECIFICATION Spec
CONSTANTS
    Kinds = {"video", "audio"}
    Metas <- MCMetas
    QueueSize = 2
    MaxSeq = 3
    MaxEpoch = 2
    MaxSubs = 2
INVARIANT LossExact
INVARIANT NoOverCount
