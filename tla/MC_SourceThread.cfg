SPECIFICATION Spec
CONSTANTS
    Callers = {c1, c2}
    Workers = {w1, w2}
    Ops = {custom, metadata}
    BuiltIn = {metadata}
    UserOps = {custom}
    Malformed = malformed
    Requests = {metadata, custom, malformed}
    MaxPending = 2
    NoThread = NoThread
    NoWorker = NoWorker
PROPERTY LifeCycle
INVARIANT WorkerOwned
INVARIANT StartedHasWorker
INVARIANT ReplyInTurn
PROPERTY RequestsServed
PROPERTY StopReturns
