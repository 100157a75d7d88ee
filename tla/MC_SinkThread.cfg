SPECIFICATION Spec
CONSTANTS
    Callers = {c1, c2}
    Workers = {w1, w2}
    Channels = {media, info}
    Media = media
    NoThread = NoThread
    NoWorker = NoWorker
PROPERTY LifeCycle
INVARIANT WorkerOwned
INVARIANT SocketLostOnlyInStop
PROPERTY StopReturns
