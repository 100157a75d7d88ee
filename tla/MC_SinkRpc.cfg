SPECIFICATION Spec
CONSTANTS
    Threads = {t1, t2}
    Sockets = {s1, s2}
    Codes = {keyframe}
    NoSocket = NoSocket
    Timeouts <- MCTimeouts
    SeqMod = 2
    MaxCalls = 3
INVARIANT SocketExclusive
INVARIANT NoSocketLeak
INVARIANT OwnReply
PROPERTY CallsReturn
CHECK_DEADLOCK FALSE
