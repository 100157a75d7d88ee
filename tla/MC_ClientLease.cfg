SPECIFICATION Spec
CONSTANTS
    Clients = {c1}
    Lease = 18
    Third = 6
    ReplyTimeout = 2
    Retry = 6
    Interval = 2
    SourceInt = 2
    Latency = 1
    Sec = 2
    Phase = 1
    MaxClients = 1
    Tolerated = 1
    MaxTime = 26
    MaxStarts = 3
INVARIANT KeepAlive
INVARIANT NeverSilent
INVARIANT DeadKicked
INVARIANT Capacity
CHECK_DEADLOCK FALSE
