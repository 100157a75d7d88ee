SPECIFICATION Spec
CONSTANTS
    Callers = {c1, c2}
    Streams = {s1, s2}
    Procs = {p1, p2}
    MaxCrashes = 1
    None = None
INVARIANT NoOrphan
INVARIANT OneSource
INVARIANT ConfAgrees
INVARIANT NameFree
PROPERTY AllEnd
CHECK_DEADLOCK FALSE
