SPECIFICATION Spec
CONSTANTS
    Callers = {c1}
    Procs = {p1, p2}
    Pollers = {g1, g2}
    None = None
    Restart = TRUE
    Aging = FALSE
INVARIANT StopTerminates
CHECK_DEADLOCK FALSE
