SPECIFICATION FairSpec
CONSTANTS
    Callers = {c1, c2}
    Procs = {p1, p2}
    Pollers = {g1, g2}
    None = None
    Restart = TRUE
    Aging = TRUE
INVARIANT LeakOnlyInLaunch
INVARIANT StoppingPasses
INVARIANT StartedIsWatched
PROPERTY StopEnds
PROPERTY Relaunched
CHECK_DEADLOCK FALSE
