\* One process, two APIs; in some behaviours jobs fail and the process restarts.
SPECIFICATION FairSpec
CONSTANTS
    Procs = {p1}
    Apis = {a1, a2}
    Paths = {x1}
    Disruptions = {"loadError", "crash"}
    MaxUpdates = 3
    MaxJobs = 3
CHECK_DEADLOCK FALSE
INVARIANTS
    SettledRoutesMatch
PROPERTIES
    ServedStaysServed
    Propagates
