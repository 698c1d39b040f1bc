\* One process; reloads, errors, lost events and crashes.
SPECIFICATION FairSpec
CONSTANTS
    None = None
    Procs = {p1}
    Requests = {r1}
    Gens = 2
    MaxFailures = 1
    UseWindow = FALSE
    Disruptions = {"reload", "reloadError", "cmdError", "eventLoss", "crash"}
    MaxTimers = 1
    MaxQueue = 2
    MaxReloads = 1
CHECK_DEADLOCK FALSE
INVARIANTS
    TypeOK
    OpenHasTimer
PROPERTIES
    RejectingEnds
