\* An API whose path is changed is still answered at its old path.
SPECIFICATION Spec
CONSTANTS
    Procs = {p1}
    Apis = {a1}
    Paths = {x1, x2}
    Disruptions = {}
    MaxUpdates = 2
    MaxJobs = 2
INVARIANTS
    AnsweredAtItsPath
CHECK_DEADLOCK FALSE
