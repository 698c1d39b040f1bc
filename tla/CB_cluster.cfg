\* Two processes, one request, a time window, and stale timers.
SPECIFICATION Spec
CONSTANTS
    None = None
    Procs = {p1, p2}
    Requests = {r1}
    Gens = 1
    MaxFailures = 2
    UseWindow = TRUE
    Disruptions = {}
    MaxTimers = 2
    MaxQueue = 2
    MaxReloads = 1
SYMMETRY Symmetry
CHECK_DEADLOCK FALSE
INVARIANTS
    CounterWillExpire
    AgreementWhenQuiet
    ProbeOutstanding
    OneFailurePerRequest
