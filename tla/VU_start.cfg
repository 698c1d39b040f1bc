\* Three processes start; in some behaviours nothing fails, in others anything does.
SPECIFICATION FairSpec
CONSTANTS
    Procs = {p1, p2, p3}
    Disruptions = {"configError", "updateError", "startError", "redisError", "crash"}
CHECK_DEADLOCK FALSE
INVARIANTS
    MigratesOnce
PROPERTIES
    ImplementsMigration
    AllStart
