\* Two changes of the configuration, one after the other.
SPECIFICATION Spec
CONSTANTS
    MaxConfigs = 2
    MaxApiChanges = 0
    MaxFailures = 0
    MaxJobs = 2
INVARIANTS
    SurvivesChanges
CHECK_DEADLOCK FALSE
