\* Two changes of the configuration, at once or one after the other, with a
\* change of the APIs and a failure among them.
SPECIFICATION FairSpec
CONSTANTS
    MaxConfigs = 2
    MaxApiChanges = 1
    MaxFailures = 1
    MaxJobs = 2
INVARIANTS
    RoutedWhileListening
    DiesOnlyOverlapping
    MixedOnlyOverlapping
PROPERTIES
    Applies
    Repairs
CHECK_DEADLOCK FALSE
