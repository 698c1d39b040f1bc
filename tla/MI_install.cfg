\* Two processes of a host install two updates; one of them may die.
SPECIFICATION FairSpec
CONSTANTS
    Procs = {p1, p2}
    Names = {n1}
    Disruptions = {"crash", "slowInstall"}
    MaxUpdates = 2
    MaxJobs = 2
    MaxCrashes = 1
CHECK_DEADLOCK FALSE
INVARIANTS
    OneInstaller
PROPERTIES
    NeverOlder
    FilesComeBack
