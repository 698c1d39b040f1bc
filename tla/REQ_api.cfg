\* Two requests of an API, which may be configured in several ways.
SPECIFICATION FairSpec
CONSTANTS
    None = None
    a = a
    c1 = c1
    c2 = c2
    Requests = {r1, r2}
    Apis <- SomeApis
    Kinds <- FewKinds
    MaxRequests = 1
INVARIANTS
    Guarded
    OneAnswerOneLog
    HitsRepeatAnAnswer
    CounterIsRepaired
    RefusalsAreEarned
PROPERTIES
    AllAnswered
CHECK_DEADLOCK FALSE
