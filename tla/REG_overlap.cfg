\* Three requests about two APIs, in any order.
SPECIFICATION RegistrySpec
CONSTANTS
    NoApi = NoApi
    ApiRequests = {r1, r2, r3}
    Ids = {i1, i2}
    ApiNames = {n1, n2}
    ApiPaths = {x1, x2}
SYMMETRY Symmetry
CHECK_DEADLOCK FALSE
INVARIANTS
    ConflictsOverlap
PROPERTIES
    ApiSurprisesOverlap
