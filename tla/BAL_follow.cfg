\* A balancer and two filters, one of them the gateway's, on two keys.
SPECIFICATION FairSpec
CONSTANTS
    Filters = {filter}
    GatewayFilters = {gateway}
    Lb = lb
    KeyOf <- TwoKeys
    Items = {i2, a1}
    Destinations = {i1, i2, i3}
    ItemsOf <- TwoLists
    FixedItems <- OneFixed
    Checkable = {i1, i2}
    None = None
    FailCount = 3
    MaxChanges = 1
    MaxReloads = 1
    MaxArrays = 2
    ChoosesWhileChecking = FALSE
    i1 = i1
    i2 = i2
    i3 = i3
    a1 = a1
    filter = filter
    lb = lb
    gateway = gateway
CHECK_DEADLOCK FALSE
INVARIANTS
    DownNeedsFailures
    
PROPERTIES
    
    ChecksGoOn
