SPECIFICATION FairSpec
CONSTANTS
    n1 = n1
    n2 = n2
    s1 = s1
    s2 = s2
    Request = {1, 2, 3}
    Name = {n1, n2}
    Site = {s1}
    NRegistries = 2
    NRpcs = 1
    TTL = 1
    MaxSize = 1
    Registries <- MCRegistries
    NotRegistered = NotRegistered
    Failed = Failed
    None = None
    MaxTime = 2
    MaxChanges = 1
INVARIANTS
    TypeOK
    NoSuperfluousLookup
    NeverBackInTime
    StaleAtMostTTL
    CacheBounded
PROPERTY
    EveryRequestAnswered
CHECK_DEADLOCK FALSE
