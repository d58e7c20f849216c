SPECIFICATION Spec
CONSTANTS
    p = p
    q = q
    r = r
    a = a
    b = b
    v = v
    w = w
    Absent = Absent
    Keys <- MCKeys
    Clients <- MCClients
    Mixes <- MCMixes
    Max = 2
    Decay = 1
    MaxHits = 3
    Sessions <- MCSessions
    Settings <- MCSettings
    MapTtl = 1
    MaxWrites = 2
    Dispatchers <- MCDispatchers
    Pool <- MCPool
    UniqueFor = 1
    Copies <- MCCopies
    Callers <- MCCallers
    LockFor <- MCLockFor
    Patience = 1
    ValueTtl = 2
    Nobody = Nobody
    Procs <- MCProcs
    MaxCount = 2
CONSTRAINT Unfaulted
INVARIANTS
    CacheTypeOK
    OverLimitExplained
    NeverEndless
    StaleExplained
    
    
    HolderHolds
    SingleFlight
    KeyIsKept
PROPERTIES
    IncrementIsAtomic
    
    StaleEnds
    Reopens
    LockReopens
