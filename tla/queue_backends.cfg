SPECIFICATION Spec
CONSTANTS
    a = a
    b = b
    v = v
    w = w
    o = o
    p = p
    Nothing = Nothing
    NoJob = NoJob
    Payloads <- MCPayloads
    Hands <- MCWorkers
    Operators <- MCOperators
    Tries = 2
    MaxIds = 2
    MaxFaults = 2
    Dispatches <- MCDispatches
    Children <- MCWorkers
    ConfiguredWorkers = 2
    CrashLoopThreshold = 2
    MaxAttempts = 2
    MaxEvents = 2
CHECK_DEADLOCK FALSE
INVARIANTS
    BackendsTypeOK
    OneCopy
    NeverLost
    TriesHold
    InTurn
PROPERTIES
    RedisSettles
    WatchSettles
