SPECIFICATION Spec
SYMMETRY AlikeWorkers
CONSTANTS
    a = a
    b = b
    c = c
    None = None
    w1 = w1
    w2 = w2
    Jobs = {a, b, c}
    Dialects = {"sqlite", "postgres"}
    RetryAfter = 1
    PopBatch = 2
    MaxTime = 2
    MaxId = 4
    Workers = {w1, w2}
    Operators = {"op"}
    ChainOf <- MCChainOf
    Tries = 2
    Delays = {1}
    DeletesWhenMissing = {}
    Refusable = {}
    Prompt = TRUE
    Commands = {"retry"}
    MaxRetries = 1
    MaxCrashes = 1
    MaxOutages = 0
INVARIANTS
    TypeOK
    ExclusiveReservation
    AtMostOneCopy
    RunsBounded
    
PROPERTIES
    ContractHolds
\* Every job may have settled.
CHECK_DEADLOCK FALSE
