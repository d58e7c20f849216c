SPECIFICATION Spec
SYMMETRY AlikeWorkers
CONSTANTS
    a = a
    b = b
    c = c
    None = None
    w1 = w1
    w2 = w2
    Jobs = {a, b}
    Dialects = {"sqlite", "postgres"}
    RetryAfter = 2
    PopBatch = 2
    MaxTime = 2
    MaxId = 4
    Workers = {w1, w2}
    Operators = {"op"}
    ChainOf <- MCChainOfOne
    Tries = 2
    Delays = {0, 1}
    DeletesWhenMissing = {a}
    Refusable = {b}
    Prompt = FALSE
    Commands = {"retry", "forget", "flush", "clear"}
    MaxRetries = 1
    MaxCrashes = 1
    MaxOutages = 1
INVARIANTS
    OneTable
    NoJobLost
PROPERTIES
    ReservationRespected
\* Every job may have settled.
CHECK_DEADLOCK FALSE
