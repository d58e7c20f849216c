SPECIFICATION FairSpec
CONSTANTS
    None = None
    Processes = {p, q, r}
    Expiry = 2
    Stale = 1
    Scenarios = {{}, {"torn", "meanwhile"}, {"meanwhile", "stall", "reclaimer"}}
    MaxTime = 3
    MaxCrashes = 2
INVARIANTS
    TypeOK
    OneReclaimer
    ReclaimExcludes
PROPERTY
    Recovers
\* Every process may be through.
CHECK_DEADLOCK FALSE
