SPECIFICATION FairSpec
CONSTANTS
    None = None
    Processes = {p, q, r}
    Expiry = 2
    Stale = 1
    Scenarios = {{"torn"}}
    MaxTime = 3
    MaxCrashes = 2
PROPERTY
    CrashNeverBlocks
\* Every process may be through.
CHECK_DEADLOCK FALSE
