SPECIFICATION Spec
SYMMETRY Alike
CONSTANTS
    None = None
    Processes = {p, q, r}
    Expiry = 2
    Stale = 1
    Scenarios = {{"meanwhile"}}
    MaxTime = 1
    MaxCrashes = 0
INVARIANT
    AcquireExcludes
\* Every process may be through.
CHECK_DEADLOCK FALSE
