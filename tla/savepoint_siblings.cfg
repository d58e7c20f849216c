SPECIFICATION Spec
SYMMETRY Alike
CONSTANTS
    None = None
    Calls = {f, g, h}
    Connections = {main}
INVARIANT
    CommittedWorkCallsBack
\* Every call may have ended.
CHECK_DEADLOCK FALSE
