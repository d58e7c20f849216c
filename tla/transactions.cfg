SPECIFICATION Spec
SYMMETRY Alike
CONSTANTS
    None = None
    Calls = {f, g, h}
    Connections = {main, analytics}
INVARIANTS
    TypeOK
    Atomic
    
    CallbacksInOrder
    DroppedOnlyByRollback
\* Every call may have ended.
CHECK_DEADLOCK FALSE
