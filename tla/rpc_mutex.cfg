SPECIFICATION Spec
CONSTANTS
    Callers = {"c"}
    Watchers = {}
    Deployers = {"d"}
    Preparers = {"p"}
    Faults = {"request"}
    MaxCalls = 2
    MaxFaults = 1
    None = None
INVARIANTS RpcMutexReleased
CHECK_DEADLOCK FALSE
