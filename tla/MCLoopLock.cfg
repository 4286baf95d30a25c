\* Three processes, loops and probes alike.
SPECIFICATION LockFairSpec
CONSTANTS
    Procs = {p1, p2, p3}
    Commands = {"run", "exclusive", "probe"}
    Nobody = Nobody
    Empty = Empty
INVARIANTS
    RunningLoopIsNamed
PROPERTY WaiterGetsIn
CHECK_DEADLOCK FALSE
