\* A loop in preflight is taken for an orphan.
SPECIFICATION Spec
CONSTANTS
    Loops = {l1, l2}
    NoLoop = NoLoop
    Mergers = {m1}
    Users = {u1}
    Commands = {"orphan"}
    Nobody = Nobody
    Idle = Idle
    MaxLog = 4
    MaxTorn = 0
    MaxDead = 0
INVARIANT MergesEndedLoops
CHECK_DEADLOCK FALSE
