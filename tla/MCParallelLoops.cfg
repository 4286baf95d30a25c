\* Three runs, two mergers, a command that leaves the worktrees alone, a crash.
SPECIFICATION Spec
CONSTANTS
    Loops = {l1, l2, l3}
    NoLoop = NoLoop
    Mergers = {m1, m2}
    Users = {u1}
    Commands = {"retry", "merge"}
    Nobody = Nobody
    Idle = Idle
    MaxLog = 8
    MaxTorn = 1
    MaxDead = 1
SYMMETRY Symmetry
INVARIANTS
    MergedIsLanded
    WorkIsKept
    MergesEndedLoops
PROPERTY LifecycleSpec
CHECK_DEADLOCK FALSE
