\* Every command, nobody crashes: mergers settle and everyone leaves.
SPECIFICATION FairSpec
CONSTANTS
    Loops = {l1, l2}
    NoLoop = NoLoop
    Mergers = {m1, m2}
    Users = {u1}
    Commands = {"process", "retry", "merge", "orphan", "discard", "api"}
    Nobody = Nobody
    Idle = Idle
    MaxLog = 8
    MaxTorn = 0
    MaxDead = 0
PROPERTIES
    SpawnedMergerSettles
    EveryoneLeaves
CHECK_DEADLOCK FALSE
