\* Two tasks, three runs, one restart.
SPECIFICATION FairSpec
CONSTANTS
    t1 = t1
    t2 = t2
    Tasks = {t1, t2}
    Priority <- MCPriority
    MaxRuns = 3
    MaxConcurrent = 2
    MaxLives = 2
    NoTask = NoTask
    NoRun = NoRun
INVARIANTS
    TypeOK
    LastRunSpeaks
    OneAtATime
PROPERTIES
    LateEndsAreIgnored
    EveryRunIsServed
CHECK_DEADLOCK FALSE
