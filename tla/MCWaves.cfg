SPECIFICATION FairSpec
CONSTANTS
  Items = 3
  Total = 4
  Concurrency = 2
  Emits = 1
INVARIANTS
  TypeOK
  TasksEndWithWave
  DoneWorkersAreHeard
  WaveIsAccountedFor
PROPERTIES
  WaveEnds
CHECK_DEADLOCK FALSE
