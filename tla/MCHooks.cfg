SPECIFICATION FairSpec
CONSTANTS
  Configured <- MCConfigured
  Iterations = 3
  Sessions = 3
  Attempts = 4
INVARIANTS
  TypeOK
  SuspensionIsTrue
  StopIsFinal
PROPERTIES
  VerdictStands
  StopIsAnswered
  EveryRunEnds
CHECK_DEADLOCK FALSE
