SPECIFICATION FairSpec
CONSTANTS
  Turns = 2
  Emits = 2
  Messages = 1
  Payloads = {1}
INVARIANTS
  TypeOK
  ReadExactlyOnce
PROPERTIES
  EveryQuestionEnds
CHECK_DEADLOCK FALSE
