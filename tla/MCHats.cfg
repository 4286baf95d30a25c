SPECIFICATION FairSpec
CONSTANTS
  Hats = {1, 2}
  Names = {"built", "done"}
  Topologies <- Configured
  MaxIterations = 5
  MaxLines = 4
INVARIANTS
  TypeOK
  NothingIsLost
  ClearRoutingHolds
PROPERTY StallIsBroken
CHECK_DEADLOCK FALSE
