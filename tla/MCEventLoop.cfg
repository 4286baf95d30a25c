SPECIFICATION FairSpec
CONSTANTS
    AgentLines = {"proof", "boast", "ack", "complete", "cancel", "garbage"}
    Required = {"build.done"}
    MaxIterations = 3
    MaxFailures = 1
    MaxRejections = 1
    Judge = TRUE
    Persistent = FALSE
    MaxLines = 5
    MaxSessions = 2
INVARIANTS
    TypeOK
    GuidanceIsAnswered
    CancelWins
    EachClaimIsAnsweredOnce
    ClaimIsTheLastWord
PROPERTY AlwaysEnds
CHECK_DEADLOCK FALSE
