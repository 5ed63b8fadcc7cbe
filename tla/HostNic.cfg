SPECIFICATION FairSpec
CONSTANTS
    N = 2
    Size <- MCSize
    MaxWin = 2
    VarWin = FALSE
    Nacks = TRUE
    Gaps = {1, 2}
    MaxEvents = 2
INVARIANTS
    TypeOK
    SleepHasReason
PROPERTIES
    TurnComes
    EveryFlowCompletes
