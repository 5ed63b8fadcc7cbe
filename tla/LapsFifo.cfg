SPECIFICATION FairSpec
CONSTANTS
    f1 = f1
    f2 = f2
    Flow = {f1, f2}
    p1 = p1
    p2 = p2
    Path = {p1, p2}
    Size <- MCSize
    MaxWin = 2
    SafeRto = TRUE
    OtherTraffic = TRUE
    MaxFlight = 3
INVARIANTS
    TypeOK
    EachSegmentOnce
    AssertsHold
    InFlightWithinWindow
    TimerRuns
    NoSpuriousLoss
    SleepsOnlyAfterCompletion
PROPERTIES
    ImplementsReliableDelivery
    EveryFlowCompletes
