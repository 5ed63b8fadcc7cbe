SPECIFICATION FairSpec
CONSTANTS
    f1 = f1
    f2 = f2
    Flow = {f1, f2}
    p1 = p1
    p2 = p2
    Path = {p1, p2}
    Size <- MCSizeSmall
    MaxWin = 2
    SafeRto = TRUE
    OtherTraffic = FALSE
    MaxFlight = 3
PROPERTIES
    EveryFlowCompletes
CHECK_DEADLOCK FALSE
