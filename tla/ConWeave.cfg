SPECIFICATION FairSpec
CONSTANTS
    p1 = p1
    p2 = p2
    Path = {p1, p2}
    NoPath = NoPath
    MaxPackets = 4
    Lossy = TRUE
    Early = {"expiry", "flush", "aging", "txFirst"}
CHECK_DEADLOCK FALSE
INVARIANTS
    TypeOK
    AssertsHold
    RxNotAhead
    StabilizedMeansSettled
PROPERTIES
    ImplementsOrderedDelivery
    NoneHeldForEver
