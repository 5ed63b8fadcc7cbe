SPECIFICATION Spec
CONSTANTS
    p1 = p1
    p2 = p2
    Path = {p1, p2}
    NoPath = NoPath
    MaxPackets = 6
    Lossy = FALSE
    Early = {"expiry"}
CHECK_DEADLOCK FALSE
INVARIANTS
    NeverAhead
