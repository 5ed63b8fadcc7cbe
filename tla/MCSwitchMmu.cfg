SPECIFICATION Spec
CONSTANTS
    p1 = p1
    p2 = p2
    Port = {p1, p2}
    Queue = {3}
    PSize = {1, 2, 3}
    Word = 64
    reserve = 2
    resume_offset = 2
    shared_bytes = 3
    headroom <- MCheadroom
INVARIANTS
    TypeOK
    HeadroomExact
    IngressBound
    Hysteresis
PROPERTIES
    EachQueueIsPfcQueue
