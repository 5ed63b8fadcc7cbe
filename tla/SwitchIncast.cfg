SPECIFICATION Spec
CONSTANTS
    p1 = p1
    p2 = p2
    p3 = p3
    Port = {p1, p2, p3}
    Queue = {1}
    PSize = {1, 2}
    Word = 64
    reserve = 0
    resume_offset = 1
    shared_bytes = 2
    headroom <- MCheadroomOne
    Route <- MCTurn
    qCnt = 2
    buffer_size = 9
    PausePort = {p3}
    MaxHigh = 1
INVARIANTS
    TypeOK
    CountersMatchBuffer
    BufferNotOvercommitted
    WorkConserving
    PfcFramesAlternate
PROPERTIES
    ImplementsMmu
