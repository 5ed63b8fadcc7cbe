SPECIFICATION Spec
CONSTANTS
    reserve = 1
    shared_bytes = 2
    resume_offset = 1
    Delay = 2
    LinkRate = 2
    NicRate = 3
    MaxWait = 2
    PauseTime = 4
INVARIANTS
    TypeOK
    PausedInTime
    SenderFollowsSwitch
    PausedHasTimer
