SPECIFICATION FairSpec
CONSTANTS
    o1 = o1
    a = a
    b = b
    c = c
    None = None
    Owner = {o1}
    Channel = {a, b, c}
    Traffic <- AllTraffic
    Limit = 2
    Cap = 2
    MaxTime = 4
    MaxFaults = 1
INVARIANTS
    TypeOK
    LimitHolds
    AckedIsAnswered
    ScheduledWindows
PROPERTIES
    DecidedOnce
    EventuallyDecided
CHECK_DEADLOCK FALSE
