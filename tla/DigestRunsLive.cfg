SPECIFICATION FairSpec
CONSTANTS
    r1 = r1
    s1 = s1
    d1 = d1
    d2 = d2
    x1 = x1
    x2 = x2
    Run = {r1}
    OnDemand = {r1}
    Digest = {d1, d2}
    ResultId = {x1, x2}
    None = None
    OwnId = OwnId
    MaxInFlight = 2
    BATCH = 1
INVARIANTS
    IInv
PROPERTIES
    EventuallySettled
    EventuallyReported
    ImplementsContract
CHECK_DEADLOCK FALSE
