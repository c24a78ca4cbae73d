SPECIFICATION FairSpec
CONSTANTS
    o1 = o1
    c1 = c1
    c2 = c2
    recap = recap
    None = None
    Operation = {o1}
    Config = {c1, c2}
    Earlier = c1
    Denied = {recap}
    Batch = 2
    MaxRestarts = 1
    MaxFaults = 1
INVARIANTS
    TypeOK
    PublishedIsDelivered
    ReportsInOrder
    ScheduleConverges
PROPERTIES
    EverythingGoesOut
