SPECIFICATION Spec
CONSTANTS
    o1 = o1
    a = a
    b = b
    c = c
    None = None
    Owner = {o1}
    Channel = {a, b}
    Traffic <- Overlapping
    Limit = 2
    Cap = 7
    MaxTime = 0
    MaxFaults = 0
INVARIANTS
    SelectsWhatItWalked
CHECK_DEADLOCK FALSE
