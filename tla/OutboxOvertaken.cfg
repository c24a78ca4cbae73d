SPECIFICATION Spec
CONSTANTS
    o1 = o1
    c1 = c1
    c2 = c2
    recap = recap
    None = None
    Operation = {}
    Config = {c1, c2}
    Earlier = None
    Denied = {}
    Batch = 2
    MaxRestarts = 1
    MaxFaults = 1
INVARIANTS
    RegisteredIsConfigured
