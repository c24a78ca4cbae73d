SPECIFICATION Spec
CONSTANTS
    r1 = r1
    r2 = r2
    x = x
    y = y
    t = t
    MaxMessage = 4
    Body = {x}
    NoText = {t}
    Gone = Gone
    None = None
    Run = {r1}
    Start <- StartOf
    End <- EndOf
    MaxPages = 2
    PageSize = 1
    MaxChanges = 0
    MaxRestarts = 0
INVARIANTS
    WalkEndsAtWindowStart
CHECK_DEADLOCK FALSE
