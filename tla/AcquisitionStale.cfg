SPECIFICATION Spec
CONSTANTS
    r1 = r1
    r2 = r2
    x = x
    y = y
    t = t
    MaxMessage = 3
    Body = {x, y}
    NoText = {}
    Gone = Gone
    None = None
    Run = {r1, r2}
    Start <- StartOverlap
    End <- EndOverlap
    MaxPages = 2
    PageSize = 2
    MaxChanges = 1
    MaxRestarts = 0
INVARIANTS
    SelectsObserved
CHECK_DEADLOCK FALSE
