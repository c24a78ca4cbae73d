SPECIFICATION Spec
CONSTANTS
    r1 = r1
    r2 = r2
    x = x
    y = y
    t = t
    MaxMessage = 3
    Body = {x}
    NoText = {t}
    Gone = Gone
    None = None
    Run = {r1, r2}
    Start <- StartOverlap
    End <- EndOverlap
    MaxPages = 2
    PageSize = 1
    MaxChanges = 1
    MaxRestarts = 1
INVARIANTS
    TypeOK
    CompleteMeansRead
    CallsAreFinite
    WithdrawnIsGone
    DeletedIsNotSelected
    WithdrawnLeavesNoText
PROPERTIES
    RevisionsAreImmutable
CHECK_DEADLOCK FALSE
