SPECIFICATION Spec
CONSTANTS
    r1 = r1
    s1 = s1
    d1 = d1
    d2 = d2
    x1 = x1
    x2 = x2
    Run = {r1, s1}
    OnDemand = {r1}
    Digest = {d1, d2}
    ResultId = {x1}
    None = None
    OwnId = OwnId
    MaxInFlight = 1
    BATCH = 1
SYMMETRY Symmetry
INVARIANTS
    TypeOK
    ReportsMatchState
    EvidenceChain
    HonestCompletion
    VerdictMatchesRecord
PROPERTIES
    NothingIsRevised
    ContractSteps
CHECK_DEADLOCK FALSE
