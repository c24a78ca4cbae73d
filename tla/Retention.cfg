SPECIFICATION FairSpec
CONSTANTS
    r1 = r1
    r2 = r2
    None = None
    Run = {r1, r2}
    Start <- Starts
    End <- Ends
    BodyDays = 3
    SourceCount = 1
    SweepBatch = 1
    MaxMessage = 3
    MaxDay = 6
    MaxChanged = 1
    MaxFaults = 1
INVARIANTS
    TypeOK
    OpenRunKeepsText
PROPERTIES
    NothingMissedInTime
    SweepHidesNoNewerText
    GoneStaysGone
    TextExpires
