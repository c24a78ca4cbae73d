SPECIFICATION FairSpec
CONSTANTS
    Worker = {"server", "reaper", "retention"}
INVARIANTS
    TypeOK
    JoinedIsNotReady
PROPERTIES
    DownIsSeen
    DrainEnds
CHECK_DEADLOCK FALSE
