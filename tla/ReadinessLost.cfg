SPECIFICATION FairSpec
CONSTANTS
    Worker = {}
PROPERTIES
    UpIsSeen
CHECK_DEADLOCK FALSE
