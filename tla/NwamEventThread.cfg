SPECIFICATION FairSpec
CONSTANTS
    MaxVer = 3
    MaxFaults = 3
    InitOnStart = TRUE
    SpuriousErrors = TRUE
INVARIANTS
    FreshWhenQuiet
    StaleIsOvertaken
PROPERTIES
    BreakIsNoticed
    Resubscribes
CHECK_DEADLOCK FALSE
