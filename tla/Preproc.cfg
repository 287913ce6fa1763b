SPECIFICATION FairSpec
CONSTANTS
    G = G
    U = U
    N = 5
    Macro = {G, U}
    Programs <- MCPrograms
    MaxRead = 80
    Main <- MCMain
    StdPath <- MCStd
    MaxFiles = 6
    NONE = NONE
INVARIANTS TypeOK Agrees NoSkipAcrossFiles DepthCounts
PROPERTIES GuardIsTransparent Ending
\* Preprocessing stops: at the end of the main file, or at an error.
CHECK_DEADLOCK FALSE
