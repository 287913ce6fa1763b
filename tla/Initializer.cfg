SPECIFICATION FairSpec
CONSTANTS
    Programs <- MCPrograms
    InitMem = 1
    StackGap = 2
    MaxCells = 16
    MaxElems = 6
    NONE = NONE
INVARIANTS TypeOK Initialized WellLaidOut
PROPERTY Ends
\* Compilation and initialization end: at main's first statement, or at an error.
CHECK_DEADLOCK FALSE
