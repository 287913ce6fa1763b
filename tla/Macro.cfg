SPECIFICATION RefSpec
CONSTANTS
    F = F
    O = O
    A = A
    B = B
    x = x
    y = y
    Programs <- MCPrograms
    MaxBack = 1
INVARIANTS TypeOK Agrees
PROPERTY Ends
\* Expansion stops: at the end of the text, or at an error.
CHECK_DEADLOCK FALSE
