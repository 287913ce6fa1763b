SPECIFICATION Spec
CONSTANTS
    x = x
    y = y
    Name = {x, y}
    VaArea = 1
    Shadowing = FALSE
    Clobbering = TRUE
    Offsets = {0}
    Bounds <- CallBounds
    NONE = NONE
SYMMETRY Renamings
INVARIANT Computes
\* At the bounds the program may have no next step.
CHECK_DEADLOCK FALSE
