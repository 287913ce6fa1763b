SPECIFICATION Spec
CONSTANTS
    x = x
    y = y
    Name = {x, y}
    VaArea = 1
    Shadowing = FALSE
    Clobbering = FALSE
    Offsets = {0}
    Bounds <- AllBounds
    NONE = NONE
SYMMETRY Renamings
INVARIANTS TypeOK Computes FramesApart
PROPERTY CallersKeep
\* At the bounds the program may have no next step.
CHECK_DEADLOCK FALSE
