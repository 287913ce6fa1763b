SPECIFICATION Spec
CONSTANTS
    L = L
    Families <- MCFamilies
    Label = {L}
    CaseRange <- Ranges
    Value = {0, 1, 2}
    MaxEvents = 4
    NONE = NONE
INVARIANTS FollowsSource JumpTargets LabelsUnique CasesDisjoint
\* A function that is parsed and run, or refused, is the end of a behaviour.
CHECK_DEADLOCK FALSE
