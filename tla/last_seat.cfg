CONSTANTS
    People = {p1, p2, p3}
    Invites = {i1, i2}
    Calls = {c1, c2}
    MaxUsers = 2
    MaxPending = 2
    MaxSteps = 10
CHECK_DEADLOCK FALSE
SPECIFICATION Spec
SYMMETRY Symmetry
INVARIANTS SeatsHeld
