SPECIFICATION Spec
CONSTANTS
    c1 = c1
    c2 = c2
    Callers = {c1, c2}
    Limit = 2
    Window = 4
    Second = 2
    Late = 1
    Early = 1
    MaxClock = 7
SYMMETRY CallerSymmetry
PROPERTIES ImplementsPolicy WaitIsHonest
