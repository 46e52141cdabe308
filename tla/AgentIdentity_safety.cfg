SPECIFICATION Spec
CONSTANTS
    Id = {i1, i2, i3}
    Subject = {s1, s2}
    Call = {c1, c2, c3, c4}
    None = None
    MaxTurn = 4
INVARIANTS
    DuplicatesOverlap
    AuthenticatedWasLogged
SYMMETRY Symmetry
CHECK_DEADLOCK FALSE
