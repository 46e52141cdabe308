SPECIFICATION Spec
CONSTANTS
    Req = {r1}
    MaxTok = 3
    None = None
    MaxRevokes = 2
    MaxFaults = 1
INVARIANTS
    RevokedWithDescendants
CHECK_DEADLOCK FALSE
