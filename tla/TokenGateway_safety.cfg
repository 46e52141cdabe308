SPECIFICATION Spec
CONSTANTS
    Id = {t1, t2, t3}
    Call = {c1, c2, c3}
    read = read
    write = write
    admin = admin
    Perm <- MCPerm
    Scope <- MCScope
    Ttl = {0, 1, 2}
    None = None
    MaxTime = 1
    MaxTurn = 4
INVARIANTS
    NarrowsParent
    RecordMatchesTrail
    CascadeLoggedOnce
    LateCallsAreDenied
    OrphansPostdateRevocation
    LineageHasOneOrigin
PROPERTIES
    StoredTokenOnlyRevoked
SYMMETRY Symmetry
CHECK_DEADLOCK FALSE
