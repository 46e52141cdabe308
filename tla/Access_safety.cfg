SPECIFICATION FairSpec
CONSTANTS
    t1 = t1
    t2 = t2
    use = use
    read = read
    ssn = ssn
    email = email
    fax = fax
    Tok = {t1}
    System = {crm}
    Call = {c1, c2}
    None = None
    Perm <- MCPerm
    Scope <- MCScope
    UsePerm = use
    ReadPerm = read
    Field <- MCField
    RequiredScope <- MCRequiredScope
    MaxAttempts = 2
    MaxTurn = 3
INVARIANTS
    RepeatedOnlyWhenLate
    TrailMatchesAnswer
PROPERTIES
    EveryCallEnds
CHECK_DEADLOCK FALSE
