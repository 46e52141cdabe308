SPECIFICATION FairSpec
CONSTANTS
    Call = {c1, c2, c3}
    Claim = {c3}
    Key = {k1}
    None = None
    MaxAttempts = 2
INVARIANTS
    OneRequestPerCall
    ClaimsAreTold
PROPERTIES
    EveryCallEnds
CHECK_DEADLOCK FALSE
