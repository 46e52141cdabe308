SPECIFICATION Spec
CONSTANTS
    Req = {r1}
    MaxTok = 3
    None = None
    MaxRevokes = 2
    MaxFaults = 2
INVARIANTS
    RevocationStays
    StoresAgree
    SecretEndsWithProcess
    OneClaimPerRequest
CHECK_DEADLOCK FALSE
