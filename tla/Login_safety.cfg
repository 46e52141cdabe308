SPECIFICATION Spec
CONSTANTS
    Call = {c1, c2, c3, c4}
    Client = {a1}
    Operator = {alice, bob}
    None = None
    StepLen = 2
    DriftSteps = 1
    Limit <- MCLimit
    WindowMs <- MCWindow
    Ttl = 2
    MaxTime = 2
    MaxEvents = 1
INVARIANTS
    LessThanTwiceTheLimit
PROPERTIES
    CodesAcceptedInOrder
    OnlyTheOperatorSpendsCodes
    SessionsAreBacked
SYMMETRY Symmetry
CHECK_DEADLOCK FALSE
