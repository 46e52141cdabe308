SPECIFICATION Spec
CONSTANTS
    Req = {r1, r2}
    Tok = {t1, t2}
    Subject = {agent1, agent2}
    Key = {k1}
    Operator = {alice, bob}
    Primary = alice
    Backup = bob
    Decision = {d1, d2, d3}
    Window = 1
    None = None
    MaxTime = 1
INVARIANTS
    OneRequestPerKey
    DecisionsOfOneRequestOverlap
    EscalationTakesAuthority
    RequestMatchesTrail
PROPERTIES
    EscalationSticks
SYMMETRY Symmetry
CHECK_DEADLOCK FALSE
