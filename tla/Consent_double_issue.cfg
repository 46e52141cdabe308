SPECIFICATION Spec
CONSTANTS
    Req = {r1}
    Tok = {t1, t2}
    Subject = {agent1, agent2}
    Key = {k1}
    Operator = {alice, bob}
    Primary = alice
    Backup = bob
    Decision = {d1, d2}
    Window = 1
    None = None
    MaxTime = 2
INVARIANTS
    OneTokenPerRequest
CHECK_DEADLOCK FALSE
