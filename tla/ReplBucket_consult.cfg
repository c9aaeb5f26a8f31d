SPECIFICATION Spec
CONSTANTS
    u1 = u1
    u2 = u2
    Unit = {u1, u2}
    Agent = {a1, a2, a3}
    MaxReplSync = 2
    Serial = Serial
    UnitOf <- Mixed
    MaxFailures = 1
    ResetWhileFailed = TRUE
INVARIANT DataAsLogged
