SPECIFICATION FairSpec
CONSTANTS
    u1 = u1
    u2 = u2
    Unit = {u1, u2}
    Agent = {a1, a2, a3}
    MaxReplSync = 2
    Serial = Serial
    UnitOf <- Mixed
    MaxFailures = 2
    ResetWhileFailed = FALSE
INVARIANTS TypeOK OrderedReplay CompleteIsReplayed DataAsLogged NeverForced
PROPERTY AllReplayed
CHECK_DEADLOCK FALSE
