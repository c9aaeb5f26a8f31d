SPECIFICATION Spec
CONSTANTS
    Trans = {t1, t2}
    MaxOps = 3
    MaxLog = 3
    MaxChanges = 3
INVARIANT RollsBackLast
CHECK_DEADLOCK FALSE
