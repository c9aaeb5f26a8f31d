SPECIFICATION FairSpec
CONSTANTS
    Trans = {t1, t2}
    MaxOps = 3
    MaxLog = 3
    MaxChanges = 3
PROPERTY RollbackEnds
INVARIANTS TypeOK TableFollowsLog BeginFollowsLog UndoneOnce OnlyOwnUnfinished
CHECK_DEADLOCK FALSE
