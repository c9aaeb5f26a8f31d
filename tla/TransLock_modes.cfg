CONSTANTS
  EDUs = {1, 2}
  Spaces = {1}
  Collections = {1}
  Records = {1}
  NULL = NULL
  NoInfo = NoInfo
  Calls = {"scan", "insert", "ddlCL", "ddlCS", "share"}
  MaxHeld = 2
  MaxEvents = 2
SPECIFICATION Spec
INVARIANT LockListGranted
INVARIANT RunListCompatible
INVARIANT RunListInLockList
INVARIANT ContainersLocked
INVARIANT DropExcludesRecords
INVARIANT RefCountsExact
PROPERTY InsertGetsLock
