CONSTANTS
  EDUs = {1, 2, 3}
  Spaces = {1}
  Collections = {1}
  Records = {1}
  NULL = NULL
  NoInfo = NoInfo
  Calls = {"scan"}
  MaxHeld = 1
  MaxEvents = 1
SPECIFICATION FairSpec
INVARIANT TypeOK
INVARIANT NoLostWakeup
INVARIANT QueueIsWaiters
INVARIANT RecordExclusion
PROPERTY ImplementsTable
PROPERTY WaitersServed
