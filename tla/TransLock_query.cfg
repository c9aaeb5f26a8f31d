CONSTANTS
  EDUs = {1, 2}
  Spaces = {1}
  Collections = {1}
  Records = {1}
  NULL = NULL
  NoInfo = NoInfo
  Calls = {"scan", "query"}
  MaxHeld = 2
  MaxEvents = 1
SPECIFICATION Spec
INVARIANT RecordExclusion
