CONSTANTS
  Nodes = {1, 2, 3}
  None = None
  Weight <- MCWeight
  Scenarios <- CutOrStepUp
  VoteTime = 3
  BeatInterval = 2
  BreakTime = 5
  MaxSilence = 30
  StartShift = 4
  DeadBeats = 1
  ForceTime = 2
SPECIFICATION FairSpec
PROPERTY Elected
PROPERTY ConflictResolved
