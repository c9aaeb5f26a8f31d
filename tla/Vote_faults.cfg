CONSTANTS
  Nodes = {1, 2, 3}
  None = None
  Weight <- MCWeight
  Scenarios <- CutAndMore
  VoteTime = 2
  BeatInterval = 1
  BreakTime = 3
  MaxSilence = 30
  StartShift = 3
  DeadBeats = 1
  ForceTime = 2
SPECIFICATION Spec
INVARIANT TypeOK
INVARIANT PrimaryIsSelf
INVARIANT AtMostOnePrimary
PROPERTY WinnerUpToDate
PROPERTY StepDownYields
