SPECIFICATION TouchesSpec
CONSTANTS
  Models <- MCModels
  MaxActive = 4
  MaxChanges = 2
INVARIANTS
  FingersCounted
  NothingLeftBehind
  FingersMatchSurface
CHECK_DEADLOCK FALSE
