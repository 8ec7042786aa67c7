SPECIFICATION Spec
CONSTANTS
  Models <- MCModels
  Features <- MCFeatures
  Rare = {}
  MaxActive = 2
  MaxChanges = 1
INVARIANTS
  ClicksInSync
  ClickDecided
  ButtonsFollowTouches
CHECK_DEADLOCK FALSE
