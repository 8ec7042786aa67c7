SPECIFICATION FairSpec
CONSTANTS
  NumTouches = 4
  Clickpad = TRUE
  Calls <- AllCalls
INVARIANTS
  NoTapBug
  FingersMatchState
  ButtonsMatchState
PROPERTIES
  LiftReleases
