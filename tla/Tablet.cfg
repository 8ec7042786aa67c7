SPECIFICATION Spec
CONSTANTS
  Models <- MCModels
  Rare = {}
INVARIANTS
  ClientWellFormed
  ToolMatchesKernel
  TouchFollowsTool
PROPERTIES
  GoneIsReported
CHECK_DEADLOCK FALSE
