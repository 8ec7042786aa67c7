SPECIFICATION Spec
CONSTANTS
  Pads <- MCPads
  MaxFingers = 4
  DragCounts = {3}
  Late = FALSE
INVARIANTS
  GesturesWellFormed
  ClientMatchesState
  OnlyKnownBugs
PROPERTY EverythingEnds
