CONSTANTS
  Pads <- MCRound
  Points <- MCPoints
SPECIFICATION Spec
INVARIANTS ScrollsEnd
