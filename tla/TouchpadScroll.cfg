CONSTANTS
  Pads <- MCPads
  Points <- MCPoints
SPECIFICATION Spec
INVARIANTS EdgeScrollsHaveTouch OnlyKnownEdgeBugs
PROPERTIES ThumbRevives
