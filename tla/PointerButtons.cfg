SPECIFICATION PointerSpec
CONSTANTS
  CodeOrder <- MCCodeOrder
  Dedicated <- MCDedicated
  NoScrollButton = NoScrollButton
  ScrollSettings <- MCScrollSettings
  MaxChanges = 1
  WhileHeld <- Configured
  MiddleScrolls = FALSE
INVARIANTS
  NoBugReached
  ClientAlternates
  NoStuckButton
