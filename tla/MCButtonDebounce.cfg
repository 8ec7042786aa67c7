SPECIFICATION FairSpec
CONSTANTS
  BTN_LEFT = BTN_LEFT
  BTN_RIGHT = BTN_RIGHT
  NoButton = NoButton
  Buttons <- MouseButtons
  BounceTimeout = 4
  SpuriousTimeout = 2
  MaxLag = 1
INVARIANTS
  NoStateMachineBug
  PressesAlternate
  OtherButtonsInSync
  BounceFiltered
PROPERTIES
  ChangesDelivered
