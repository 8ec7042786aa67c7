SPECIFICATION Spec
CONSTANTS
  Slots = {s1, s2}
  Mice = {m1, m2}
  Lid = lid
  TabletSwitch = tablet
  Keyboard = keyboard
  MaxActive = 3
SYMMETRY Alike
INVARIANTS
  ReasonsExplained
  SuspendedMatchesReasons
  TouchEndsSeen
PROPERTIES
  ImplementsSilence
CHECK_DEADLOCK FALSE
