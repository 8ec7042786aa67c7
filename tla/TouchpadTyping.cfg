SPECIFICATION FairSpec
CONSTANTS
  Keyboards = {k1, k2}
  TypingKeys = {a}
  Modifiers = {ctrl}
  OtherKeys = {}
  Touches = {t1}
INVARIANTS
  PalmsRest
  MasksAreHeld
PROPERTIES
  TapsComeBack
