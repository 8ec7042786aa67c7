SPECIFICATION Spec
CONSTANTS
  n1 = n1
  n2 = n2
  Nodes <- MCNodes
  Handles <- MCHandles
  Seats = {"default", "other"}
  DefaultSeat = "default"
  Scenes <- MCScenes
  MaxEvents = 3
  MaxHeld = 1
  Events <- MCEvents
  NoEvent = NoEvent
  InitialLen = 2
SYMMETRY Alike
INVARIANTS
  RefsCounted
  EventsWellFormed
  OneDevicePerNode
PROPERTIES
  InOrder
CHECK_DEADLOCK FALSE
