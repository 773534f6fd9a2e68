SPECIFICATION Spec
CONSTANTS
  Value = {a, b}
  Modulus = 4
  MaxSize = 3
  SerialDrop = TRUE
INVARIANTS
  NoSlotRace
  RoomForPush
PROPERTIES
  ImplementsFifo
  ForcedPushEnds
