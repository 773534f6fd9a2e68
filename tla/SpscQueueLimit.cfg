SPECIFICATION Spec
CONSTANTS
  Value = {a, b}
  Modulus = 4
  MaxSize = 4
  SerialDrop = TRUE
INVARIANTS
  RoomForPush
