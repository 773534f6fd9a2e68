SPECIFICATION Spec
CONSTANTS
  Pushers = {p}
  Forcers = {q}
  Poppers = {c}
  Modulus = 3
  MaxSize = 3
  MaxPushes = 4
INVARIANTS
  Fifo
  NothingStuck
PROPERTIES
  HeadForward
  ForcedPushEnds
