SPECIFICATION Spec
CONSTANTS
  MaxPosts = 3
  IdleTasks = {i1}
  Clients = {c1}
  MaxTime = 1
  Delays = {0, 1}
INVARIANTS
  Conservation
  TopStaysOnTop
  ReturnedAsPosted
PROPERTIES
  EventuallyReturned
