SPECIFICATION Spec
CONSTANTS
  r1 = r1
  r2 = r2
  Runners = {r1, r2}
  Removable = {r1}
  Clients = {c1}
  Priority <- MCEqual
  Costs = {1, 2}
  ExitModes = {TRUE}
  MaxPosts = 4
  MaxIdle = 1
  MaxImmediate = 1
  NoRunner = NoRunner
INVARIANTS
  FairShare
