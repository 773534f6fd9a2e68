SPECIFICATION Spec
CONSTANTS
  r1 = r1
  r2 = r2
  Runners = {r1, r2}
  Removable = {r1}
  Clients = {c1, c2}
  Priority <- MCUnequal
  Costs = {1}
  ExitModes = {TRUE, FALSE}
  MaxPosts = 2
  MaxIdle = 1
  MaxImmediate = 0
  NoRunner = NoRunner
INVARIANTS
  BoundOnce
  BalanceWakeup
  RemovedIsGone
  TerminateDiscipline
PROPERTIES
  PostedRuns
  TerminateExits
