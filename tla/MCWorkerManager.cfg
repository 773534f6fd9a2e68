SPECIFICATION Spec
CONSTANTS
  a = a
  b = b
  c = c
  d = d
  e = e
  Runners = {a, b, c, d, e}
  Casts <- MCCasts
  Group <- MCGroup
  Schedulable = {a, b, c, d}
  Removable = {d}
  InitialSize = 2
  Sizes = {1, 3}
  MaxWorkers = 3
  MaxChanges = 2
  DebugBuilds = {TRUE, FALSE}
INVARIANTS
  OnePlace
  WorkerPointer
  SubStaysOnFather
  RemovedIsGone
  SpecificsFollow
  SafeSizes
PROPERTIES
  SpecificsArrive
  BoundIsScheduled
