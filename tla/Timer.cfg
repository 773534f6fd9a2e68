SPECIFICATION Spec
CONSTANTS
  Kinds = {"oneshot", "repeating", "idle"}
  Delays = {0, 2}
  MaxTime = 5
  MaxStarts = 2
  MaxResets = 1
  MaxStops = 1
INVARIANTS
  OncePerStart
  NothingAfterStop
  NotEarly
  RunningHasTask
PROPERTIES
  StartedRuns
CHECK_DEADLOCK FALSE
