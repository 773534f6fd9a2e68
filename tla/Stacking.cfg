SPECIFICATION Spec
CONSTANTS
  Runners = {f, s, l, m}
  Loose = {l, m}
  NoRunner = NoRunner
  MaxPosts = 4
  MaxSubs = 3
INVARIANTS
  CurrentRunner
  SubBlocksFather
PROPERTIES
  ResumesAfterRemove
  TerminateExits
