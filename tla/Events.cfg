CONSTANTS
  k1 = k1
  k2 = k2
  tm = tm
  pl = pl
  None = None
  Events = {k1, k2, tm, pl}
  Kind <- MCKind
  Scenes <- MCScenes
  MaxCalls = 3
SPECIFICATION FairSpec
INVARIANTS
  Sound
  LoopIdle
PROPERTIES
  Progress
CHECK_DEADLOCK FALSE
