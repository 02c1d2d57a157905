CONSTANTS
  Root = Root
  Runner = Runner
  NoFiber = NoFiber
  None = None
  a = a
  b = b
  c = c
  u = u
  v = v
  Tasks = {a, b, c}
  Workers = {u, v}
  Scenes <- TheScenes
  MaxReqs = 3
SPECIFICATION FairSpec
INVARIANTS
  Sound
PROPERTIES
  RequestsEnd
CHECK_DEADLOCK FALSE
