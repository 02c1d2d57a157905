CONSTANTS
  Root = Root
  Runner = Runner
  NoFiber = NoFiber
  None = None
  a = a
  b = b
  Tasks = {a, b}
  Scenes <- TheScenes
  MaxWrites = 3
SPECIFICATION FairSpec
INVARIANTS
  Sound
  InOrder
PROPERTIES
  StreamEnds
CHECK_DEADLOCK FALSE
