CONSTANTS
  Root = Root
  Runner = Runner
  NoFiber = NoFiber
  None = None
  a = a
  b = b
  Tasks = {a, b}
  MaxThreads = 2
  Scenes <- TheScenes
  Cancellable = {a}
SPECIFICATION FairSpec
INVARIANTS
  Sound
PROPERTIES
  JoinReturns
CHECK_DEADLOCK FALSE
