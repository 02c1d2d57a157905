CONSTANTS
  Root = Root
  Runner = Runner
  NoFiber = NoFiber
  None = None
  a = a
  b = b
  x = x
  y = y
  Tasks = {a, b}
  Procs = {x, y}
  Background = {}
  Cancellable = {a}
  Scenes <- Instances
SPECIFICATION FairSpec
INVARIANTS
  Sound
PROPERTIES
  JoinsEnd
CHECK_DEADLOCK FALSE
