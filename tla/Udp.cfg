CONSTANTS
  Root = Root
  Runner = Runner
  NoFiber = NoFiber
  None = None
  a = a
  b = b
  Tasks = {a, b}
  Cancellable = {a}
  Background = {b}
  MaxSends = 3
  MaxReceives = 2
  MaxIn = 2
  Room = 1
  Scenes <- Bounds
SPECIFICATION FairSpec
INVARIANTS
  Sound
  SentInOrder
PROPERTIES
  SendsEnd
CHECK_DEADLOCK FALSE
