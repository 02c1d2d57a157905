CONSTANTS
  Root = Root
  Runner = Runner
  NoFiber = NoFiber
  None = None
  a = a
  b = b
  Tasks = {a, b}
  Cancellable = {a}
  Background = {b}
  MaxConnects = 1
  MaxConns = 2
  MaxErrors = 1
  Backlog = 2
  Scenes <- TcpAndPipe
SPECIFICATION FairSpec
INVARIANTS
  Sound
  AcceptServed
PROPERTIES
  CallsEnd
CHECK_DEADLOCK FALSE
