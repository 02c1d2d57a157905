CONSTANTS
  Root = Root
  Runner = Runner
  NoFiber = NoFiber
  None = None
  a = a
  b = b
  d = d
  timer = timer
  timeout = timeout
  signal = signal
  poll = poll
  monitor = monitor
  cond = cond
  x = x
  y = y
  z = z
  Tasks = {a, b, d}
  Watchers = {timer, timeout, signal, poll, monitor, cond}
  Kind <- KindUsed
  Scenes <- Programs
  Background = {b}
  Cancellable = {a}
  Addrs = {x, y, z}
  RefSize = 4
  Faults = FALSE
SYMMETRY Alike
SPECIFICATION Spec
INVARIANTS
  NobodyForgotten
  Sound
CHECK_DEADLOCK FALSE
