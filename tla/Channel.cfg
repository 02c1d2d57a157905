CONSTANTS
  Root = Root
  Runner = Runner
  NoFiber = NoFiber
  None = None
  a = a
  b = b
  d = d
  c1 = c1
  c2 = c2
  m1 = m1
  m2 = m2
  m3 = m3
  i1 = i1
  i2 = i2
  j1 = j1
  j2 = j2
  g1 = g1
  Tasks = {a, b, d}
  Chans = {c1, c2}
  Msgs = {m1, m2, m3}
  Scenes <- PlainAndGrouped
  Iterators = {i1, i2}
  Groups = {g1}
  Members <- BothMembers
  ChanOf <- ChanOfBoth
  Owner <- OwnerA
  Shuffle = {g1}
  Cancellable = {a}
SYMMETRY Alike
SPECIFICATION Spec
INVARIANTS
  NobodyMissed
  Sound
  GroupServes
  SenderKnows
PROPERTIES
  Fifo
CHECK_DEADLOCK FALSE
