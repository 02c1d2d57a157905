CONSTANTS
  Root = Root
  Runner = Runner
  NoFiber = NoFiber
  t1 = t1
  t2 = t2
  t3 = t3
  e1 = e1
  pend = pend
  cond = cond
  Tasks = {t1, t2, t3}
  Exts = {e1}
  Queues = {pend, cond}
  Pending = pend
  Background = {t2}
  Cancellable = {t1, Root}
  MaxOps = 2
  MaxRuns = 2
  Careful = TRUE
  Faults = TRUE
SPECIFICATION MCSpec
INVARIANTS
  TypeOK
  RunsOnce
  NoLostWakeup
  Bookkeeping
  ReadyIsWatched
  CancelReachesAll
PROPERTIES
  NoStartAfterStop
  Finishes
  FuturesSpec
  AwaitKeepsPromise
CHECK_DEADLOCK FALSE
