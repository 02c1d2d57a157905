CONSTANTS
  a = a
  b = b
  Tasks = {a, b}
  MaxContexts = 3
  Careful = TRUE
SYMMETRY Alike
SPECIFICATION Spec
INVARIANTS
  CancelReaches
  Sound
CHECK_DEADLOCK FALSE
