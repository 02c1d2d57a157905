CONSTANTS
  a = a
  b = b
  Tasks = {a, b}
  MaxStates = 2
  Results = {"RESOLVED", "FAILED"}
  Features = {"combine", "transform", "cancel", "drop", "dispose"}
SYMMETRY Alike
SPECIFICATION Spec
INVARIANTS
  Sound
  DerivedSettles
PROPERTIES
  SettledOnce
CHECK_DEADLOCK FALSE
