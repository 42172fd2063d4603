CONSTANTS
  a = a
  b = b
  Runs = {r1, r2}
  Paths = {a, b}
  Within <- Nested
  Faults = {}
  NoRun = NoRun
  Torn = Torn
SPECIFICATION Spec
SYMMETRY Symmetry
PROPERTY NoWorkLost
CHECK_DEADLOCK FALSE
