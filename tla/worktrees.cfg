CONSTANTS
  a = a
  b = b
  Runs = {r1, r2, r3}
  Paths = {a, b}
  Within <- Apart
  Faults = {"git", "disk"}
  NoRun = NoRun
  Torn = Torn
SPECIFICATION Spec
SYMMETRY Symmetry
INVARIANTS
  TypeOK
  ExclusivePaths
  EvidenceFirst
PROPERTY NoWorkLost
CHECK_DEADLOCK FALSE
