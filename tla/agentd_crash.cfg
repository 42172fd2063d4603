CONSTANTS
  Runs = {r1}
  Calls = {c1, c2}
  Pids = {p1, p2}
  MaxBoots = 3
  Faults = {"state", "result", "metadata", "events", "lock", "adapter", "probe", "kill"}
  Endings = {"claims_success", "missing", "nonzero", "timed_out"}
  NoPid = NoPid
  NoCall = NoCall
  NoRun = NoRun
SPECIFICATION Spec
SYMMETRY Symmetry
INVARIANTS
  TypeOK
  LaunchedAtMostOnce
  HolderIsAlone
  SuccessIsEarned
PROPERTIES
  OutcomeNeverRewritten
  ImplementsLedger
CHECK_DEADLOCK FALSE
