CONSTANTS
  Runs = {r1}
  Calls = {c1}
  Pids = {p1}
  MaxBoots = 3
  Faults = {"kill"}
  Endings = {"claims_success"}
  NoPid = NoPid
  NoCall = NoCall
  NoRun = NoRun
SPECIFICATION Spec
INVARIANT ServesOnlyWhenStopped
CHECK_DEADLOCK FALSE
