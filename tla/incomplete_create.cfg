CONSTANTS
  Runs = {r1}
  Calls = {c1}
  Pids = {p1}
  MaxBoots = 2
  Faults = {}
  Endings = {"claims_success"}
  NoPid = NoPid
  NoCall = NoCall
  NoRun = NoRun
SPECIFICATION Spec
INVARIANT IncompleteIsRecognised
CHECK_DEADLOCK FALSE
