CONSTANTS
  Runs = {r1}
  Calls = {c1}
  Pids = {p1}
  MaxBoots = 1
  Faults = {}
  Endings = {"claims_success"}
  NoPid = NoPid
  NoCall = NoCall
  NoRun = NoRun
SPECIFICATION Spec
INVARIANT TerminalHasResult
CHECK_DEADLOCK FALSE
