CONSTANTS
  Runs = {r1, r2}
  Calls = {c1, c2}
  Pids = {p1, p2}
  MaxBoots = 2
  Faults = {}
  Endings = {"claims_success", "timed_out"}
  NoPid = NoPid
  NoCall = NoCall
  NoRun = NoRun
SPECIFICATION Spec
SYMMETRY Symmetry
INVARIANTS
  ActiveMeansOwned
  OutcomeIsKnowable
  NoRecordedStray
  StopIsClean
  CancelReplyIsDurable
CHECK_DEADLOCK FALSE
