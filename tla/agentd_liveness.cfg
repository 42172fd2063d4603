CONSTANTS
  Runs = {r1}
  Calls = {c1, c2}
  Pids = {p1, p2}
  MaxBoots = 2
  Faults = {"metadata", "events", "lock", "probe", "kill"}
  Endings = {"claims_success", "nonzero"}
  NoPid = NoPid
  NoCall = NoCall
  NoRun = NoRun
SPECIFICATION FairSpec
PROPERTIES
  RunsSettle
  ShutdownEnds
  CancelAnswered
  ImplementsLedger
CHECK_DEADLOCK FALSE
