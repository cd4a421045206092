\* The same op_id is sent again after a restart.
CONSTANTS
  None = None
  BlankSim = BlankSim
  Values <- MCValues
  Sims <- MCSims
  Addrs <- MCAddrs
  Deadline = 1
  ProbeTries = 1
  ProbeGap = 1
  ProbeRoundGap = 1
  ConnJitter = 0
  Ops <- OneOp
  Calls <- TwoCalls
  Req <- Resent
  OtherValues = {}
  RollbackOn = TRUE
  Recent = 2
  SeenSave = 2
  MaxCrashes = 1
  MaxFaults = 0
  MaxReverts = 1
  MaxCuts = 0
  MaxDrops = 0
  MaxLosses = 0
  MaxEvents = 9
SPECIFICATION Spec
CHECK_DEADLOCK FALSE
INVARIANTS ResendOnlyAnswers
