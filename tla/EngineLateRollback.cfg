\* A user write cuts in while a rollback is about to be sent.
CONSTANTS
  None = None
  BlankSim = BlankSim
  Values <- MCValues
  Sims <- MCSims
  Addrs <- MCAddrs
  Deadline = 1
  ProbeTries = 1
  ProbeGap = 1
  ProbeRoundGap = 1
  ConnJitter = 0
  Ops <- OneOp
  Calls <- OneCall
  Req <- Single
  OtherValues = {}
  RollbackOn = TRUE
  Recent = 2
  SeenSave = 2
  MaxCrashes = 0
  MaxFaults = 1
  MaxReverts = 0
  MaxCuts = 1
  MaxDrops = 0
  MaxLosses = 0
  MaxEvents = 9
SPECIFICATION Spec
CHECK_DEADLOCK FALSE
PROPERTIES NoRollbackOnceCancelled
