\* The submitting client goes away.
CONSTANTS
  None = None
  BlankSim = BlankSim
  Values <- MCValues
  Sims <- MCSims
  Addrs <- MCAddrs
  Deadline = 1
  ProbeTries = 1
  ProbeGap = 1
  ProbeRoundGap = 1
  ConnJitter = 0
  Ops <- OneOp
  Calls <- OneCall
  Req <- Single
  OtherValues = {}
  RollbackOn = TRUE
  Recent = 2
  SeenSave = 2
  MaxCrashes = 0
  MaxFaults = 0
  MaxReverts = 1
  MaxCuts = 0
  MaxDrops = 1
  MaxLosses = 0
  MaxEvents = 9
SPECIFICATION FairSpec
CHECK_DEADLOCK FALSE
PROPERTIES EveryChangeEnds
