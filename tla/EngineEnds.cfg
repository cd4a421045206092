\* One change, up to three of: crash, faults, decision, cut-in, failed save: it ends.
CONSTANTS
  None = None
  BlankSim = BlankSim
  Values <- MCValues
  Sims <- MCSims
  Addrs <- MCAddrs
  Deadline = 1
  ProbeTries = 1
  ProbeGap = 1
  ProbeRoundGap = 1
  ConnJitter = 0
  Ops <- OneOp
  Calls <- OneCall
  Req <- Single
  OtherValues <- MCValues
  RollbackOn = TRUE
  Recent = 2
  SeenSave = 2
  MaxCrashes = 1
  MaxFaults = 2
  MaxReverts = 1
  MaxCuts = 1
  MaxDrops = 0
  MaxLosses = 1
  MaxEvents = 3
SPECIFICATION FairSpec
CHECK_DEADLOCK FALSE
PROPERTIES EveryChangeEnds
