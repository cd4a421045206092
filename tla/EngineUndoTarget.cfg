\* A submit that reads the device while another change is rolled back.
CONSTANTS
  None = None
  BlankSim = BlankSim
  Values <- MCValues
  Sims <- MCSims
  Addrs <- MCAddrs
  Deadline = 1
  ProbeTries = 1
  ProbeGap = 1
  ProbeRoundGap = 1
  ConnJitter = 0
  Ops <- TwoOps
  Calls <- TwoCalls
  Req <- Override
  OtherValues = {}
  RollbackOn = TRUE
  Recent = 2
  SeenSave = 2
  MaxCrashes = 0
  MaxFaults = 0
  MaxReverts = 1
  MaxCuts = 0
  MaxDrops = 0
  MaxLosses = 0
  MaxEvents = 9
SPECIFICATION Spec
CHECK_DEADLOCK FALSE
INVARIANTS UndoTargetConfirmed
