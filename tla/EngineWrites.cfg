\* Two changes, up to two of: crash, fault, decision, cut-in, disconnect,
\* failed save.
CONSTANTS
  None = None
  BlankSim = BlankSim
  Values <- MCValues
  Sims <- MCSims
  Addrs <- MCAddrs
  Deadline = 1
  ProbeTries = 1
  ProbeGap = 1
  ProbeRoundGap = 1
  ConnJitter = 0
  Ops <- TwoOps
  Calls <- TwoCalls
  Req <- Override
  OtherValues = {"m2"}
  RollbackOn = TRUE
  Recent = 2
  SeenSave = 2
  MaxCrashes = 1
  MaxFaults = 1
  MaxReverts = 2
  MaxCuts = 1
  MaxDrops = 1
  MaxLosses = 1
  MaxEvents = 2
SPECIFICATION Spec
CHECK_DEADLOCK FALSE
INVARIANTS TypeOK WrittenOnce DiskFollows Driven
PROPERTIES IntentOnDisk UndoTargetKept VerdictStands ImplementsOneChange
