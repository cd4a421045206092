\* A crash before the next save forgets that the readback matched.
CONSTANTS
  None = None
  BlankSim = BlankSim
  Ops = {"op"}
  Values <- MCValues
  Sims <- MCSims
  Addrs <- MCAddrs
  Deadline = 2
  ProbeTries = 2
  ProbeGap = 1
  ProbeRoundGap = 2
  ConnJitter = 0
  SeenSave = 2
  Readings <- MCReadings
  Captures <- MCCaptures
  MaxNow = 4
  MaxCrashes = 2
  MaxBoots = 0
SPECIFICATION MCSpec
INVARIANTS MatchedNotIgnored
CHECK_DEADLOCK FALSE
