\* One change over crashes, restarts and up to two reboots, or over the
\* connections and probes of its data path.
CONSTANTS
  None = None
  BlankSim = BlankSim
  Ops = {"op"}
  Values <- MCValues
  Sims <- MCSims
  Addrs <- MCAddrs
  Deadline = 2
  ProbeTries = 2
  ProbeGap = 1
  ProbeRoundGap = 2
  ConnJitter = 0
  SeenSave = 2
  Readings <- MCReadings
  Captures <- MCCaptures
  MaxNow = 4
  MaxCrashes = 2
  MaxBoots = 2
SPECIFICATION MCSpec
INVARIANTS TypeOK RollbackOnce EndedForGood NoFutureTimes RebootsBounded RollbackWanted IgnoredUntouched EndsOnEvidence
CHECK_DEADLOCK FALSE
