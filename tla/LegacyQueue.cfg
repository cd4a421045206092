\* Three requests, two transactions or sessions, a full executor, a clear.
CONSTANTS
  None = None
  Item <- OneItem
  MaxReq = 3
  Ids = {"s1", "s2"}
  Drainers = {"d1", "d2"}
  Ttl = 2
  Lease = 1
  SessionMax = 2
  MaxTxns = 2
  MaxFull = 1
  MaxClears = 1
SPECIFICATION Spec
INVARIANTS TypeOK OnePerItem RunOnce FlagMatchesTask NobodyForgotten SessionAlone
PROPERTIES LapsedStays
CHECK_DEADLOCK FALSE
