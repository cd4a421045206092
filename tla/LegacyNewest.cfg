\* An older queued request after a newer one that passed.
CONSTANTS
  None = None
  Item <- OneItem
  MaxReq = 2
  Ids = {"s1", "s2"}
  Drainers = {"d1", "d2"}
  Ttl = 2
  Lease = 1
  SessionMax = 2
  MaxTxns = 2
  MaxFull = 0
  MaxClears = 1
SPECIFICATION Spec
PROPERTIES NewestKept
CHECK_DEADLOCK FALSE
