\* Under fairness: sessions end and the queue drains.
CONSTANTS
  None = None
  Item <- OneItem
  MaxReq = 2
  Ids = {"s1"}
  Drainers = {"d1", "d2"}
  Ttl = 2
  Lease = 2
  SessionMax = 3
  MaxTxns = 2
  MaxFull = 1
  MaxClears = 0
SPECIFICATION FairSpec
PROPERTIES SessionEnds QueueDrains
CHECK_DEADLOCK FALSE
