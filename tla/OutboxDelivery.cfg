SPECIFICATION Spec
CONSTANTS
  r1 = r1
  r2 = r2
  d1 = d1
  d2 = d2
  d3 = d3
  Records = {r1}
  Documents = {d1}
  Identity <- MCIdentity1
  Commands = {k1, k2}
  Workers = {w1, w2}
  Snapshots = {}
  MaxRevision = 2
  MaxAttempts = 2
  None = None
PROPERTIES
  LeaseIsExclusive
  SettledByHolder
  EveryEventDelivered
CHECK_DEADLOCK FALSE
