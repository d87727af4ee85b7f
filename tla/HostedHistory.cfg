SPECIFICATION Spec
CONSTANTS
  r1 = r1
  r2 = r2
  d1 = d1
  d2 = d2
  d3 = d3
  Records = {r1, r2}
  Documents = {d1, d2, d3}
  Identity <- MCIdentity
  Commands = {k1, k2, k3}
  Workers = {}
  Snapshots <- MCSnapshots
  MaxRevision = 3
  MaxAttempts = 2
  None = None
INVARIANT HistoryComplete
INVARIANT AnswersAreDurable
CHECK_DEADLOCK FALSE
