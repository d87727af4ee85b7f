CONSTANTS
  ann = ann
  bob = bob
  c1 = c1
  c2 = c2
  t1 = t1
  t2 = t2
  b1 = b1
  b2 = b2
  p1 = p1
  None = None
  Clients = {c1, c2}
  Branches = {b1, b2}
  Workers <- mcWorkers
  Tasks <- mcTasks
  Dependencies <- chain
  Required <- mcRequired
  Resources <- mcResources
  Scopes <- mcScopes
  WorkerOf <- twoWorkers
  Menu <- reviewMenu
  Pulls = {p1}
  HeadBranch <- mcHead
  Attempts = 2
  MaxOps = 4
  MaxLate = 1
  MaxHead = 2
SPECIFICATION Spec
INVARIANT PrerequisitesDone
INVARIANT MergedAsReviewed
INVARIANT UnderItsClaim
CHECK_DEADLOCK FALSE
