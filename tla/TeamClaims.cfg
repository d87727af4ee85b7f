CONSTANTS
  ann = ann
  bob = bob
  c1 = c1
  c2 = c2
  t1 = t1
  t2 = t2
  b1 = b1
  b2 = b2
  p1 = p1
  None = None
  Clients = {c1, c2}
  Branches = {b1, b2}
  Workers <- mcWorkers
  Tasks <- mcTasks
  Dependencies <- noDependencies
  Required <- mcRequired
  Resources <- mcResources
  Scopes <- mcScopes
  WorkerOf <- twoWorkers
  Menu <- claimMenu
  Pulls = {}
  HeadBranch <- noHead
  Attempts = 2
  MaxOps = 3
  MaxLate = 1
  MaxHead = 0
SPECIFICATION Spec
INVARIANT Exclusive
INVARIANT AnswersAreTrue
PROPERTY ImplementsBoard
CHECK_DEADLOCK FALSE
