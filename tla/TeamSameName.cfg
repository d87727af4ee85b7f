CONSTANTS
  ann = ann
  bob = bob
  c1 = c1
  c2 = c2
  t1 = t1
  t2 = t2
  b1 = b1
  b2 = b2
  p1 = p1
  None = None
  Clients = {c1, c2}
  Branches = {b1, b2}
  Workers <- mcWorkers
  Tasks <- oneTask
  Dependencies <- noDeps1
  Required <- oneRequired
  Resources <- oneResources
  Scopes <- mcScopes
  WorkerOf <- oneWorker
  Menu <- sameNameMenu
  Pulls = {}
  HeadBranch <- noHead
  Attempts = 2
  MaxOps = 4
  MaxLate = 1
  MaxHead = 0
SPECIFICATION Spec
INVARIANT OldProcessFenced
CHECK_DEADLOCK FALSE
