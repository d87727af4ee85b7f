CONSTANTS
  None = None
  m0 = m0
  m1 = m1
  a1 = a1
  a2 = a2
  x1 = x1
  code = code
  docs = docs
  k1 = k1
  p1 = p1
  Commits <- mcCommits
  Before <- mcBefore
  Mains = {m0, m1}
  Passing = {a1, a2, x1}
  Paths <- mcPaths
  Scopes <- mcScopes
  Checkers = {k1}
  Pushers = {p1}
SPECIFICATION Spec
PROPERTY PushedWasTested
PROPERTY NeverRewritten
PROPERTY PushedUnderClaim
CHECK_DEADLOCK FALSE
