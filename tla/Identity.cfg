CONSTANTS
  Accounts = {anna}
  Peers = {home, cafe}
  Tenants = {tenant}
  Threads = {t1, t2}
  Workers = {w1, w2}
  AccountLimit = 1
  PeerLimit = 2
  RateRows = 4
  KeptSessions = 0
  MaxGeneration = 2
  MaxTokens = 2
  MaxRequests = 3
  MaxFaults = 1
SPECIFICATION FairSpec
INVARIANT TypeOK
INVARIANT NothingOutlives
INVARIANT GuessesBounded
PROPERTY RevokedActNoMore
PROPERTY DeletionEnds
CHECK_DEADLOCK FALSE
