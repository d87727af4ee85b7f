CONSTANTS
  garden = garden
  cave = cave
  c0 = c0
  Ideas = {garden, cave}
  Saved = {garden}
  FirstDraft <- mcFirstDraft
  Scopes = {small, huge}
  Agreeable = {small}
  Commands = {c0, c1, c2}
  Threads = {t1, t2}
  MaxRevision = 2
  MaxVersions = 3
  MaxRequests = 3
  MaxFaults = 1
SPECIFICATION FairSpec
INVARIANT TypeOK
INVARIANT AgreedAsShown
PROPERTY AssessedIsCurrent
PROPERTY EveryRequestEnds
CHECK_DEADLOCK FALSE
