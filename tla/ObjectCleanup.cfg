SPECIFICATION FairSpec
CONSTANTS
  o1 = o1
  o2 = o2
  m1 = m1
  m2 = m2
  Objects = {o1, o2}
  Clients = {c1, c2}
  Manifests = {m1}
  References = {}
  Size <- MCSize1
  MaxManifests = 2
  CleanupLimit = 1
  Quotas = {1, 2}
  MaxReads = 0
  Absent = Absent
  Tombstone = Tombstone
  None = None
  MaxFaults = 1
  Cleaner = c1
PROPERTIES
  QuotaHonoured
  DeletionIsConfirmed
  ExpiredIsErased
CHECK_DEADLOCK FALSE
