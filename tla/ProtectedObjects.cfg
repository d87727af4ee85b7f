SPECIFICATION Spec
CONSTANTS
  o1 = o1
  o2 = o2
  m1 = m1
  m2 = m2
  Objects = {o1}
  Clients = {c1, c2, c3}
  Manifests = {m1, m2}
  References = {r1}
  Size <- MCSize
  MaxManifests = 2
  CleanupLimit = 1
  Quotas = {2}
  MaxReads = 1
  Absent = Absent
  Tombstone = Tombstone
  None = None
SYMMETRY Symmetry
INVARIANTS
  TypeOK
  AccountedBytes
  ReadyIsReadable
  ProtectedUntilReleased
  EvidenceTellsLifecycle
PROPERTIES
  ImplementsLifecycle
CHECK_DEADLOCK FALSE
