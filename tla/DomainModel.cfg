CONSTANTS
  None = None
  Actors = {"owner", "helper"}
  Grants <- mcGrants
  Session <- mcSession
  Keys = {1, 2}
  Required <- mcRequired
  Price = 1
  Lifetime = 1
  Retention = 1
  MaxNow = 2
  MaxAttempt = 2
  Bounds <- mcBounds
SPECIFICATION Spec
INVARIANT AppliedOnce
INVARIANT RestsOnSuccess
INVARIANT EvidenceOfThisAttempt
INVARIANT NoOrphanListing
CHECK_DEADLOCK FALSE
