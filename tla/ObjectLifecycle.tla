--------------------------- MODULE ObjectLifecycle ---------------------------
(***************************************************************************)
(* What the protected-object store promises about one tenant's objects,    *)
(* without threads, locks, connections or requests in flight: an object is *)
(* reserved, its bytes arrive, it becomes readable and referable, and once *)
(* it is released its bytes are erased for good.                           *)
(***************************************************************************)
CONSTANTS Objects, Manifests, References, Absent, Tombstone, None

VARIABLES state, manifest, refs, lapsed, bucket

vars == <<state, manifest, refs, lapsed, bucket>>

Init ==
  /\ state = [o \in Objects |-> "none"]
  /\ manifest = [o \in Objects |-> None]
  /\ refs = [o \in Objects |-> {}]
  /\ lapsed = {}
  /\ bucket = [o \in Objects |-> Absent]

Become(o, new) == state' = [state EXCEPT ![o] = new]

Reserve(o, m) ==
  /\ state[o] = "none"
  /\ Become(o, "pending")
  /\ manifest' = [manifest EXCEPT ![o] = m]
  /\ UNCHANGED <<refs, lapsed, bucket>>

\* The bytes may arrive at any time before the key is fenced, once.
Arrive(o) ==
  /\ state[o] \in {"pending", "deleting"} /\ bucket[o] = Absent
  /\ bucket' = [bucket EXCEPT ![o] = manifest[o]]
  /\ UNCHANGED <<state, manifest, refs, lapsed>>

Publish(o) ==
  /\ state[o] = "pending" /\ bucket[o] = manifest[o]
  /\ Become(o, "ready")
  /\ UNCHANGED <<manifest, refs, lapsed, bucket>>

Refer(o, R) ==
  /\ state[o] = "ready"
  /\ refs' = [refs EXCEPT ![o] = R]
  /\ UNCHANGED <<state, manifest, lapsed, bucket>>

Lapse(o) ==
  /\ state[o] # "none"
  /\ lapsed' = lapsed \cup {o}
  /\ UNCHANGED <<state, manifest, refs, bucket>>

Release(o) ==
  /\ state[o] \in {"pending", "ready"} /\ refs[o] = {} /\ o \in lapsed
  /\ Become(o, "deleting")
  /\ UNCHANGED <<manifest, refs, lapsed, bucket>>

Erase(o) ==
  /\ state[o] = "deleting"
  /\ bucket' = [bucket EXCEPT ![o] = Tombstone]
  /\ UNCHANGED <<state, manifest, refs, lapsed>>

Settle(o) ==
  /\ state[o] = "deleting" /\ bucket[o] = Tombstone
  /\ Become(o, "deleted")
  /\ UNCHANGED <<manifest, refs, lapsed, bucket>>

Next ==
  \E o \in Objects :
    \/ \E m \in Manifests : Reserve(o, m)
    \/ \E R \in SUBSET References : Refer(o, R)
    \/ Arrive(o) \/ Publish(o) \/ Lapse(o) \/ Release(o) \/ Erase(o) \/ Settle(o)

Spec == Init /\ [][Next]_vars

==============================================================================
