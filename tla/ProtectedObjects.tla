-------------------------- MODULE ProtectedObjects --------------------------
(***************************************************************************)
(* One tenant's protected objects: manifests, references and quota in      *)
(* PostgreSQL, payloads in one S3 bucket (protected_objects.py and the     *)
(* trigger of object_migrations.py).                                       *)
(*                                                                         *)
(* Several server threads ("clients") run upload, download, delete and     *)
(* cleanup.  Every transaction takes the tenant's advisory lock first, so  *)
(* a transaction without remote I/O is one step; a transaction that talks  *)
(* to S3 keeps the lock over several steps.  A thread whose PostgreSQL     *)
(* connection dies loses the lock but goes on with its S3 requests until   *)
(* its next SQL statement, and a request it gave up on may still reach the *)
(* bucket at any later time.                                               *)
(*                                                                         *)
(* An object is named by the (actor, command) pair that reserves it, which *)
(* the code keeps unique per row.  A manifest stands for the bytes and the *)
(* request digest: two uploads are the same request iff their manifests    *)
(* are equal.                                                              *)
(***************************************************************************)
EXTENDS Integers, FiniteSets, Sequences, FiniteSetsExt

CONSTANTS
  Objects,       \* storage envelopes, one per upload command
  Clients,       \* threads of the service
  Manifests,     \* the contents an upload may carry
  References,    \* names a consumer attaches to an object
  Size,          \* bytes of the payload of a manifest
  MaxManifests,  \* MAX_MANIFESTS: rows a tenant may ever own
  CleanupLimit,  \* rows one cleanup call enumerates
  Quotas,        \* the byte limits an administrator sets
  MaxReads,      \* bound: downloads recorded per object
  Absent,        \* bucket content of a key never written
  Tombstone,     \* bucket content of an erased key: zero bytes and a marker
  None           \* no client, no object, no data

ASSUME Domains ==
  /\ IsFiniteSet(Objects)
  /\ Size \in [Manifests -> Nat \ {0}]
  /\ Quotas \subseteq Nat
  /\ MaxManifests \in Nat /\ CleanupLimit \in Nat /\ MaxReads \in Nat

ASSUME Distinct ==
  /\ Absent # Tombstone /\ Absent # None /\ Tombstone # None
  /\ Manifests \cap {Absent, Tombstone, None} = {}
  /\ None \notin Clients /\ None \notin Objects

VARIABLES
  state,      \* state[o]: cloud_objects.state, "none" while no row exists
  manifest,   \* manifest[o]: the immutable manifest of the row
  age,        \* age[o]: rank of the row by created_at
  evidence,   \* evidence[o]: the committed lifecycle events of the object
  refs,       \* refs[o]: cloud_object_refs
  lapsed,     \* objects whose retain_until is past
  quota,      \* cloud_object_quotas; no row admits as much as a limit of 0
  bucket,     \* bucket[o]: what the object's key holds
  late,       \* PUTs whose sender is gone and that may still take effect
  lock,       \* the session holding the advisory lock
  job,        \* job[c]: what the client is doing
  recorded,   \* recorded[o]: committed download events
  delivered   \* delivered[o]: payloads that reached a caller

rows       == <<state, manifest, age, evidence>>
catalogue  == <<refs, lapsed, quota>>
deliveries == <<recorded, delivered>>
vars == <<rows, catalogue, bucket, late, lock, job, deliveries>>

States == {"none", "pending", "ready", "deleting", "deleted"}

\* A conditional PUT: it takes effect only on a key whose content is `expect`.
Put(o, body, expect) == [key |-> o, body |-> body, expect |-> expect]

Requests == [key    : Objects,
             body   : Manifests \cup {Tombstone},
             expect : Manifests \cup {Absent}]

Events == {"reserved", "ready", "requested", "confirmed"}

Points == {"idle",
           "reserved", "putting", "verifying", "promoting",          \* upload
           "reading", "recording", "delivering",                     \* download
           "cleaning", "erasing", "heading", "tombing", "confirming", "erased"}

Tries == 3

Idle == [pc |-> "idle", obj |-> None, data |-> None, batch |-> {}, tries |-> 0]

Job == [pc    : Points,
        obj   : Objects \cup {None},
        data  : Manifests \cup {Absent, None},   \* bytes to send, or the ETag seen
        batch : SUBSET Objects,                  \* rows a cleanup has yet to delete
        tries : 0 .. Tries]

TypeOK ==
  /\ state \in [Objects -> States]
  /\ manifest \in [Objects -> Manifests \cup {None}]
  /\ age \in [Objects -> Nat]
  /\ evidence \in [Objects -> Seq(Events)]
  /\ refs \in [Objects -> SUBSET References]
  /\ lapsed \subseteq Objects
  /\ quota \in Nat
  /\ bucket \in [Objects -> Manifests \cup {Absent, Tombstone}]
  /\ late \subseteq Requests
  /\ lock \in Clients \cup {None}
  /\ job \in [Clients -> Job]
  /\ recorded \in [Objects -> Nat]
  /\ delivered \in [Objects -> Nat]

Init ==
  /\ state = [o \in Objects |-> "none"]
  /\ manifest = [o \in Objects |-> None]
  /\ age = [o \in Objects |-> 0]
  /\ evidence = [o \in Objects |-> <<>>]
  /\ refs = [o \in Objects |-> {}]
  /\ lapsed = {}
  /\ quota = 0
  /\ bucket = [o \in Objects |-> Absent]
  /\ late = {}
  /\ lock = None
  /\ job = [c \in Clients |-> Idle]
  /\ recorded = [o \in Objects |-> 0]
  /\ delivered = [o \in Objects |-> 0]

-----------------------------------------------------------------------------
(* The pieces handlers are made of. *)

Rows == {o \in Objects : state[o] # "none"}

\* Bytes charged to the tenant: those of every row that is not deleted.
Charged == {o \in Rows : state[o] # "deleted"}
Used    == SumFunction([o \in Charged |-> Size[manifest[o]]])

\* The trigger cloud_object_identity: an UPDATE of state it refuses fails.
MayBecome(old, new) ==
  \/ old = new
  \/ old = "pending" /\ new \in {"ready", "deleting"}
  \/ old = "ready" /\ new = "deleting"
  \/ old = "deleting" /\ new = "deleted"

SetState(o, new, event) ==
  /\ MayBecome(state[o], new)
  /\ state' = [state EXCEPT ![o] = new]
  /\ evidence' = [evidence EXCEPT ![o] = Append(@, event)]
  /\ UNCHANGED <<manifest, age>>

Goto(c, pc) == job' = [job EXCEPT ![c].pc = pc]

Unlocked(c) == IF lock = c THEN None ELSE lock

\* The rows a cleanup has yet to delete; with none left it returns.
CleanUp(c, batch) ==
  job' = [job EXCEPT ![c] = IF batch = {} THEN Idle
                            ELSE [Idle EXCEPT !.pc = "cleaning", !.batch = batch]]

\* The end of one deletion.
EndDeletion(c) == CleanUp(c, job[c].batch) /\ lock' = Unlocked(c)

\* The end of any other operation, normal or by an exception.
Leave(c) ==
  /\ job' = [job EXCEPT ![c] = Idle]
  /\ lock' = Unlocked(c)

\* The PUT a client is waiting for; erasure keeps the ETag it saw in data.
Call(c) == IF job[c].pc = "putting" THEN Put(job[c].obj, job[c].data, Absent)
                                    ELSE Put(job[c].obj, Tombstone, job[c].data)

Calling == {c \in Clients : job[c].pc \in {"putting", "tombing"}}

\* Variant: the bucket ignores the conditions.
MatchesAlways(q) == q \in Requests

Matches(q) == bucket[q.key] = q.expect

\* S3 decides a conditional PUT atomically.
Apply(q) == bucket' = IF Matches(q) THEN [bucket EXCEPT ![q.key] = q.body] ELSE bucket

InFlight == late \cup {Call(c) : c \in Calling}

-----------------------------------------------------------------------------
(* configure_quota and reference: one transaction, no remote I/O. *)

ConfigureQuota(q) ==
  /\ lock = None
  /\ quota' = q
  /\ UNCHANGED <<rows, refs, lapsed, bucket, late, lock, job, deliveries>>

Attach(o, r) ==
  /\ lock = None
  /\ state[o] = "ready"
  /\ refs' = [refs EXCEPT ![o] = @ \cup {r}]
  /\ UNCHANGED <<rows, lapsed, quota, bucket, late, lock, job, deliveries>>

Detach(o, r) ==
  /\ lock = None
  /\ state[o] = "ready"
  /\ refs' = [refs EXCEPT ![o] = @ \ {r}]
  /\ UNCHANGED <<rows, lapsed, quota, bucket, late, lock, job, deliveries>>

-----------------------------------------------------------------------------
(* upload: reserve in one transaction, move the bytes in a second one. *)

StartUpload(c, o, m) ==
  job' = [job EXCEPT ![c] = [Idle EXCEPT !.pc = "reserved", !.obj = o, !.data = m]]

\* Variant: reservations and unfinished deletions are not charged.
AdmitsByReadyBytes(m) ==
  /\ SumFunction([o \in {p \in Rows : state[p] = "ready"} |-> Size[manifest[o]]])
       + Size[m] <= quota
  /\ Cardinality(Rows) < MaxManifests

\* Within the quota and the row limit: a row is inserted.
Admits(m) == Used + Size[m] <= quota /\ Cardinality(Rows) < MaxManifests

Reserve(c, o, m) ==
  /\ job[c].pc = "idle" /\ lock = None
  /\ state[o] = "none"
  /\ Admits(m)
  /\ state' = [state EXCEPT ![o] = "pending"]
  /\ manifest' = [manifest EXCEPT ![o] = m]
  /\ age' = [age EXCEPT ![o] = Cardinality(Rows) + 1]
  /\ evidence' = [evidence EXCEPT ![o] = Append(@, "reserved")]
  /\ StartUpload(c, o, m)
  /\ UNCHANGED <<catalogue, bucket, late, lock, deliveries>>

\* Variant: the command alone identifies the request.
SameCommand(o, m) == m \in Manifests

SameRequest(o, m) == manifest[o] = m

\* A retry of the command joins the reservation if its digest is the same; a
\* retry of a settled command only returns the row and changes nothing.
Replay(c, o, m) ==
  /\ job[c].pc = "idle" /\ lock = None
  /\ state[o] = "pending"
  /\ SameRequest(o, m)
  /\ StartUpload(c, o, m)
  /\ UNCHANGED <<rows, catalogue, bucket, late, lock, deliveries>>

\* The second transaction reads the row again and sends If-None-Match: *.
BeginPut(c) ==
  /\ job[c].pc = "reserved" /\ lock = None
  /\ state[job[c].obj] = "pending"
  /\ lock' = c
  /\ Goto(c, "putting")
  /\ UNCHANGED <<rows, catalogue, bucket, late, deliveries>>

AlreadySettled(c) ==
  /\ job[c].pc = "reserved" /\ lock = None
  /\ state[job[c].obj] # "pending"
  /\ Leave(c)
  /\ UNCHANGED <<rows, catalogue, bucket, late, deliveries>>

\* S3 answers 200 or 412; the client reads the key back in both cases.
AnswerPut(c) ==
  /\ job[c].pc = "putting"
  /\ Apply(Call(c))
  /\ Goto(c, "verifying")
  /\ UNCHANGED <<rows, catalogue, late, lock, deliveries>>

\* S3Objects.read: size and SHA-256 against the manifest in hand.
Intact(c) == bucket[job[c].obj] = job[c].data

ReadBack(c, from, to) ==
  /\ job[c].pc = from
  /\ Intact(c)
  /\ Goto(c, to)
  /\ UNCHANGED <<rows, catalogue, bucket, late, lock, deliveries>>

IntegrityMismatch(c) ==
  /\ job[c].pc \in {"verifying", "reading"}
  /\ ~Intact(c)
  /\ Leave(c)
  /\ UNCHANGED <<rows, catalogue, bucket, late, deliveries>>

\* Variant: the statement goes through on a fresh connection.
Reconnected(c) == c \in Clients

\* A statement on a connection that is gone raises in the client.
Connected(c) == lock = c

Promote(c) ==
  /\ job[c].pc = "promoting"
  /\ Connected(c)
  /\ SetState(job[c].obj, "ready", "ready")
  /\ Leave(c)
  /\ UNCHANGED <<catalogue, bucket, late, deliveries>>

-----------------------------------------------------------------------------
(* download: read and verify under the lock, commit the event, hand over. *)

BeginDownload(c, o) ==
  /\ job[c].pc = "idle" /\ lock = None
  /\ state[o] = "ready"
  /\ recorded[o] < MaxReads
  /\ lock' = c
  /\ job' = [job EXCEPT ![c] = [Idle EXCEPT !.pc = "reading", !.obj = o,
                                            !.data = manifest[o]]]
  /\ UNCHANGED <<rows, catalogue, bucket, late, deliveries>>

RecordDownload(c) ==
  /\ job[c].pc = "recording"
  /\ Connected(c)
  /\ recorded' = [recorded EXCEPT ![job[c].obj] = @ + 1]
  /\ lock' = Unlocked(c)
  /\ Goto(c, "delivering")
  /\ UNCHANGED <<rows, catalogue, bucket, late, delivered>>

Deliver(c) ==
  /\ job[c].pc = "delivering"
  /\ delivered' = [delivered EXCEPT ![job[c].obj] = @ + 1]
  /\ Leave(c)
  /\ UNCHANGED <<rows, catalogue, bucket, late, recorded>>

-----------------------------------------------------------------------------
(* delete and cleanup. *)

\* Variants: confirmed deletions, or none that have started, are enumerated.
DueOrDeleted(o) == o \in Rows /\ o \in lapsed /\ refs[o] = {}
DueUnlessStarted(o) == state[o] \in {"pending", "ready"} /\ o \in lapsed /\ refs[o] = {}

\* cleanup's enumeration: the oldest expired, unreferenced rows.
Due(o) == o \in Rows /\ state[o] # "deleted" /\ o \in lapsed /\ refs[o] = {}

Oldest(S) == {o \in S : Cardinality({p \in S : age[p] < age[o]}) < CleanupLimit}

StartCleanup(c) ==
  /\ job[c].pc = "idle" /\ lock = None
  /\ \E o \in Objects : Due(o)
  /\ CleanUp(c, Oldest({o \in Objects : Due(o)}))
  /\ UNCHANGED <<rows, catalogue, bucket, late, lock, deliveries>>

\* Client c deletes o next: by request, or as the oldest of its batch.
Turn(c, o) ==
  \/ job[c].pc = "idle"
  \/ /\ job[c].pc = "cleaning" /\ o \in job[c].batch
     /\ \A p \in job[c].batch : age[o] <= age[p]

StartErasing(c, o) ==
  job' = [job EXCEPT ![c] = [Idle EXCEPT !.pc = "erasing", !.obj = o,
                                         !.batch = job[c].batch \ {o}]]

\* Variant: only the retention is checked.
ReleasableByAge(o) == o \in lapsed

Releasable(o) == refs[o] = {} /\ o \in lapsed

\* The first transaction: references and retention, then the deleting state.
RequestDeletion(c, o) ==
  /\ Turn(c, o) /\ lock = None
  /\ state[o] \in {"pending", "ready"}
  /\ Releasable(o)
  /\ SetState(o, "deleting", "requested")
  /\ StartErasing(c, o)
  /\ UNCHANGED <<catalogue, bucket, late, lock, deliveries>>

ResumeDeletion(c, o) ==
  /\ Turn(c, o) /\ lock = None
  /\ state[o] = "deleting"
  /\ StartErasing(c, o)
  /\ UNCHANGED <<rows, catalogue, bucket, late, lock, deliveries>>

\* Deleted meanwhile, or referenced again: cleanup goes on with the next row.
SkipDeletion(c, o) ==
  /\ job[c].pc = "cleaning" /\ Turn(c, o) /\ lock = None
  /\ \/ state[o] = "deleted"
     \/ state[o] \in {"pending", "ready"} /\ ~Releasable(o)
  /\ CleanUp(c, job[c].batch \ {o})
  /\ UNCHANGED <<rows, catalogue, bucket, late, lock, deliveries>>

\* The second transaction reads the row again before it touches the bucket.
BeginErase(c) ==
  /\ job[c].pc = "erasing" /\ lock = None
  /\ state[job[c].obj] = "deleting"
  /\ lock' = c
  /\ Goto(c, "heading")
  /\ UNCHANGED <<rows, catalogue, bucket, late, deliveries>>

AlreadyErased(c) ==
  /\ job[c].pc = "erasing" /\ lock = None
  /\ state[job[c].obj] # "deleting"
  /\ EndDeletion(c)
  /\ UNCHANGED <<rows, catalogue, bucket, late, deliveries>>

\* Variant: a key without an object counts as erased.
FencedOrAbsent(c) == bucket[job[c].obj] \in {Tombstone, Absent}

Fenced(c) == bucket[job[c].obj] = Tombstone

\* Variant: the loop has no bound.
MayTryForever(c) == c \in Clients

MayTry(c) == job[c].tries < Tries

\* HEAD finds the marker, or gives the condition of the next PUT.
FenceFound(c) ==
  /\ job[c].pc = "heading" /\ MayTry(c)
  /\ Fenced(c)
  /\ Goto(c, "erased")
  /\ UNCHANGED <<rows, catalogue, bucket, late, lock, deliveries>>

SendTombstone(c) ==
  /\ job[c].pc = "heading" /\ MayTry(c)
  /\ ~Fenced(c)
  /\ job' = [job EXCEPT ![c].pc = "tombing", ![c].data = bucket[job[c].obj]]
  /\ UNCHANGED <<rows, catalogue, bucket, late, lock, deliveries>>

TryAgain(c) == job' = [job EXCEPT ![c].pc = "heading", ![c].data = None, ![c].tries = @ + 1]

AnswerTombstone(c) ==
  /\ job[c].pc = "tombing"
  /\ Apply(Call(c))
  /\ IF Matches(Call(c)) THEN Goto(c, "confirming") ELSE TryAgain(c)
  /\ UNCHANGED <<rows, catalogue, late, lock, deliveries>>

\* 409: S3 refuses because another conditional request was in progress.
RefuseTombstone(c) ==
  /\ job[c].pc = "tombing"
  /\ TryAgain(c)
  /\ UNCHANGED <<rows, catalogue, bucket, late, lock, deliveries>>

ConfirmFence(c) ==
  /\ job[c].pc = "confirming"
  /\ IF Fenced(c) THEN Goto(c, "erased") ELSE TryAgain(c)
  /\ UNCHANGED <<rows, catalogue, bucket, late, lock, deliveries>>

\* Three tries are spent: StoreConflict, which cleanup skips.
FenceUnconfirmed(c) ==
  /\ job[c].pc = "heading" /\ ~MayTry(c)
  /\ EndDeletion(c)
  /\ UNCHANGED <<rows, catalogue, bucket, late, deliveries>>

ConfirmDeletion(c) ==
  /\ job[c].pc = "erased"
  /\ Connected(c)
  /\ SetState(job[c].obj, "deleted", "confirmed")
  /\ EndDeletion(c)
  /\ UNCHANGED <<catalogue, bucket, late, deliveries>>

-----------------------------------------------------------------------------
(* Failures and the environment. *)

\* The statement after the remote I/O finds the connection gone.
ConnectionGone(c) ==
  /\ job[c].pc \in {"promoting", "recording", "erased"}
  /\ ~Connected(c)
  /\ Leave(c)
  /\ UNCHANGED <<rows, catalogue, bucket, late, deliveries>>

\* PostgreSQL drops the session: rollback, and the advisory lock is free.
ConnectionLost(c) ==
  /\ lock = c
  /\ lock' = None
  /\ UNCHANGED <<rows, catalogue, bucket, late, job, deliveries>>

\* An S3 error or timeout, a lock timeout or the death of the process; the
\* PUT it was waiting for is still on its way.
Abandon(c) ==
  /\ job[c].pc # "idle"
  /\ late' = IF c \in Calling THEN late \cup {Call(c)} ELSE late
  /\ Leave(c)
  /\ UNCHANGED <<rows, catalogue, bucket, deliveries>>

\* A PUT nobody waits for reaches the bucket.
LateArrival(q) ==
  /\ Apply(q)
  /\ late' = late \ {q}
  /\ UNCHANGED <<rows, catalogue, lock, job, deliveries>>

\* Time passes retain_until of a row.
Lapse(o) ==
  /\ o \in Rows \ lapsed
  /\ lapsed' = lapsed \cup {o}
  /\ UNCHANGED <<rows, refs, quota, bucket, late, lock, job, deliveries>>

\* What a client that already started an operation does next.
Continue(c) ==
  \/ BeginPut(c) \/ AlreadySettled(c) \/ AnswerPut(c)
  \/ ReadBack(c, "verifying", "promoting") \/ Promote(c)
  \/ ReadBack(c, "reading", "recording") \/ RecordDownload(c) \/ Deliver(c)
  \/ IntegrityMismatch(c) \/ ConnectionGone(c)
  \/ BeginErase(c) \/ AlreadyErased(c) \/ FenceFound(c) \/ SendTombstone(c)
  \/ AnswerTombstone(c) \/ ConfirmFence(c) \/ FenceUnconfirmed(c) \/ ConfirmDeletion(c)

Delete(c, o) == RequestDeletion(c, o) \/ ResumeDeletion(c, o) \/ SkipDeletion(c, o)

Step ==
  \/ \E c \in Clients : Continue(c) \/ StartCleanup(c)
  \/ \E c \in Clients, o \in Objects : BeginDownload(c, o) \/ Delete(c, o)
  \/ \E c \in Clients, o \in Objects, m \in Manifests : Reserve(c, o, m) \/ Replay(c, o, m)
  \/ \E o \in Objects, r \in References : Attach(o, r) \/ Detach(o, r)
  \/ \E o \in Objects : Lapse(o)
  \/ \E q \in Quotas : ConfigureQuota(q)
  \/ \E q \in late : LateArrival(q)

Fault == \E c \in Clients : ConnectionLost(c) \/ Abandon(c) \/ RefuseTombstone(c)

Next == Step \/ Fault

Spec == Init /\ [][Next]_vars

-----------------------------------------------------------------------------
(* Properties. *)

\* Every byte the bucket holds for an object, and every byte a PUT still on
\* its way could add, belongs to a row that is charged to the tenant: after
\* "deleted" releases the quota no delayed upload recreates the payload
\* (S3Objects.delete, protected_objects.py:88).
AccountedBytes ==
  \A o \in Objects :
    \/ bucket[o] \in Manifests
    \/ \E q \in InFlight : q.key = o /\ q.body \in Manifests /\ Matches(q)
    => state[o] \notin {"none", "deleted"}

\* A ready object can be read: its key holds exactly its manifest's payload
\* and no request on its way, however late, can replace it.
ReadyIsReadable ==
  \A o \in Objects :
    state[o] = "ready" =>
      /\ bucket[o] = manifest[o]
      /\ \A q \in InFlight : q.key = o => ~Matches(q)

\* A referenced object stays ready, and no erasure of an object has been sent
\* or has taken effect before its retention is over and its references gone
\* (ProtectedObjects.delete checks once, before the deleting state).
ProtectedUntilReleased ==
  \A o \in Objects :
    /\ refs[o] # {} => state[o] = "ready"
    /\ \/ bucket[o] = Tombstone
       \/ \E q \in InFlight : q.key = o /\ q.body = Tombstone
       => o \in lapsed /\ refs[o] = {}

\* What the committed events of a row are in each of its states.
Told(o) ==
  CASE state[o] = "none"     -> evidence[o] = <<>>
    [] state[o] = "pending"  -> evidence[o] = <<"reserved">>
    [] state[o] = "ready"    -> evidence[o] = <<"reserved", "ready">>
    [] state[o] = "deleting" -> evidence[o] \in {<<"reserved", "requested">>,
                                                <<"reserved", "ready", "requested">>}
    [] state[o] = "deleted"  -> evidence[o] \in {<<"reserved", "requested", "confirmed">>,
                                       <<"reserved", "ready", "requested", "confirmed">>}

Delivering(o) == {c \in Clients : job[c].pc = "delivering" /\ job[c].obj = o}

\* The committed events tell the life of each object exactly once, whoever
\* performed it and however often it was retried, and no payload reaches a
\* caller without a committed download event of its own.
EvidenceTellsLifecycle ==
  \A o \in Objects :
    /\ Told(o)
    /\ delivered[o] + Cardinality(Delivering(o)) <= recorded[o]

\* Whatever a step adds to the charged bytes stays within the quota in force.
QuotaHonoured == [][Used' > Used => Used' <= quota']_vars

\* The store implements the lifecycle it promises.
Lifecycle == INSTANCE ObjectLifecycle

ImplementsLifecycle == Lifecycle!Spec

=============================================================================
