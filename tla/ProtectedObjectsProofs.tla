----------------------- MODULE ProtectedObjectsProofs -----------------------
(***************************************************************************)
(* Proofs about ProtectedObjects for every number of objects, clients,     *)
(* manifests and references.                                               *)
(***************************************************************************)
EXTENDS ProtectedObjects, FiniteSetTheorems, SequenceTheorems, TLAPS

-----------------------------------------------------------------------------
(* Type correctness. *)

LEMMA RowsFinite == IsFiniteSet(Rows) /\ Cardinality(Rows) \in Nat
<1>1. Rows \subseteq Objects
  BY DEF Rows
<1>2. IsFiniteSet(Rows)
  BY <1>1, Domains, FS_Subset
<1> QED
  BY <1>2, FS_CardinalityType

\* The records operations assign to a client are jobs.
LEMMA JobTypes ==
  /\ Idle \in Job
  /\ \A j \in Job, p \in Points : [j EXCEPT !.pc = p] \in Job
  /\ \A j \in Job, B \in SUBSET Objects : [j EXCEPT !.pc = "cleaning", !.batch = B] \in Job
  /\ \A j \in Job, B \in SUBSET Objects : [j EXCEPT !.batch = B] \in Job
  /\ \A j \in Job, p \in Points, o \in Objects, d \in Manifests \cup {None} :
       [j EXCEPT !.pc = p, !.obj = o, !.data = d] \in Job
  /\ \A j \in Job, o \in Objects, B \in SUBSET Objects :
       [j EXCEPT !.pc = "erasing", !.obj = o, !.batch = B] \in Job
  /\ \A j \in Job, d \in Manifests \cup {Absent} :
       [j EXCEPT !.pc = "tombing", !.data = d] \in Job
  /\ \A j \in Job, n \in 0 .. Tries :
       [j EXCEPT !.pc = "heading", !.data = None, !.tries = n] \in Job
<1>1. Idle \in Job
  BY DEF Job, Idle, Points, Tries
<1>2. \A j \in Job, p \in Points : [j EXCEPT !.pc = p] \in Job
  BY DEF Job
<1>3. \A j \in Job, B \in SUBSET Objects : [j EXCEPT !.pc = "cleaning", !.batch = B] \in Job
  BY DEF Job, Points
<1>4. \A j \in Job, B \in SUBSET Objects : [j EXCEPT !.batch = B] \in Job
  BY DEF Job
<1>5. \A j \in Job, p \in Points, o \in Objects, d \in Manifests \cup {None} :
        [j EXCEPT !.pc = p, !.obj = o, !.data = d] \in Job
  BY DEF Job
<1>6. \A j \in Job, o \in Objects, B \in SUBSET Objects :
        [j EXCEPT !.pc = "erasing", !.obj = o, !.batch = B] \in Job
  BY DEF Job, Points
<1>7. \A j \in Job, d \in Manifests \cup {Absent} :
        [j EXCEPT !.pc = "tombing", !.data = d] \in Job
  BY DEF Job, Points
<1>8. \A j \in Job, n \in 0 .. Tries :
        [j EXCEPT !.pc = "heading", !.data = None, !.tries = n] \in Job
  BY DEF Job, Points
<1> QED
  BY <1>1, <1>2, <1>3, <1>4, <1>5, <1>6, <1>7, <1>8

-----------------------------------------------------------------------------
(* The inductive invariant: what is true of a row and its key, of a client *)
(* at each point of its operation, and of every PUT on its way.  It never  *)
(* mentions the advisory lock: a thread that lost the lock obeys it too.   *)

Erasure == {"deleting", "deleted"}

RowShape(o) ==
  /\ state[o] # "none" => manifest[o] \in Manifests
  /\ \/ bucket[o] = Absent /\ state[o] \in {"none", "pending", "deleting"}
     \/ bucket[o] = manifest[o] /\ state[o] \in {"pending", "ready", "deleting"}
     \/ bucket[o] = Tombstone /\ state[o] \in Erasure
  /\ state[o] \in Erasure => o \in lapsed
  /\ refs[o] # {} => state[o] = "ready"

Uploading   == {"reserved", "putting", "verifying", "promoting"}
Downloading == {"reading", "recording", "delivering"}
Erasing     == {"erasing", "heading", "tombing", "confirming", "erased"}

JobShape(c) ==
  LET j == job[c]
  IN  /\ j.pc \in Uploading \cup Downloading =>
           j.obj \in Objects /\ state[j.obj] # "none" /\ j.data = manifest[j.obj]
      /\ j.pc = "promoting" => bucket[j.obj] \in {manifest[j.obj], Tombstone}
      /\ j.pc \in Erasing => j.obj \in Objects /\ state[j.obj] \in Erasure
      /\ j.pc = "tombing" => j.data \in Manifests \cup {Absent}
      /\ j.pc = "erased" => bucket[j.obj] = Tombstone
      /\ j.pc \in {"tombing", "confirming"} => j.tries < Tries

\* A PUT carries the row's own payload to an empty key, or a tombstone to a
\* row whose erasure has been decided.
SentFor(q) ==
  /\ state[q.key] # "none"
  /\ \/ q.body = manifest[q.key] /\ q.expect = Absent
     \/ q.body = Tombstone /\ state[q.key] \in Erasure

Shapes ==
  /\ \A o \in Objects : RowShape(o)
  /\ \A c \in Clients : JobShape(c)
  /\ \A q \in late : SentFor(q)

IInv == TypeOK /\ Shapes

-----------------------------------------------------------------------------
(* What the abstract lifecycle preserves. *)

LifeType ==
  /\ state \in [Objects -> States]
  /\ manifest \in [Objects -> Manifests \cup {None}]
  /\ refs \in [Objects -> SUBSET References]
  /\ lapsed \subseteq Objects
  /\ bucket \in [Objects -> Manifests \cup {Absent, Tombstone}]

Monotone ==
  \A o \in Objects :
    /\ state[o] # "none" => state'[o] # "none" /\ manifest'[o] = manifest[o]
    /\ state[o] \in Erasure => state'[o] \in Erasure
    /\ bucket[o] = Tombstone => bucket'[o] = Tombstone
    /\ bucket[o] = manifest[o] /\ state[o] # "none" =>
         bucket'[o] \in {manifest[o], Tombstone}

\* A step of the lifecycle keeps rows and keys in shape, and nothing decided
\* about an object is ever taken back.
LEMMA LifecycleStep ==
  ASSUME LifeType, \A o \in Objects : RowShape(o), [Lifecycle!Next]_(Lifecycle!vars)
  PROVE  LifeType' /\ (\A o \in Objects : RowShape(o)') /\ Monotone
<1> USE Distinct DEF LifeType, RowShape, Monotone, States, Erasure
<1>1. CASE UNCHANGED Lifecycle!vars
  BY <1>1 DEF Lifecycle!vars
<1>2. ASSUME NEW o \in Objects, NEW m \in Manifests, Lifecycle!Reserve(o, m)
      PROVE  LifeType' /\ (\A p \in Objects : RowShape(p)') /\ Monotone
  BY <1>2 DEF Lifecycle!Reserve, Lifecycle!Become
<1>3. ASSUME NEW o \in Objects, NEW R \in SUBSET References, Lifecycle!Refer(o, R)
      PROVE  LifeType' /\ (\A p \in Objects : RowShape(p)') /\ Monotone
  BY <1>3 DEF Lifecycle!Refer
<1>4. ASSUME NEW o \in Objects, Lifecycle!Arrive(o)
      PROVE  LifeType' /\ (\A p \in Objects : RowShape(p)') /\ Monotone
  BY <1>4 DEF Lifecycle!Arrive
<1>5. ASSUME NEW o \in Objects, Lifecycle!Publish(o)
      PROVE  LifeType' /\ (\A p \in Objects : RowShape(p)') /\ Monotone
  BY <1>5 DEF Lifecycle!Publish, Lifecycle!Become
<1>6. ASSUME NEW o \in Objects, Lifecycle!Lapse(o)
      PROVE  LifeType' /\ (\A p \in Objects : RowShape(p)') /\ Monotone
  BY <1>6 DEF Lifecycle!Lapse
<1>7. ASSUME NEW o \in Objects, Lifecycle!Release(o)
      PROVE  LifeType' /\ (\A p \in Objects : RowShape(p)') /\ Monotone
  BY <1>7 DEF Lifecycle!Release, Lifecycle!Become
<1>8. ASSUME NEW o \in Objects, Lifecycle!Erase(o)
      PROVE  LifeType' /\ (\A p \in Objects : RowShape(p)') /\ Monotone
  BY <1>8 DEF Lifecycle!Erase
<1>9. ASSUME NEW o \in Objects, Lifecycle!Settle(o)
      PROVE  LifeType' /\ (\A p \in Objects : RowShape(p)') /\ Monotone
  BY <1>9 DEF Lifecycle!Settle, Lifecycle!Become
<1> QED
  BY <1>1, <1>2, <1>3, <1>4, <1>5, <1>6, <1>7, <1>8, <1>9 DEF Lifecycle!Next

-----------------------------------------------------------------------------
(* Every step of the store is a step of the lifecycle. *)

\* A PUT that was sent for its row changes the key as the lifecycle allows,
\* whenever it arrives.
LEMMA ApplyRefines ==
  ASSUME IInv, NEW q \in Requests, SentFor(q), Apply(q),
         UNCHANGED <<state, manifest, refs, lapsed>>
  PROVE  [Lifecycle!Next]_(Lifecycle!vars)
<1> DEFINE o == q.key
<1>1. o \in Objects /\ q.expect \in Manifests \cup {Absent}
  BY DEF Requests
<1>2. CASE ~Matches(q)
  BY <1>2 DEF Apply, Lifecycle!vars
<1>3. CASE Matches(q) /\ q.body = manifest[o] /\ q.expect = Absent
  <2>1. state[o] \in {"pending", "deleting"} /\ bucket[o] = Absent
    BY <1>1, <1>3, Distinct DEF IInv, Shapes, RowShape, SentFor, Matches, Erasure
  <2>2. bucket' = [bucket EXCEPT ![o] = manifest[o]]
    BY <1>3 DEF Apply
  <2>3. Lifecycle!Arrive(o)
    BY <2>1, <2>2 DEF Lifecycle!Arrive
  <2> QED
    BY <1>1, <2>3 DEF Lifecycle!Next
<1>4. CASE Matches(q) /\ q.body = Tombstone /\ state[o] \in Erasure
  <2>1. bucket[o] # Tombstone
    BY <1>1, <1>4, Distinct DEF Matches
  <2>2. state[o] = "deleting"
    BY <1>1, <1>4, <2>1 DEF IInv, Shapes, RowShape, Erasure
  <2>3. Lifecycle!Erase(o)
    BY <1>4, <2>2 DEF Apply, Lifecycle!Erase
  <2> QED
    BY <1>1, <2>3 DEF Lifecycle!Next
<1> QED
  BY <1>2, <1>3, <1>4 DEF SentFor

\* The PUT a client waits for is a well-formed request of its job.
LEMMA CallSent ==
  ASSUME IInv, NEW c \in Clients, job[c].pc \in {"putting", "tombing"}
  PROVE  Call(c) \in Requests /\ SentFor(Call(c))
<1>0. JobShape(c)
  BY DEF IInv, Shapes
<1>1. CASE job[c].pc = "putting"
  <2>1. Call(c) = [key |-> job[c].obj, body |-> job[c].data, expect |-> Absent]
    BY <1>1 DEF Call, Put
  <2>2. job[c].obj \in Objects /\ state[job[c].obj] # "none" /\ job[c].data = manifest[job[c].obj]
    BY <1>0, <1>1 DEF JobShape, Uploading
  <2>3. manifest[job[c].obj] \in Manifests
    BY <2>2 DEF IInv, Shapes, RowShape
  <2> QED
    BY <2>1, <2>2, <2>3 DEF Requests, SentFor
<1>2. CASE job[c].pc = "tombing"
  <2>1. Call(c) = [key |-> job[c].obj, body |-> Tombstone, expect |-> job[c].data]
    BY <1>2 DEF Call, Put
  <2>2. /\ job[c].obj \in Objects /\ state[job[c].obj] \in Erasure
        /\ job[c].data \in Manifests \cup {Absent}
    BY <1>0, <1>2 DEF JobShape, Erasing
  <2> QED
    BY <2>1, <2>2 DEF Requests, SentFor, Erasure
<1> QED
  BY <1>1, <1>2

LEMMA ContinueRefines ==
  ASSUME IInv, NEW c \in Clients, Continue(c)
  PROVE  [Lifecycle!Next]_(Lifecycle!vars)
<1> DEFINE o == job[c].obj
<1> USE DEF rows, catalogue
<1>1. CASE AnswerPut(c)
  BY <1>1, CallSent, ApplyRefines DEF AnswerPut
<1>2. CASE AnswerTombstone(c)
  BY <1>2, CallSent, ApplyRefines DEF AnswerTombstone
<1>3. CASE Promote(c)
  <2>1. /\ o \in Objects /\ bucket[o] \in {manifest[o], Tombstone}
        /\ RowShape(o)
    BY <1>3 DEF Promote, IInv, Shapes, JobShape, Uploading
  <2>2. state[o] \in {"pending", "ready"} /\ state' = [state EXCEPT ![o] = "ready"]
    BY <1>3 DEF Promote, SetState, MayBecome
  <2>3. CASE state[o] = "pending"
    <3>1. bucket[o] = manifest[o]
      BY <2>1, <2>3, Distinct DEF RowShape, Erasure
    <3>2. Lifecycle!Publish(o)
      BY <1>3, <2>3, <3>1 DEF Promote, SetState, Lifecycle!Publish, Lifecycle!Become
    <3> QED BY <2>1, <3>2 DEF Lifecycle!Next
  <2>4. CASE state[o] = "ready"
    <3>1. state' = state
      BY <2>2, <2>4 DEF IInv, TypeOK
    <3> QED BY <1>3, <3>1 DEF Promote, SetState, Lifecycle!vars
  <2> QED BY <2>2, <2>3, <2>4
<1>4. CASE ConfirmDeletion(c)
  <2>1. o \in Objects /\ bucket[o] = Tombstone /\ state[o] \in Erasure
    BY <1>4 DEF ConfirmDeletion, IInv, Shapes, JobShape, Erasing
  <2>2. state' = [state EXCEPT ![o] = "deleted"]
    BY <1>4 DEF ConfirmDeletion, SetState
  <2>3. CASE state[o] = "deleting"
    <3>1. Lifecycle!Settle(o)
      BY <1>4, <2>1, <2>3 DEF ConfirmDeletion, SetState, Lifecycle!Settle, Lifecycle!Become
    <3> QED BY <2>1, <3>1 DEF Lifecycle!Next
  <2>4. CASE state[o] = "deleted"
    <3>1. state' = state
      BY <2>2, <2>4 DEF IInv, TypeOK
    <3> QED BY <1>4, <3>1 DEF ConfirmDeletion, SetState, Lifecycle!vars
  <2> QED BY <2>1, <2>3, <2>4 DEF Erasure
<1>5. CASE BeginPut(c) \/ AlreadySettled(c) \/ RecordDownload(c) \/ Deliver(c)
           \/ IntegrityMismatch(c) \/ ConnectionGone(c) \/ BeginErase(c) \/ AlreadyErased(c)
           \/ FenceFound(c) \/ SendTombstone(c) \/ ConfirmFence(c) \/ FenceUnconfirmed(c)
  BY <1>5 DEF BeginPut, AlreadySettled, RecordDownload, Deliver, IntegrityMismatch,
     ConnectionGone, BeginErase, AlreadyErased, FenceFound, SendTombstone, ConfirmFence,
     FenceUnconfirmed, Lifecycle!vars
<1>6. CASE ReadBack(c, "verifying", "promoting") \/ ReadBack(c, "reading", "recording")
  BY <1>6 DEF ReadBack, Lifecycle!vars
<1> QED
  BY <1>1, <1>2, <1>3, <1>4, <1>5, <1>6 DEF Continue

LEMMA StepRefines ==
  ASSUME IInv, [Next]_vars
  PROVE  [Lifecycle!Next]_(Lifecycle!vars)
<1> USE DEF rows, catalogue
<1>1. ASSUME NEW c \in Clients, Continue(c) PROVE [Lifecycle!Next]_(Lifecycle!vars)
  BY <1>1, ContinueRefines
<1>2. ASSUME NEW c \in Clients, StartCleanup(c) PROVE [Lifecycle!Next]_(Lifecycle!vars)
  BY <1>2 DEF StartCleanup, Lifecycle!vars
<1>3. ASSUME NEW c \in Clients, NEW o \in Objects,
             BeginDownload(c, o) \/ ResumeDeletion(c, o) \/ SkipDeletion(c, o)
      PROVE  [Lifecycle!Next]_(Lifecycle!vars)
  BY <1>3 DEF BeginDownload, ResumeDeletion, SkipDeletion, Lifecycle!vars
<1>4. ASSUME NEW c \in Clients, NEW o \in Objects, RequestDeletion(c, o)
      PROVE  [Lifecycle!Next]_(Lifecycle!vars)
  <2>1. Lifecycle!Release(o)
    BY <1>4 DEF RequestDeletion, SetState, Releasable, Lifecycle!Release, Lifecycle!Become
  <2> QED BY <2>1 DEF Lifecycle!Next
<1>5. ASSUME NEW c \in Clients, NEW o \in Objects, NEW m \in Manifests, Reserve(c, o, m)
      PROVE  [Lifecycle!Next]_(Lifecycle!vars)
  <2>1. Lifecycle!Reserve(o, m)
    BY <1>5 DEF Reserve, Lifecycle!Reserve, Lifecycle!Become
  <2> QED BY <2>1 DEF Lifecycle!Next
<1>6. ASSUME NEW c \in Clients, NEW o \in Objects, NEW m \in Manifests, Replay(c, o, m)
      PROVE  [Lifecycle!Next]_(Lifecycle!vars)
  BY <1>6 DEF Replay, Lifecycle!vars
<1>7. ASSUME NEW o \in Objects, NEW r \in References, Attach(o, r) \/ Detach(o, r)
      PROVE  [Lifecycle!Next]_(Lifecycle!vars)
  <2>1. refs[o] \cup {r} \in SUBSET References /\ refs[o] \ {r} \in SUBSET References
    BY DEF IInv, TypeOK
  <2>2. Lifecycle!Refer(o, refs[o] \cup {r}) \/ Lifecycle!Refer(o, refs[o] \ {r})
    BY <1>7 DEF Attach, Detach, Lifecycle!Refer
  <2> QED BY <2>1, <2>2 DEF Lifecycle!Next
<1>8. ASSUME NEW o \in Objects, Lapse(o) PROVE [Lifecycle!Next]_(Lifecycle!vars)
  <2>1. Lifecycle!Lapse(o)
    BY <1>8 DEF Lapse, Rows, Lifecycle!Lapse
  <2> QED BY <2>1 DEF Lifecycle!Next
<1>9. ASSUME NEW q \in Quotas, ConfigureQuota(q) PROVE [Lifecycle!Next]_(Lifecycle!vars)
  BY <1>9 DEF ConfigureQuota, Lifecycle!vars
<1>10. ASSUME NEW q \in late, LateArrival(q) PROVE [Lifecycle!Next]_(Lifecycle!vars)
  <2>1. q \in Requests /\ SentFor(q)
    BY DEF IInv, TypeOK, Shapes
  <2> QED BY <1>10, <2>1, ApplyRefines DEF LateArrival
<1>11. CASE Fault
  BY <1>11 DEF Fault, ConnectionLost, Abandon, RefuseTombstone, Lifecycle!vars
<1>12. CASE UNCHANGED vars
  BY <1>12 DEF vars, Lifecycle!vars
<1> QED
  BY <1>1, <1>2, <1>3, <1>4, <1>5, <1>6, <1>7, <1>8, <1>9, <1>10, <1>11, <1>12
     DEF Next, Step, Delete

-----------------------------------------------------------------------------
(* A step moves at most one client, and leaves it in shape. *)

Moves(c) ==
  /\ job' \in [Clients -> Job]
  /\ \A d \in Clients \ {c} : job'[d] = job[d]
  /\ JobShape(c)'

LEMMA GotoJob ==
  ASSUME TypeOK, NEW c \in Clients, NEW p \in Points, Goto(c, p)
  PROVE  /\ job' \in [Clients -> Job]
         /\ \A d \in Clients \ {c} : job'[d] = job[d]
         /\ job'[c].pc = p /\ job'[c].obj = job[c].obj /\ job'[c].data = job[c].data
         /\ job'[c].tries = job[c].tries
<1>1. job' = [job EXCEPT ![c] = [job[c] EXCEPT !.pc = p]]
  BY DEF Goto
<1>2. job[c] \in Job /\ [job[c] EXCEPT !.pc = p] \in Job
  BY JobTypes DEF TypeOK
<1>3. job'[c] = [job[c] EXCEPT !.pc = p]
  BY <1>1 DEF TypeOK
<1>4. job' \in [Clients -> Job] /\ \A d \in Clients \ {c} : job'[d] = job[d]
  BY <1>1, <1>2 DEF TypeOK
<1> QED
  BY <1>2, <1>3, <1>4 DEF Job

LEMMA LeaveJob ==
  ASSUME TypeOK, NEW c \in Clients, Leave(c)
  PROVE  Moves(c) /\ lock' \in Clients \cup {None}
<1>1. job'[c].pc = "idle"
  BY DEF TypeOK, Leave, Idle
<1>2. job' \in [Clients -> Job] /\ \A d \in Clients \ {c} : job'[d] = job[d]
  BY JobTypes DEF TypeOK, Leave
<1> QED
  BY <1>1, <1>2 DEF Moves, JobShape, Leave, Unlocked, TypeOK, Uploading, Downloading, Erasing

LEMMA CleanUpJob ==
  ASSUME TypeOK, NEW c \in Clients, NEW B \in SUBSET Objects, CleanUp(c, B)
  PROVE  Moves(c)
<1> DEFINE next == [Idle EXCEPT !.pc = "cleaning", !.batch = B]
<1>1. Idle \in Job /\ next \in Job /\ Idle.pc = "idle" /\ next.pc = "cleaning"
  BY JobTypes DEF Idle
<1>2. \/ job' = [job EXCEPT ![c] = Idle]
      \/ job' = [job EXCEPT ![c] = next]
  BY DEF CleanUp
<1>3. /\ job' \in [Clients -> Job] /\ \A d \in Clients \ {c} : job'[d] = job[d]
      /\ job'[c].pc \in {"idle", "cleaning"}
  <2> HIDE DEF next
  <2> QED BY <1>1, <1>2 DEF TypeOK
<1> QED
  BY <1>3 DEF Moves, JobShape, Uploading, Downloading, Erasing

LEMMA EndDeletionJob ==
  ASSUME TypeOK, NEW c \in Clients, EndDeletion(c)
  PROVE  Moves(c) /\ lock' \in Clients \cup {None}
<1>1. job[c].batch \in SUBSET Objects
  BY DEF TypeOK, Job
<1> QED
  BY <1>1, CleanUpJob DEF EndDeletion, Unlocked, TypeOK

\* A client at work on o that is given the record j.
LEMMA AssignJob ==
  ASSUME TypeOK, NEW c \in Clients, NEW j \in Job, job' = [job EXCEPT ![c] = j]
  PROVE  /\ job' \in [Clients -> Job]
         /\ \A d \in Clients \ {c} : job'[d] = job[d]
         /\ job'[c] = j
BY DEF TypeOK

LEMMA TryAgainJob ==
  ASSUME TypeOK, NEW c \in Clients, TryAgain(c), job[c].tries < Tries,
         JobShape(c), job[c].pc \in Erasing, UNCHANGED state
  PROVE  Moves(c)
<1> DEFINE n == job[c].tries + 1
           j == [job[c] EXCEPT !.pc = "heading", !.data = None, !.tries = n]
<1>1. job[c] \in Job /\ job[c].tries \in 0 .. Tries
  BY DEF TypeOK, Job
<1>2. n \in 0 .. Tries
  BY <1>1 DEF Tries
<1>3. j \in Job
  BY <1>1, <1>2, JobTypes
<1>4. job' = [job EXCEPT ![c] = j]
  BY DEF TryAgain
<1>5. /\ job' \in [Clients -> Job]
      /\ \A d \in Clients \ {c} : job'[d] = job[d]
      /\ job'[c] = j
  <2> HIDE DEF j
  <2> QED BY <1>3, <1>4, AssignJob
<1>6. job'[c].pc = "heading" /\ job'[c].obj = job[c].obj
  BY <1>1, <1>5 DEF Job
<1> QED
  BY <1>5, <1>6 DEF Moves, JobShape, Uploading, Downloading, Erasing

LEMMA ContinueMoves ==
  ASSUME IInv, NEW c \in Clients, Continue(c), Monotone
  PROVE  Moves(c)
<1> DEFINE o == job[c].obj
<1>1. TypeOK /\ JobShape(c)
  BY DEF IInv, Shapes
<1> USE DEF Monotone, JobShape, Uploading, Downloading, Erasing, Points
<1>2. CASE BeginPut(c)
  <2>1. Goto(c, "putting") /\ job[c].pc = "reserved"
    BY <1>2 DEF BeginPut
  <2> QED BY <1>1, <2>1, GotoJob DEF Moves
<1>3. CASE AnswerPut(c)
  <2>1. Goto(c, "verifying") /\ job[c].pc = "putting"
    BY <1>3 DEF AnswerPut
  <2> QED BY <1>1, <2>1, GotoJob DEF Moves
<1>4. CASE ReadBack(c, "verifying", "promoting")
  <2>1. Goto(c, "promoting") /\ job[c].pc = "verifying" /\ bucket[o] = job[c].data /\ bucket' = bucket
    BY <1>4 DEF ReadBack, Intact
  <2> QED BY <1>1, <2>1, GotoJob DEF Moves
<1>5. CASE ReadBack(c, "reading", "recording")
  <2>1. Goto(c, "recording") /\ job[c].pc = "reading"
    BY <1>5 DEF ReadBack
  <2> QED BY <1>1, <2>1, GotoJob DEF Moves
<1>6. CASE RecordDownload(c)
  <2>1. Goto(c, "delivering") /\ job[c].pc = "recording"
    BY <1>6 DEF RecordDownload
  <2> QED BY <1>1, <2>1, GotoJob DEF Moves
<1>7. CASE BeginErase(c)
  <2>1. Goto(c, "heading") /\ job[c].pc = "erasing"
    BY <1>7 DEF BeginErase
  <2> QED BY <1>1, <2>1, GotoJob DEF Moves
<1>8. CASE FenceFound(c)
  <2>1. Goto(c, "erased") /\ job[c].pc = "heading" /\ bucket[o] = Tombstone /\ bucket' = bucket
    BY <1>8 DEF FenceFound, Fenced
  <2> QED BY <1>1, <2>1, GotoJob DEF Moves
<1>9. CASE SendTombstone(c)
  <2> DEFINE j == [job[c] EXCEPT !.pc = "tombing", !.data = bucket[o]]
  <2>1. /\ job[c].pc = "heading" /\ job[c].tries < Tries
        /\ bucket[o] # Tombstone /\ job' = [job EXCEPT ![c] = j]
    BY <1>9 DEF SendTombstone, MayTry, Fenced
  <2>2. o \in Objects /\ bucket[o] \in Manifests \cup {Absent}
    BY <1>1, <2>1 DEF TypeOK
  <2>3. job[c] \in Job /\ j \in Job
    BY <1>1, <2>2, JobTypes DEF TypeOK
  <2>4. /\ job' \in [Clients -> Job]
        /\ \A d \in Clients \ {c} : job'[d] = job[d]
        /\ job'[c] = j
    <3> HIDE DEF j
    <3> QED BY <1>1, <2>1, <2>3, AssignJob
  <2>5. /\ job'[c].pc = "tombing" /\ job'[c].obj = o /\ job'[c].data = bucket[o]
        /\ job'[c].tries = job[c].tries
    BY <2>3, <2>4 DEF Job
  <2> QED BY <1>1, <2>1, <2>2, <2>4, <2>5 DEF Moves
<1>10. CASE AnswerTombstone(c)
  <2>1. job[c].pc = "tombing" /\ (Goto(c, "confirming") \/ TryAgain(c)) /\ state' = state
    BY <1>10 DEF AnswerTombstone, rows
  <2>2. CASE Goto(c, "confirming")
    BY <1>1, <2>1, <2>2, GotoJob DEF Moves
  <2> QED BY <1>1, <2>1, <2>2, TryAgainJob
<1>11. CASE ConfirmFence(c)
  <2>1. /\ job[c].pc = "confirming" /\ state' = state /\ bucket' = bucket
        /\ (Goto(c, "erased") /\ bucket[o] = Tombstone) \/ TryAgain(c)
    BY <1>11 DEF ConfirmFence, Fenced, rows
  <2>2. CASE Goto(c, "erased") /\ bucket[o] = Tombstone
    BY <1>1, <2>1, <2>2, GotoJob DEF Moves
  <2> QED BY <1>1, <2>1, <2>2, TryAgainJob
<1>12. CASE Leave(c)
  BY <1>1, <1>12, LeaveJob
<1>13. CASE EndDeletion(c)
  BY <1>1, <1>13, EndDeletionJob
<1> QED
  BY <1>2, <1>3, <1>4, <1>5, <1>6, <1>7, <1>8, <1>9, <1>10, <1>11, <1>12, <1>13
     DEF Continue, AlreadySettled, Promote, Deliver, IntegrityMismatch, ConnectionGone,
         AlreadyErased, FenceUnconfirmed, ConfirmDeletion

\* The variables outside the lifecycle and the jobs keep their types.
OtherTypes ==
  /\ age \in [Objects -> Nat]
  /\ evidence \in [Objects -> Seq(Events)]
  /\ quota \in Nat
  /\ lock \in Clients \cup {None}
  /\ recorded \in [Objects -> Nat]
  /\ delivered \in [Objects -> Nat]

LEMMA EvidenceType ==
  ASSUME TypeOK, NEW o \in Objects, NEW e \in Events,
         evidence' = [evidence EXCEPT ![o] = Append(@, e)]
  PROVE  evidence' \in [Objects -> Seq(Events)]
<1>1. Append(evidence[o], e) \in Seq(Events)
  BY DEF TypeOK
<1> QED
  BY <1>1 DEF TypeOK

LEMMA OtherTypesStep == ASSUME IInv, [Next]_vars PROVE OtherTypes'
<1>1. TypeOK /\ OtherTypes
  BY DEF IInv, TypeOK, OtherTypes
<1> USE DEF OtherTypes, rows, catalogue, deliveries
<1>2. ASSUME NEW c \in Clients, Leave(c) \/ EndDeletion(c) PROVE lock' \in Clients \cup {None}
  BY <1>1, <1>2, LeaveJob, EndDeletionJob
<1>3. ASSUME NEW c \in Clients, Continue(c) PROVE OtherTypes'
  <2> DEFINE o == job[c].obj
  <2>0. JobShape(c)
    BY DEF IInv, Shapes
  <2>1. CASE Promote(c)
    <3>1. o \in Objects
      BY <2>0, <2>1 DEF Promote, JobShape, Uploading
    <3>2. evidence' \in [Objects -> Seq(Events)]
      BY <1>1, <2>1, <3>1, EvidenceType DEF Promote, SetState, Events
    <3> QED BY <1>1, <1>2, <2>1, <3>2 DEF Promote, SetState
  <2>2. CASE ConfirmDeletion(c)
    <3>1. o \in Objects
      BY <2>0, <2>2 DEF ConfirmDeletion, JobShape, Erasing
    <3>2. evidence' \in [Objects -> Seq(Events)]
      BY <1>1, <2>2, <3>1, EvidenceType DEF ConfirmDeletion, SetState, Events
    <3> QED BY <1>1, <1>2, <2>2, <3>2 DEF ConfirmDeletion, SetState
  <2>3. CASE RecordDownload(c)
    <3>1. o \in Objects
      BY <2>0, <2>3 DEF RecordDownload, JobShape, Downloading
    <3>2. recorded' \in [Objects -> Nat]
      BY <1>1, <2>3, <3>1 DEF RecordDownload
    <3> QED BY <1>1, <2>3, <3>2 DEF RecordDownload, Unlocked
  <2>4. CASE Deliver(c)
    <3>1. o \in Objects
      BY <2>0, <2>4 DEF Deliver, JobShape, Downloading
    <3>2. delivered' \in [Objects -> Nat]
      BY <1>1, <2>4, <3>1 DEF Deliver
    <3> QED BY <1>1, <1>2, <2>4, <3>2 DEF Deliver
  <2>5. CASE BeginPut(c) \/ BeginErase(c) \/ AnswerPut(c) \/ FenceFound(c) \/ SendTombstone(c)
             \/ AnswerTombstone(c) \/ ConfirmFence(c)
    BY <1>1, <2>5 DEF BeginPut, BeginErase, AnswerPut, FenceFound, SendTombstone,
       AnswerTombstone, ConfirmFence
  <2>6. CASE AlreadySettled(c) \/ IntegrityMismatch(c) \/ ConnectionGone(c) \/ AlreadyErased(c)
             \/ FenceUnconfirmed(c)
    BY <1>1, <1>2, <2>6 DEF AlreadySettled, IntegrityMismatch, ConnectionGone, AlreadyErased,
       FenceUnconfirmed
  <2>7. CASE ReadBack(c, "verifying", "promoting") \/ ReadBack(c, "reading", "recording")
    BY <1>1, <2>7 DEF ReadBack
  <2> QED
    BY <1>3, <2>1, <2>2, <2>3, <2>4, <2>5, <2>6, <2>7 DEF Continue
<1>4. ASSUME NEW c \in Clients, NEW o \in Objects, RequestDeletion(c, o) PROVE OtherTypes'
  <2>1. evidence' \in [Objects -> Seq(Events)]
    BY <1>1, <1>4, EvidenceType DEF RequestDeletion, SetState, Events
  <2> QED BY <1>1, <1>4, <2>1 DEF RequestDeletion, SetState
<1>5. ASSUME NEW c \in Clients, NEW o \in Objects, NEW m \in Manifests, Reserve(c, o, m)
      PROVE  OtherTypes'
  <2>1. evidence' \in [Objects -> Seq(Events)]
    BY <1>1, <1>5, EvidenceType DEF Reserve, Events
  <2>2. age' \in [Objects -> Nat]
    BY <1>1, <1>5, RowsFinite DEF Reserve
  <2> QED BY <1>1, <1>5, <2>1, <2>2 DEF Reserve
<1>6. ASSUME NEW c \in Clients, NEW o \in Objects,
             BeginDownload(c, o) \/ ResumeDeletion(c, o) \/ SkipDeletion(c, o)
      PROVE  OtherTypes'
  BY <1>1, <1>6 DEF BeginDownload, ResumeDeletion, SkipDeletion
<1>7. ASSUME NEW c \in Clients, StartCleanup(c) PROVE OtherTypes'
  BY <1>1, <1>7 DEF StartCleanup
<1>8. ASSUME NEW c \in Clients, NEW o \in Objects, NEW m \in Manifests, Replay(c, o, m)
      PROVE  OtherTypes'
  BY <1>1, <1>8 DEF Replay
<1>9. ASSUME NEW o \in Objects, NEW r \in References, Attach(o, r) \/ Detach(o, r)
      PROVE  OtherTypes'
  BY <1>1, <1>9 DEF Attach, Detach
<1>10. ASSUME NEW o \in Objects, Lapse(o) PROVE OtherTypes'
  BY <1>1, <1>10 DEF Lapse
<1>11. ASSUME NEW q \in Quotas, ConfigureQuota(q) PROVE OtherTypes'
  BY <1>1, <1>11, Domains DEF ConfigureQuota
<1>12. ASSUME NEW q \in late, LateArrival(q) PROVE OtherTypes'
  BY <1>1, <1>12 DEF LateArrival
<1>13. CASE Fault
  BY <1>1, <1>2, <1>13 DEF Fault, ConnectionLost, Abandon, RefuseTombstone
<1>14. CASE UNCHANGED vars
  BY <1>1, <1>14 DEF vars
<1> QED
  BY <1>3, <1>4, <1>5, <1>6, <1>7, <1>8, <1>9, <1>10, <1>11, <1>12, <1>13, <1>14
     DEF Next, Step, Delete

\* A client a step does not move, and a PUT it does not touch, stay in shape.
LEMMA OthersInShape ==
  ASSUME TypeOK, NEW c \in Clients, JobShape(c), Monotone, job'[c] = job[c]
  PROVE  JobShape(c)'
<1> DEFINE o == job[c].obj
<1>1. /\ o \in Objects /\ state[o] # "none" => state'[o] # "none" /\ manifest'[o] = manifest[o]
      /\ o \in Objects /\ state[o] \in Erasure => state'[o] \in Erasure
      /\ o \in Objects /\ bucket[o] = Tombstone => bucket'[o] = Tombstone
      /\ o \in Objects /\ state[o] # "none" /\ bucket[o] \in {manifest[o], Tombstone} =>
           bucket'[o] \in {manifest[o], Tombstone}
  BY DEF Monotone
<1> QED
  BY <1>1 DEF JobShape, Uploading, Downloading, Erasing

LEMMA SentStays ==
  ASSUME NEW q \in Requests, SentFor(q), Monotone
  PROVE  SentFor(q)'
BY DEF SentFor, Monotone, Requests

LEMMA JobsStep ==
  ASSUME IInv, [Next]_vars, Monotone
  PROVE  job' \in [Clients -> Job] /\ \A c \in Clients : JobShape(c)'
<1>1. TypeOK /\ \A c \in Clients : JobShape(c)
  BY DEF IInv, Shapes
<1>2. ASSUME NEW c \in Clients, Moves(c)
      PROVE  job' \in [Clients -> Job] /\ \A d \in Clients : JobShape(d)'
  BY <1>1, <1>2, OthersInShape DEF Moves
<1>3. ASSUME job' = job
      PROVE  job' \in [Clients -> Job] /\ \A d \in Clients : JobShape(d)'
  BY <1>1, <1>3, OthersInShape DEF TypeOK
<1>5. ASSUME NEW c \in Clients, Continue(c) PROVE Moves(c)
  BY <1>5, ContinueMoves
<1>6. ASSUME NEW c \in Clients, StartCleanup(c) PROVE Moves(c)
  <2>1. Oldest({o \in Objects : Due(o)}) \in SUBSET Objects
    BY DEF Oldest
  <2> QED BY <1>1, <1>6, <2>1, CleanUpJob DEF StartCleanup
<1>7. ASSUME NEW c \in Clients, NEW o \in Objects, SkipDeletion(c, o) PROVE Moves(c)
  <2>1. job[c].batch \ {o} \in SUBSET Objects
    BY <1>1 DEF TypeOK, Job
  <2> QED BY <1>1, <1>7, <2>1, CleanUpJob DEF SkipDeletion
<1>8. ASSUME NEW c \in Clients, NEW o \in Objects, StartErasing(c, o),
             state'[o] \in Erasure
      PROVE  Moves(c)
  <2> DEFINE B == job[c].batch \ {o}
             j == [Idle EXCEPT !.pc = "erasing", !.obj = o, !.batch = B]
  <2>1. B \in SUBSET Objects
    BY <1>1 DEF TypeOK, Job
  <2>2. j \in Job /\ j.pc = "erasing" /\ j.obj = o
    <3> HIDE DEF B
    <3> QED BY <2>1, JobTypes DEF Idle
  <2>3. job' = [job EXCEPT ![c] = j]
    BY <1>8 DEF StartErasing
  <2> HIDE DEF j
  <2> QED BY <1>1, <1>8, <2>2, <2>3, AssignJob DEF Moves, JobShape, Uploading, Downloading, Erasing
<1>9. ASSUME NEW c \in Clients, NEW o \in Objects,
             RequestDeletion(c, o) \/ ResumeDeletion(c, o)
      PROVE  Moves(c)
  <2>1. state'[o] = "deleting" /\ StartErasing(c, o)
    BY <1>1, <1>9 DEF RequestDeletion, ResumeDeletion, SetState, rows, TypeOK
  <2> QED BY <1>8, <2>1 DEF Erasure
<1>10. ASSUME NEW c \in Clients, NEW o \in Objects, BeginDownload(c, o) PROVE Moves(c)
  <2> DEFINE m == manifest[o]
             j == [Idle EXCEPT !.pc = "reading", !.obj = o, !.data = m]
  <2>1. m \in Manifests \cup {None} /\ manifest' = manifest /\ state'[o] # "none"
    BY <1>1, <1>10 DEF TypeOK, BeginDownload, rows
  <2>2. j \in Job /\ j.pc = "reading" /\ j.obj = o /\ j.data = m
    <3> HIDE DEF m
    <3> QED BY <2>1, JobTypes DEF Idle, Points
  <2>3. job' = [job EXCEPT ![c] = j]
    BY <1>10 DEF BeginDownload
  <2>4. m = manifest'[o]
    BY <2>1
  <2> HIDE DEF j, m
  <2> QED BY <1>1, <2>1, <2>2, <2>3, <2>4, AssignJob
          DEF Moves, JobShape, Uploading, Downloading, Erasing
<1>11. ASSUME NEW c \in Clients, NEW o \in Objects, NEW m \in Manifests,
              Reserve(c, o, m) \/ Replay(c, o, m)
       PROVE  Moves(c)
  <2> DEFINE j == [Idle EXCEPT !.pc = "reserved", !.obj = o, !.data = m]
  <2>1. m = manifest'[o] /\ state'[o] # "none" /\ job' = [job EXCEPT ![c] = j]
    BY <1>1, <1>11 DEF TypeOK, Reserve, Replay, SameRequest, StartUpload, rows
  <2>2. j \in Job /\ j.pc = "reserved" /\ j.obj = o /\ j.data = m
    BY JobTypes DEF Idle, Points
  <2> HIDE DEF j
  <2> QED BY <1>1, <2>1, <2>2, AssignJob DEF Moves, JobShape, Uploading, Downloading, Erasing
<1>12. ASSUME NEW c \in Clients, Abandon(c) \/ RefuseTombstone(c) PROVE Moves(c)
  <2>1. CASE Abandon(c)
    BY <1>1, <2>1, LeaveJob DEF Abandon
  <2>2. CASE RefuseTombstone(c)
    <3>1. job[c].pc = "tombing" /\ TryAgain(c) /\ state' = state
      BY <2>2 DEF RefuseTombstone, rows
    <3>2. job[c].tries < Tries /\ job[c].pc \in Erasing
      BY <1>1, <3>1 DEF JobShape, Erasing
    <3> QED BY <1>1, <3>1, <3>2, TryAgainJob
  <2> QED BY <1>12, <2>1, <2>2
<1>13. ASSUME NEW c \in Clients, ConnectionLost(c) PROVE job' = job
  BY <1>13 DEF ConnectionLost
<1>14. ASSUME NEW o \in Objects, NEW r \in References, Attach(o, r) \/ Detach(o, r)
       PROVE  job' = job
  BY <1>14 DEF Attach, Detach
<1>15. ASSUME NEW o \in Objects, Lapse(o) PROVE job' = job
  BY <1>15 DEF Lapse
<1>16. ASSUME NEW q \in Quotas, ConfigureQuota(q) PROVE job' = job
  BY <1>16 DEF ConfigureQuota
<1>17. ASSUME NEW q \in late, LateArrival(q) PROVE job' = job
  BY <1>17 DEF LateArrival
<1>18. CASE UNCHANGED vars
  BY <1>3, <1>18 DEF vars
<1>19. (\E c \in Clients : Moves(c)) \/ job' = job
  BY <1>5, <1>6, <1>7, <1>9, <1>10, <1>11, <1>12, <1>13, <1>14, <1>15, <1>16, <1>17, <1>18
     DEF Next, Step, Delete, Fault, vars
<1> QED
  BY <1>2, <1>3, <1>19

LEMMA LateStep ==
  ASSUME IInv, [Next]_vars, Monotone
  PROVE  late' \subseteq Requests /\ \A q \in late' : SentFor(q)'
<1>1. late \subseteq Requests /\ \A q \in late : SentFor(q)'
  BY SentStays DEF IInv, TypeOK, Shapes
<1>2. ASSUME late' \subseteq late
      PROVE  late' \subseteq Requests /\ \A q \in late' : SentFor(q)'
  BY <1>1, <1>2
<1>3. ASSUME NEW c \in Clients, Abandon(c), c \in Calling
      PROVE  late' \subseteq Requests /\ \A q \in late' : SentFor(q)'
  <2>1. Call(c) \in Requests /\ SentFor(Call(c))
    BY <1>3, CallSent DEF Calling
  <2>2. \A q \in Requests : SentFor(q) => SentFor(q)'
    BY SentStays
  <2>3. late' = late \cup {Call(c)}
    BY <1>3 DEF Abandon
  <2>4. ASSUME NEW q \in late' PROVE q \in Requests /\ SentFor(q)'
    BY <1>1, <2>1, <2>2, <2>3
  <2> QED BY <2>4
<1>4. late' \subseteq late \/ \E c \in Clients : Abandon(c) /\ c \in Calling
  BY DEF Next, Step, Continue, Delete, Fault, BeginPut, AlreadySettled, AnswerPut, ReadBack,
     Promote, RecordDownload, Deliver, IntegrityMismatch, ConnectionGone, BeginErase,
     AlreadyErased, FenceFound, SendTombstone, AnswerTombstone, ConfirmFence, FenceUnconfirmed,
     ConfirmDeletion, StartCleanup, BeginDownload, RequestDeletion, ResumeDeletion, SkipDeletion,
     Reserve, Replay, Attach, Detach, Lapse, ConfigureQuota, LateArrival, ConnectionLost, Abandon,
     RefuseTombstone, vars
<1> QED
  BY <1>2, <1>3, <1>4

-----------------------------------------------------------------------------
(* The theorems. *)

LEMMA Inductive == IInv /\ [Next]_vars => IInv'
<1> SUFFICES ASSUME IInv, [Next]_vars PROVE IInv'
  OBVIOUS
<1>1. LifeType /\ \A o \in Objects : RowShape(o)
  BY DEF IInv, TypeOK, LifeType, Shapes
<1>2. [Lifecycle!Next]_(Lifecycle!vars)
  BY StepRefines
<1>3. LifeType' /\ (\A o \in Objects : RowShape(o)') /\ Monotone
  BY <1>1, <1>2, LifecycleStep
<1>4. job' \in [Clients -> Job] /\ \A c \in Clients : JobShape(c)'
  BY <1>3, JobsStep
<1>5. late' \subseteq Requests /\ \A q \in late' : SentFor(q)'
  BY <1>3, LateStep
<1>6. OtherTypes'
  BY OtherTypesStep
<1>7. TypeOK'
  BY <1>3, <1>4, <1>5, <1>6 DEF TypeOK, LifeType, OtherTypes
<1> QED
  BY <1>3, <1>4, <1>5, <1>7 DEF IInv, Shapes

LEMMA TypeInit == Init => TypeOK
<1> SUFFICES ASSUME Init PROVE TypeOK
  OBVIOUS
<1>1. job \in [Clients -> Job]
  BY JobTypes DEF Init
<1>2. <<>> \in Seq(Events)
  OBVIOUS
<1>3. evidence \in [Objects -> Seq(Events)]
  BY <1>2 DEF Init
<1> QED
  BY <1>1, <1>3 DEF Init, TypeOK, States

LEMMA InitIInv == Init => IInv
<1> SUFFICES ASSUME Init PROVE IInv
  OBVIOUS
<1>1. TypeOK
  BY TypeInit
<1>2. \A o \in Objects : RowShape(o)
  BY DEF Init, RowShape, Erasure
<1>3. \A c \in Clients : JobShape(c)
  BY DEF Init, JobShape, Idle, Uploading, Downloading, Erasing
<1> QED
  BY <1>1, <1>2, <1>3 DEF IInv, Shapes, Init

\* The invariant holds of every behaviour.
THEOREM Invariance == Spec => []IInv
<1> QED
  BY InitIInv, Inductive, PTL DEF Spec

\* Every variable keeps its type.
THEOREM TypeCorrect == Spec => []TypeOK
<1>1. IInv => TypeOK
  BY DEF IInv
<1> QED
  BY <1>1, Invariance, PTL

\* No byte the bucket holds, or can still receive, is uncharged: a confirmed
\* deletion can never be undone by a delayed upload.
THEOREM NoUnaccountedBytes == Spec => []AccountedBytes
<1>1. IInv => AccountedBytes
  <2> SUFFICES ASSUME IInv, NEW o \in Objects,
                      \/ bucket[o] \in Manifests
                      \/ \E q \in InFlight : q.key = o /\ q.body \in Manifests /\ Matches(q)
               PROVE  state[o] \notin {"none", "deleted"}
    BY DEF AccountedBytes
  <2>1. RowShape(o)
    BY DEF IInv, Shapes
  <2>2. CASE bucket[o] \in Manifests
    BY <2>1, <2>2, Distinct DEF RowShape
  <2>3. ASSUME NEW q \in InFlight, q.key = o, q.body \in Manifests, Matches(q)
        PROVE  state[o] \notin {"none", "deleted"}
    <3>1. SentFor(q)
      BY <2>3, CallSent DEF InFlight, Calling, IInv, Shapes
    <3>2. q.body # Tombstone
      BY <2>3, Distinct
    <3> QED BY <2>1, <2>3, <3>1, <3>2, Distinct DEF SentFor, RowShape, Matches, Erasure
  <2> QED BY <2>2, <2>3
<1> QED
  BY <1>1, Invariance, PTL

\* A ready object's key holds its payload and nothing on its way can replace it.
THEOREM ReadyStaysReadable == Spec => []ReadyIsReadable
<1>1. IInv => ReadyIsReadable
  <2> SUFFICES ASSUME IInv, NEW o \in Objects, state[o] = "ready"
               PROVE  bucket[o] = manifest[o] /\ \A q \in InFlight : q.key = o => ~Matches(q)
    BY DEF ReadyIsReadable
  <2>1. bucket[o] = manifest[o] /\ manifest[o] \in Manifests
    BY DEF IInv, Shapes, RowShape, Erasure
  <2>2. ASSUME NEW q \in InFlight, q.key = o PROVE ~Matches(q)
    <3>1. SentFor(q)
      BY <2>2, CallSent DEF InFlight, Calling, IInv, Shapes
    <3> QED BY <2>1, <2>2, <3>1, Distinct DEF SentFor, Matches, Erasure
  <2> QED BY <2>1, <2>2
<1> QED
  BY <1>1, Invariance, PTL

\* Referenced or retained bytes are never erased, nor is their erasure under way.
THEOREM ProtectionHolds == Spec => []ProtectedUntilReleased
<1>1. IInv => ProtectedUntilReleased
  <2> SUFFICES ASSUME IInv, NEW o \in Objects
               PROVE  /\ refs[o] # {} => state[o] = "ready"
                      /\ \/ bucket[o] = Tombstone
                         \/ \E q \in InFlight : q.key = o /\ q.body = Tombstone
                         => o \in lapsed /\ refs[o] = {}
    BY DEF ProtectedUntilReleased
  <2>1. RowShape(o) /\ manifest[o] # Tombstone
    BY Distinct DEF IInv, Shapes, TypeOK
  <2>2. CASE bucket[o] = Tombstone
    BY <2>1, <2>2, Distinct DEF RowShape, Erasure
  <2>3. ASSUME NEW q \in InFlight, q.key = o, q.body = Tombstone
        PROVE  o \in lapsed /\ refs[o] = {}
    <3>1. SentFor(q)
      BY <2>3, CallSent DEF InFlight, Calling, IInv, Shapes
    <3> QED BY <2>1, <2>3, <3>1 DEF SentFor, RowShape, Erasure
  <2> QED BY <2>1, <2>2, <2>3 DEF RowShape
<1> QED
  BY <1>1, Invariance, PTL

\* Every behaviour of the store is a behaviour of the lifecycle it promises.
THEOREM Refinement == Spec => ImplementsLifecycle
<1>1. Init => Lifecycle!Init
  BY DEF Init, Lifecycle!Init
<1>2. IInv /\ [Next]_vars => [Lifecycle!Next]_(Lifecycle!vars)
  BY StepRefines
<1> QED
  BY <1>1, <1>2, Invariance, PTL DEF Spec, ImplementsLifecycle, Lifecycle!Spec

-----------------------------------------------------------------------------
(* The evidence.  What the lock is for: while a client holds it, nobody    *)
(* changes the state it read when its transaction began.                   *)

Writing == {"putting", "verifying", "promoting"}
Fencing == {"heading", "tombing", "confirming", "erased"}

LockShape(c) ==
  lock = c =>
    /\ job[c].pc \in Writing => state[job[c].obj] = "pending"
    /\ job[c].pc \in Fencing => state[job[c].obj] = "deleting"

Counted(o) ==
  /\ IsFiniteSet(Delivering(o))
  /\ delivered[o] + Cardinality(Delivering(o)) <= recorded[o]

EvidenceInv ==
  /\ \A c \in Clients : LockShape(c)
  /\ \A o \in Objects : Told(o)
  /\ \A o \in Objects : Counted(o)

\* A sequence with one more element at its end is the sequence with it appended.
LEMMA AppendIs ==
  ASSUME NEW S, NEW s \in Seq(S), NEW e \in S, NEW u \in Seq(S),
         Len(u) = Len(s) + 1, u[Len(s) + 1] = e, \A i \in 1 .. Len(s) : u[i] = s[i]
  PROVE  Append(s, e) = u
<1> DEFINE t == Append(s, e)
<1>1. /\ t \in Seq(S) /\ Len(t) = Len(s) + 1
      /\ \A i \in 1 .. Len(s) : t[i] = s[i]
      /\ t[Len(s) + 1] = e
  BY AppendProperties
<1> HIDE DEF t
<1>2. \A i \in 1 .. Len(t) : t[i] = u[i]
  BY <1>1, LenProperties
<1>3. t = u
  BY <1>1, <1>2, SeqEqual
<1> QED BY <1>3 DEF t

LEMMA AppendOne ==
  ASSUME NEW S, NEW a \in S, NEW b \in S
  PROVE  Append(<<a>>, b) = <<a, b>>
<1> DEFINE s == <<a>>
           u == <<a, b>>
<1>1. /\ s \in Seq(S) /\ u \in Seq(S) /\ Len(s) = 1 /\ Len(u) = 2
      /\ s[1] = a /\ u[1] = a /\ u[2] = b
  OBVIOUS
<1> HIDE DEF s, u
<1>2. Len(u) = Len(s) + 1 /\ u[Len(s) + 1] = b /\ \A i \in 1 .. Len(s) : u[i] = s[i]
  BY <1>1
<1>3. Append(s, b) = u
  BY <1>1, <1>2, AppendIs
<1> QED BY <1>3 DEF s, u

LEMMA AppendTwo ==
  ASSUME NEW S, NEW a \in S, NEW b \in S, NEW c \in S
  PROVE  Append(<<a, b>>, c) = <<a, b, c>>
<1> DEFINE s == <<a, b>>
           u == <<a, b, c>>
<1>1. /\ s \in Seq(S) /\ u \in Seq(S) /\ Len(s) = 2 /\ Len(u) = 3
      /\ s[1] = a /\ s[2] = b /\ u[1] = a /\ u[2] = b /\ u[3] = c
  OBVIOUS
<1> HIDE DEF s, u
<1>2. Len(u) = Len(s) + 1 /\ u[Len(s) + 1] = c /\ \A i \in 1 .. Len(s) : u[i] = s[i]
  BY <1>1
<1>3. Append(s, c) = u
  BY <1>1, <1>2, AppendIs
<1> QED BY <1>3 DEF s, u

LEMMA AppendThree ==
  ASSUME NEW S, NEW a \in S, NEW b \in S, NEW c \in S, NEW d \in S
  PROVE  Append(<<a, b, c>>, d) = <<a, b, c, d>>
<1> DEFINE s == <<a, b, c>>
           u == <<a, b, c, d>>
<1>1. /\ s \in Seq(S) /\ u \in Seq(S) /\ Len(s) = 3 /\ Len(u) = 4
      /\ s[1] = a /\ s[2] = b /\ s[3] = c /\ u[1] = a /\ u[2] = b /\ u[3] = c /\ u[4] = d
  OBVIOUS
<1> HIDE DEF s, u
<1>2. Len(u) = Len(s) + 1 /\ u[Len(s) + 1] = d /\ \A i \in 1 .. Len(s) : u[i] = s[i]
  BY <1>1
<1>3. Append(s, d) = u
  BY <1>1, <1>2, AppendIs
<1> QED BY <1>3 DEF s, u

\* One row changes its state, with one event.
Moved(o, from, to, event) ==
  /\ state[o] \in from
  /\ state' = [state EXCEPT ![o] = to]
  /\ evidence' = [evidence EXCEPT ![o] = Append(@, event)]

LEMMA ToldStep ==
  ASSUME TypeOK, NEW o \in Objects, NEW from \in SUBSET States, NEW to \in States,
         NEW event \in Events, Moved(o, from, to, event), \A p \in Objects : Told(p),
         \/ from = {"none"} /\ to = "pending" /\ event = "reserved"
         \/ from = {"pending"} /\ to = "ready" /\ event = "ready"
         \/ from = {"pending", "ready"} /\ to = "deleting" /\ event = "requested"
         \/ from = {"deleting"} /\ to = "deleted" /\ event = "confirmed"
  PROVE  \A p \in Objects : Told(p)'
<1>1. /\ state'[o] = to /\ evidence'[o] = Append(evidence[o], event)
      /\ \A p \in Objects \ {o} : state'[p] = state[p] /\ evidence'[p] = evidence[p]
  BY DEF Moved, TypeOK
<1>2. ASSUME NEW p \in Objects, p # o PROVE Told(p)'
  <2>1. Told(p) /\ state'[p] = state[p] /\ evidence'[p] = evidence[p]
    BY <1>1, <1>2
  <2> QED BY <2>1 DEF Told
<1>3. Told(o) /\ state[o] \in from
  BY DEF Moved
<1>4. CASE from = {"none"} /\ to = "pending" /\ event = "reserved"
  <2>1. evidence[o] = <<>>
    BY <1>3, <1>4 DEF Told
  <2>2. Append(<<>>, "reserved") = <<"reserved">>
    OBVIOUS
  <2> QED BY <1>1, <1>4, <2>1, <2>2 DEF Told
<1>5. CASE from = {"pending"} /\ to = "ready" /\ event = "ready"
  <2>1. evidence[o] = <<"reserved">>
    BY <1>3, <1>5 DEF Told
  <2>2. Append(<<"reserved">>, "ready") = <<"reserved", "ready">>
    BY AppendOne DEF Events
  <2> QED BY <1>1, <1>5, <2>1, <2>2 DEF Told
<1>6. CASE from = {"pending", "ready"} /\ to = "deleting" /\ event = "requested"
  <2>1. evidence[o] \in {<<"reserved">>, <<"reserved", "ready">>}
    BY <1>3, <1>6 DEF Told
  <2>2. /\ Append(<<"reserved">>, "requested") = <<"reserved", "requested">>
        /\ Append(<<"reserved", "ready">>, "requested") = <<"reserved", "ready", "requested">>
    BY AppendOne, AppendTwo DEF Events
  <2> QED BY <1>1, <1>6, <2>1, <2>2 DEF Told
<1>7. CASE from = {"deleting"} /\ to = "deleted" /\ event = "confirmed"
  <2>1. evidence[o] \in {<<"reserved", "requested">>, <<"reserved", "ready", "requested">>}
    BY <1>3, <1>7 DEF Told
  <2>2. Append(<<"reserved", "requested">>, "confirmed") = <<"reserved", "requested", "confirmed">>
    BY AppendTwo DEF Events
  <2>3. Append(<<"reserved", "ready", "requested">>, "confirmed")
          = <<"reserved", "ready", "requested", "confirmed">>
    BY AppendThree DEF Events
  <2> QED BY <1>1, <1>7, <2>1, <2>2, <2>3 DEF Told
<1>8. Told(o)'
  BY <1>4, <1>5, <1>6, <1>7
<1> QED
  BY <1>2, <1>8

LEMMA ToldStays ==
  ASSUME \A p \in Objects : Told(p), UNCHANGED <<state, evidence>>
  PROVE  \A p \in Objects : Told(p)'
BY DEF Told

-----------------------------------------------------------------------------
(* The downloads on their way to a caller. *)

\* The step moves client c, and not to a hand-over.
Elsewhere(c) ==
  /\ \A d \in Clients \ {c} : job'[d] = job[d]
  /\ job'[c].pc # "delivering"

\* Without a new hand-over the counts stay right.
LEMMA CountedStays ==
  ASSUME TypeOK, TypeOK', NEW o \in Objects, Counted(o), UNCHANGED deliveries,
         job' = job \/ \E c \in Clients : Elsewhere(c)
  PROVE  Counted(o)'
<1> PICK D : D = Delivering(o)
  OBVIOUS
<1> PICK E : E = Delivering(o)'
  OBVIOUS
<1>1. E \subseteq D
  BY DEF Delivering, Elsewhere
<1>2. IsFiniteSet(D) /\ delivered[o] + Cardinality(D) <= recorded[o]
  BY DEF Counted
<1>3. IsFiniteSet(E) /\ Cardinality(E) <= Cardinality(D)
  BY <1>1, <1>2, FS_Subset
<1>4. Cardinality(E) \in Nat /\ Cardinality(D) \in Nat
  BY <1>2, <1>3, FS_CardinalityType
<1>5. delivered'[o] = delivered[o] /\ recorded'[o] = recorded[o] /\ delivered[o] \in Nat
      /\ recorded[o] \in Nat
  BY DEF deliveries, TypeOK
<1>6. delivered'[o] + Cardinality(E) <= recorded'[o]
  BY <1>2, <1>3, <1>4, <1>5
<1> QED
  BY <1>3, <1>6 DEF Counted

\* A committed event announces one hand-over.
LEMMA CountedRecords ==
  ASSUME IInv, NEW o \in Objects, Counted(o), NEW c \in Clients, RecordDownload(c)
  PROVE  Counted(o)'
<1> PICK D : D = Delivering(o)
  OBVIOUS
<1> PICK E : E = Delivering(o)'
  OBVIOUS
<1>1. TypeOK /\ job[c].pc = "recording" /\ job[c].obj \in Objects
  BY DEF IInv, Shapes, JobShape, Downloading, RecordDownload
<1>2. /\ \A d \in Clients \ {c} : job'[d] = job[d]
      /\ job'[c].pc = "delivering" /\ job'[c].obj = job[c].obj
  BY <1>1, GotoJob DEF RecordDownload, Points
<1>3. IsFiniteSet(D) /\ Cardinality(D) \in Nat /\ delivered[o] + Cardinality(D) <= recorded[o]
  BY FS_CardinalityType DEF Counted
<1>4. /\ delivered' = delivered /\ delivered[o] \in Nat /\ recorded[o] \in Nat
      /\ recorded'[o] = IF o = job[c].obj THEN recorded[o] + 1 ELSE recorded[o]
  BY <1>1 DEF RecordDownload, TypeOK
<1>5. CASE o = job[c].obj
  <2>1. c \notin D /\ E = D \cup {c}
    BY <1>1, <1>2, <1>5 DEF Delivering
  <2>2. IsFiniteSet(E) /\ Cardinality(E) = Cardinality(D) + 1
    <3>1. /\ IsFiniteSet(D \cup {c})
          /\ Cardinality(D \cup {c}) = IF c \in D THEN Cardinality(D) ELSE Cardinality(D) + 1
      BY <1>3, FS_AddElement
    <3> QED BY <2>1, <3>1
  <2>3. delivered'[o] + Cardinality(E) <= recorded'[o]
    BY <1>3, <1>4, <1>5, <2>2
  <2> QED BY <2>2, <2>3 DEF Counted
<1>6. CASE o # job[c].obj
  <2>1. E = D
    BY <1>1, <1>2, <1>6 DEF Delivering
  <2>2. IsFiniteSet(E) /\ delivered'[o] + Cardinality(E) <= recorded'[o]
    BY <1>3, <1>4, <1>6, <2>1
  <2> QED BY <2>2 DEF Counted
<1> QED
  BY <1>5, <1>6

\* The hand-over uses it up.
LEMMA CountedDelivers ==
  ASSUME IInv, NEW o \in Objects, Counted(o), NEW c \in Clients, Deliver(c)
  PROVE  Counted(o)'
<1> PICK D : D = Delivering(o)
  OBVIOUS
<1> PICK E : E = Delivering(o)'
  OBVIOUS
<1>1. TypeOK /\ job[c].pc = "delivering" /\ job[c].obj \in Objects
  BY DEF IInv, Shapes, JobShape, Downloading, Deliver
<1>2. (\A d \in Clients \ {c} : job'[d] = job[d]) /\ job'[c].pc = "idle"
  BY <1>1, JobTypes DEF Deliver, Leave, Idle, TypeOK
<1>3. IsFiniteSet(D) /\ Cardinality(D) \in Nat /\ delivered[o] + Cardinality(D) <= recorded[o]
  BY FS_CardinalityType DEF Counted
<1>4. /\ recorded' = recorded /\ delivered[o] \in Nat /\ recorded[o] \in Nat
      /\ delivered'[o] = IF o = job[c].obj THEN delivered[o] + 1 ELSE delivered[o]
  BY <1>1 DEF Deliver, TypeOK
<1>5. CASE o = job[c].obj
  <2>1. c \in D /\ E = D \ {c}
    BY <1>1, <1>2, <1>5 DEF Delivering
  <2>2. IsFiniteSet(E) /\ Cardinality(E) = Cardinality(D) - 1
    BY <1>3, <2>1, FS_RemoveElement
  <2>3. delivered'[o] + Cardinality(E) <= recorded'[o]
    BY <1>3, <1>4, <1>5, <2>2
  <2> QED BY <2>2, <2>3 DEF Counted
<1>6. CASE o # job[c].obj
  <2>1. E = D
    BY <1>1, <1>2, <1>6 DEF Delivering
  <2>2. IsFiniteSet(E) /\ delivered'[o] + Cardinality(E) <= recorded'[o]
    BY <1>3, <1>4, <1>6, <2>1
  <2> QED BY <2>2 DEF Counted
<1> QED
  BY <1>5, <1>6

-----------------------------------------------------------------------------
(* Every step keeps the lock, the evidence and the counts right. *)

\* Nobody but c gets the lock, nor sees a row change while it holds it.
Apart(c) ==
  \A d \in Clients \ {c} :
    /\ job'[d] = job[d]
    /\ lock' = d => lock = d /\ state' = state

LEMMA LockStep ==
  ASSUME NEW c \in Clients, Apart(c), LockShape(c)', \A d \in Clients : LockShape(d)
  PROVE  \A d \in Clients : LockShape(d)'
BY DEF Apart, LockShape

\* The step of an operation that ends.
LEMMA Ends ==
  ASSUME IInv, NEW c \in Clients, NEW B \in SUBSET Objects, Leave(c) \/ CleanUp(c, B)
  PROVE  /\ \A d \in Clients \ {c} : job'[d] = job[d]
         /\ job'[c].pc \in {"idle", "cleaning"}
<1>1. TypeOK
  BY DEF IInv
<1>2. CASE Leave(c)
  BY <1>1, <1>2, JobTypes DEF Leave, Idle, TypeOK
<1>3. CASE CleanUp(c, B)
  <2> DEFINE next == [Idle EXCEPT !.pc = "cleaning", !.batch = B]
  <2>1. Idle \in Job /\ next \in Job /\ Idle.pc = "idle" /\ next.pc = "cleaning"
    BY JobTypes DEF Idle
  <2>2. job' = [job EXCEPT ![c] = Idle] \/ job' = [job EXCEPT ![c] = next]
    BY <1>3 DEF CleanUp
  <2> HIDE DEF next
  <2> QED BY <1>1, <2>1, <2>2 DEF TypeOK
<1> QED
  BY <1>2, <1>3

\* The step of an operation that goes on with the same row.
GoesOn(c) ==
  /\ \A d \in Clients \ {c} : job'[d] = job[d]
  /\ job'[c].obj = job[c].obj
  /\ job'[c].pc # "delivering"
  /\ job'[c].pc \in Writing => job[c].pc \in Writing
  /\ job'[c].pc \in Fencing => job[c].pc \in Fencing

LEMMA GotoGoesOn ==
  ASSUME TypeOK, NEW c \in Clients, NEW p \in Points, Goto(c, p), p # "delivering",
         p \in Writing => job[c].pc \in Writing, p \in Fencing => job[c].pc \in Fencing
  PROVE  GoesOn(c)
BY GotoJob DEF GoesOn

LEMMA TryAgainGoesOn ==
  ASSUME IInv, NEW c \in Clients, TryAgain(c), job[c].pc \in {"tombing", "confirming"}
  PROVE  GoesOn(c)
<1> DEFINE n == job[c].tries + 1
           j == [job[c] EXCEPT !.pc = "heading", !.data = None, !.tries = n]
<1>1. TypeOK /\ job[c] \in Job /\ n \in 0 .. Tries
  BY DEF IInv, Shapes, JobShape, TypeOK, Job, Tries
<1>2. j \in Job /\ job' = [job EXCEPT ![c] = j]
  BY <1>1, JobTypes DEF TryAgain
<1>3. /\ \A d \in Clients \ {c} : job'[d] = job[d]
      /\ job'[c] = j
  <2> HIDE DEF j
  <2> QED BY <1>1, <1>2, AssignJob
<1>4. job'[c].pc = "heading" /\ job'[c].obj = job[c].obj
  BY <1>1, <1>3 DEF Job
<1> QED
  BY <1>3, <1>4 DEF GoesOn, Writing, Fencing

LEMMA SendGoesOn ==
  ASSUME IInv, NEW c \in Clients, SendTombstone(c)
  PROVE  GoesOn(c)
<1> DEFINE b == bucket[job[c].obj]
           j == [job[c] EXCEPT !.pc = "tombing", !.data = b]
<1>1. TypeOK /\ job[c] \in Job /\ job[c].pc = "heading" /\ job[c].obj \in Objects
  BY DEF IInv, Shapes, JobShape, Erasing, TypeOK, SendTombstone
<1>2. b \in Manifests \cup {Absent}
  BY <1>1 DEF SendTombstone, Fenced, TypeOK
<1>3. j \in Job /\ job' = [job EXCEPT ![c] = j]
  BY <1>1, <1>2, JobTypes DEF SendTombstone
<1>4. /\ \A d \in Clients \ {c} : job'[d] = job[d]
      /\ job'[c] = j
  <2> HIDE DEF j
  <2> QED BY <1>1, <1>3, AssignJob
<1>5. job'[c].pc = "tombing" /\ job'[c].obj = job[c].obj
  BY <1>1, <1>4 DEF Job
<1> QED
  BY <1>1, <1>4, <1>5 DEF GoesOn, Writing, Fencing

\* A step that moves c, but not to a hand-over.
LEMMA EvidenceComposed ==
  ASSUME IInv, IInv', EvidenceInv, NEW c \in Clients, Apart(c), LockShape(c)',
         \A o \in Objects : Told(o)', job'[c].pc # "delivering", UNCHANGED deliveries
  PROVE  EvidenceInv'
<1>1. \A d \in Clients : LockShape(d)'
  BY LockStep DEF EvidenceInv
<1>2. Elsewhere(c)
  BY DEF Apart, Elsewhere
<1>3. TypeOK /\ TypeOK'
  BY DEF IInv
<1>4. \A o \in Objects : Counted(o)'
  BY <1>2, <1>3, CountedStays DEF EvidenceInv
<1> QED
  BY <1>1, <1>4 DEF EvidenceInv

\* An operation goes on, or begins or ends, and no row changes.
LEMMA EvidenceQuiet ==
  ASSUME IInv, IInv', EvidenceInv, NEW c \in Clients,
         UNCHANGED <<state, evidence, deliveries>>,
         \A d \in Clients \ {c} : job'[d] = job[d], job'[c].pc # "delivering",
         \/ GoesOn(c) /\ lock' = lock
         \/ lock' \in {lock, None} /\ job'[c].pc \notin Writing \cup Fencing
         \/ lock = None /\ lock' = c /\ LockShape(c)'
  PROVE  EvidenceInv'
<1>1. Apart(c)
  BY Distinct DEF Apart
<1>2. LockShape(c)'
  <2>1. LockShape(c)
    BY DEF EvidenceInv
  <2> QED BY <2>1 DEF LockShape, GoesOn
<1>3. \A o \in Objects : Told(o)'
  BY ToldStays DEF EvidenceInv
<1> QED
  BY <1>1, <1>2, <1>3, EvidenceComposed

LEMMA ContinueEvidence ==
  ASSUME IInv, IInv', EvidenceInv, NEW c \in Clients, Continue(c)
  PROVE  EvidenceInv'
<1> DEFINE o == job[c].obj
<1> USE DEF rows, Points, Writing, Fencing
<1>1. TypeOK /\ JobShape(c) /\ LockShape(c)
  BY DEF IInv, Shapes, EvidenceInv
<1>2. \A B \in SUBSET Objects : Leave(c) \/ CleanUp(c, B) =>
         /\ \A d \in Clients \ {c} : job'[d] = job[d]
         /\ job'[c].pc \in {"idle", "cleaning"}
  BY Ends
<1>3. job[c].batch \in SUBSET Objects
  BY <1>1 DEF TypeOK, Job
<1>4. Leave(c) \/ EndDeletion(c) =>
         /\ \A d \in Clients \ {c} : job'[d] = job[d]
         /\ job'[c].pc \in {"idle", "cleaning"}
         /\ lock' \in {lock, None} /\ lock' # c
  BY <1>2, <1>3, Distinct DEF EndDeletion, Leave, Unlocked
<1>5. CASE AlreadySettled(c) \/ IntegrityMismatch(c) \/ ConnectionGone(c)
           \/ AlreadyErased(c) \/ FenceUnconfirmed(c)
  <2>1. UNCHANGED <<state, evidence, deliveries>> /\ (Leave(c) \/ EndDeletion(c))
    BY <1>5 DEF AlreadySettled, IntegrityMismatch, ConnectionGone, AlreadyErased, FenceUnconfirmed
  <2> QED BY <1>4, <2>1, EvidenceQuiet
<1>6. CASE AnswerPut(c) \/ ReadBack(c, "verifying", "promoting")
           \/ ReadBack(c, "reading", "recording") \/ FenceFound(c) \/ SendTombstone(c)
           \/ AnswerTombstone(c) \/ ConfirmFence(c)
  <2>1. UNCHANGED <<state, evidence, deliveries>> /\ lock' = lock
    BY <1>6 DEF AnswerPut, ReadBack, FenceFound, SendTombstone, AnswerTombstone, ConfirmFence
  <2>2. \/ Goto(c, "verifying") /\ job[c].pc = "putting"
        \/ Goto(c, "promoting") /\ job[c].pc = "verifying"
        \/ Goto(c, "recording")
        \/ Goto(c, "erased") /\ job[c].pc \in {"heading", "confirming"}
        \/ Goto(c, "confirming") /\ job[c].pc = "tombing"
        \/ TryAgain(c) /\ job[c].pc \in {"tombing", "confirming"}
        \/ SendTombstone(c)
    BY <1>6 DEF AnswerPut, ReadBack, FenceFound, AnswerTombstone, ConfirmFence
  <2>3. GoesOn(c)
    BY <1>1, <2>2, GotoGoesOn, TryAgainGoesOn, SendGoesOn
  <2> QED BY <2>1, <2>3, EvidenceQuiet DEF GoesOn
<1>7. CASE BeginPut(c) \/ BeginErase(c)
  <2>1. UNCHANGED <<state, evidence, deliveries>> /\ lock = None /\ lock' = c
    BY <1>7 DEF BeginPut, BeginErase
  <2>2. \/ Goto(c, "putting") /\ state[o] = "pending"
        \/ Goto(c, "heading") /\ state[o] = "deleting"
    BY <1>7 DEF BeginPut, BeginErase
  <2>3. /\ \A d \in Clients \ {c} : job'[d] = job[d]
        /\ job'[c].obj = o
        /\ \/ job'[c].pc = "putting" /\ state[o] = "pending"
           \/ job'[c].pc = "heading" /\ state[o] = "deleting"
    BY <1>1, <2>2, GotoJob
  <2>4. LockShape(c)'
    BY <2>1, <2>3 DEF LockShape
  <2> QED BY <2>1, <2>3, <2>4, EvidenceQuiet
<1>8. CASE Promote(c)
  <2>1. /\ o \in Objects /\ lock = c /\ state[o] = "pending" /\ Moved(o, {"pending"}, "ready", "ready")
        /\ Leave(c) /\ UNCHANGED deliveries
    BY <1>1, <1>8 DEF Promote, Connected, SetState, Moved, JobShape, Uploading, LockShape
  <2>2. \A p \in Objects : Told(p)'
    BY <1>1, <2>1, ToldStep DEF EvidenceInv, States, Events
  <2>3. Apart(c) /\ LockShape(c)' /\ job'[c].pc # "delivering"
    BY <1>4, <2>1, Distinct DEF Apart, LockShape
  <2> QED BY <2>1, <2>2, <2>3, EvidenceComposed
<1>9. CASE ConfirmDeletion(c)
  <2>1. /\ o \in Objects /\ lock = c /\ state[o] = "deleting"
        /\ Moved(o, {"deleting"}, "deleted", "confirmed")
        /\ EndDeletion(c) /\ UNCHANGED deliveries
    BY <1>1, <1>9 DEF ConfirmDeletion, Connected, SetState, Moved, JobShape, Erasing, LockShape
  <2>2. \A p \in Objects : Told(p)'
    BY <1>1, <2>1, ToldStep DEF EvidenceInv, States, Events
  <2>3. Apart(c) /\ LockShape(c)' /\ job'[c].pc # "delivering"
    BY <1>4, <2>1, Distinct DEF Apart, LockShape
  <2> QED BY <2>1, <2>2, <2>3, EvidenceComposed
<1>10. CASE RecordDownload(c)
  <2>1. UNCHANGED <<state, evidence>> /\ lock = c /\ lock' = None /\ Goto(c, "delivering")
    BY <1>10 DEF RecordDownload, Connected, Unlocked
  <2>2. Apart(c) /\ LockShape(c)'
    BY <1>1, <2>1, GotoJob, Distinct DEF Apart, LockShape
  <2>3. (\A d \in Clients : LockShape(d)') /\ \A p \in Objects : Told(p)'
    BY <2>1, <2>2, LockStep, ToldStays DEF EvidenceInv
  <2>4. \A p \in Objects : Counted(p)'
    BY <1>10, CountedRecords DEF EvidenceInv
  <2> QED BY <2>3, <2>4 DEF EvidenceInv
<1>11. CASE Deliver(c)
  <2>1. UNCHANGED <<state, evidence>> /\ Leave(c)
    BY <1>11 DEF Deliver
  <2>2. Apart(c) /\ LockShape(c)'
    BY <1>4, <2>1, Distinct DEF Apart, LockShape
  <2>3. (\A d \in Clients : LockShape(d)') /\ \A p \in Objects : Told(p)'
    BY <2>1, <2>2, LockStep, ToldStays DEF EvidenceInv
  <2>4. \A p \in Objects : Counted(p)'
    BY <1>11, CountedDelivers DEF EvidenceInv
  <2> QED BY <2>3, <2>4 DEF EvidenceInv
<1> QED
  BY <1>5, <1>6, <1>7, <1>8, <1>9, <1>10, <1>11 DEF Continue

\* The beginning of an operation on o, when the lock is free.
LEMMA Starts ==
  ASSUME IInv, NEW c \in Clients, NEW o \in Objects, NEW m \in Manifests,
         StartErasing(c, o) \/ StartUpload(c, o, m) \/ BeginDownload(c, o)
  PROVE  /\ \A d \in Clients \ {c} : job'[d] = job[d]
         /\ job'[c].pc \in {"erasing", "reserved", "reading"}
<1>1. TypeOK
  BY DEF IInv
<1>2. CASE StartErasing(c, o)
  <2> DEFINE B == job[c].batch \ {o}
             j == [Idle EXCEPT !.pc = "erasing", !.obj = o, !.batch = B]
  <2>1. B \in SUBSET Objects
    BY <1>1 DEF TypeOK, Job
  <2>2. j \in Job /\ j.pc = "erasing"
    <3> HIDE DEF B
    <3> QED BY <2>1, JobTypes DEF Idle
  <2>3. job' = [job EXCEPT ![c] = j]
    BY <1>2 DEF StartErasing
  <2> HIDE DEF j
  <2> QED BY <1>1, <2>2, <2>3, AssignJob
<1>3. CASE StartUpload(c, o, m)
  <2> DEFINE j == [Idle EXCEPT !.pc = "reserved", !.obj = o, !.data = m]
  <2>1. j \in Job /\ j.pc = "reserved"
    BY JobTypes DEF Idle, Points
  <2>2. job' = [job EXCEPT ![c] = j]
    BY <1>3 DEF StartUpload
  <2> HIDE DEF j
  <2> QED BY <1>1, <2>1, <2>2, AssignJob
<1>4. CASE BeginDownload(c, o)
  <2> DEFINE d == manifest[o]
             j == [Idle EXCEPT !.pc = "reading", !.obj = o, !.data = d]
  <2>1. d \in Manifests \cup {None}
    BY <1>1 DEF TypeOK
  <2>2. j \in Job /\ j.pc = "reading"
    <3> HIDE DEF d
    <3> QED BY <2>1, JobTypes DEF Idle, Points
  <2>3. job' = [job EXCEPT ![c] = j]
    BY <1>4 DEF BeginDownload
  <2> HIDE DEF j
  <2> QED BY <1>1, <2>2, <2>3, AssignJob
<1> QED
  BY <1>2, <1>3, <1>4

\* A row that is inserted or moved while the lock is free.
LEMMA EvidenceMoves ==
  ASSUME IInv, IInv', EvidenceInv, NEW c \in Clients, lock = None, lock' = None,
         \A o \in Objects : Told(o)', UNCHANGED deliveries,
         \A d \in Clients \ {c} : job'[d] = job[d], job'[c].pc # "delivering"
  PROVE  EvidenceInv'
<1>1. Apart(c) /\ LockShape(c)'
  BY Distinct DEF Apart, LockShape
<1> QED
  BY <1>1, EvidenceComposed

\* The clients do not move, and nobody gets the lock.
LEMMA EvidenceStays ==
  ASSUME IInv, IInv', EvidenceInv, UNCHANGED <<state, evidence, deliveries, job>>,
         lock' \in {lock, None}
  PROVE  EvidenceInv'
<1>1. \A c \in Clients : LockShape(c)'
  BY Distinct DEF EvidenceInv, LockShape
<1>2. \A o \in Objects : Told(o)'
  BY ToldStays DEF EvidenceInv
<1>3. TypeOK /\ TypeOK'
  BY DEF IInv
<1>4. \A o \in Objects : Counted(o)'
  BY <1>3, CountedStays DEF EvidenceInv
<1> QED
  BY <1>1, <1>2, <1>4 DEF EvidenceInv

LEMMA EvidenceStep ==
  ASSUME IInv, IInv', EvidenceInv, [Next]_vars
  PROVE  EvidenceInv'
<1> USE DEF rows, catalogue, Writing, Fencing
<1>1. TypeOK
  BY DEF IInv
<1>2. ASSUME NEW c \in Clients, Continue(c) PROVE EvidenceInv'
  BY <1>2, ContinueEvidence
<1>3. ASSUME NEW c \in Clients, NEW B \in SUBSET Objects, CleanUp(c, B), lock' = lock,
             UNCHANGED <<state, evidence, deliveries>>
      PROVE  EvidenceInv'
  <2>1. (\A d \in Clients \ {c} : job'[d] = job[d]) /\ job'[c].pc \in {"idle", "cleaning"}
    BY <1>3, Ends
  <2> QED BY <1>3, <2>1, EvidenceQuiet
<1>4. ASSUME NEW c \in Clients, StartCleanup(c) PROVE EvidenceInv'
  <2>1. Oldest({o \in Objects : Due(o)}) \in SUBSET Objects
    BY DEF Oldest
  <2> QED BY <1>3, <1>4, <2>1 DEF StartCleanup
<1>5. ASSUME NEW c \in Clients, NEW o \in Objects, SkipDeletion(c, o) PROVE EvidenceInv'
  <2>1. job[c].batch \ {o} \in SUBSET Objects
    BY <1>1 DEF TypeOK, Job
  <2> QED BY <1>3, <1>5, <2>1 DEF SkipDeletion
<1>6. ASSUME NEW c \in Clients, NEW o \in Objects, BeginDownload(c, o) PROVE EvidenceInv'
  <2>1. /\ \A d \in Clients \ {c} : job'[d] = job[d]
        /\ job'[c].pc \in {"erasing", "reserved", "reading"}
    <3>1. state[o] = "ready" /\ RowShape(o)
      BY <1>6 DEF BeginDownload, IInv, Shapes
    <3>2. manifest[o] \in Manifests
      BY <3>1 DEF RowShape
    <3> QED BY <1>6, <3>2, Starts
  <2>2. lock = None /\ lock' = c /\ UNCHANGED <<state, evidence, deliveries>>
    BY <1>6 DEF BeginDownload
  <2>3. LockShape(c)'
    BY <2>1 DEF LockShape
  <2> QED BY <2>1, <2>2, <2>3, EvidenceQuiet
<1>7. ASSUME NEW c \in Clients, NEW o \in Objects, ResumeDeletion(c, o) PROVE EvidenceInv'
  <2>1. state[o] = "deleting" /\ StartErasing(c, o) /\ lock' = lock
        /\ UNCHANGED <<state, evidence, deliveries>>
    BY <1>7 DEF ResumeDeletion
  <2>2. manifest[o] \in Manifests
    BY <2>1 DEF IInv, Shapes, RowShape
  <2>3. /\ \A d \in Clients \ {c} : job'[d] = job[d]
        /\ job'[c].pc \in {"erasing", "reserved", "reading"}
    BY <2>1, <2>2, Starts
  <2> QED BY <2>1, <2>3, EvidenceQuiet
<1>8. ASSUME NEW c \in Clients, NEW o \in Objects, RequestDeletion(c, o) PROVE EvidenceInv'
  <2>1. /\ Moved(o, {"pending", "ready"}, "deleting", "requested") /\ StartErasing(c, o)
        /\ state[o] # "none" /\ lock = None /\ lock' = lock /\ UNCHANGED deliveries
    BY <1>8 DEF RequestDeletion, SetState, Moved
  <2>2. manifest[o] \in Manifests
    BY <2>1 DEF IInv, Shapes, RowShape
  <2>3. /\ \A d \in Clients \ {c} : job'[d] = job[d]
        /\ job'[c].pc \in {"erasing", "reserved", "reading"}
    BY <2>1, <2>2, Starts
  <2>4. \A p \in Objects : Told(p)'
    BY <1>1, <2>1, ToldStep DEF EvidenceInv, States, Events
  <2> QED BY <2>1, <2>3, <2>4, EvidenceMoves
<1>9. ASSUME NEW c \in Clients, NEW o \in Objects, NEW m \in Manifests, Reserve(c, o, m)
      PROVE  EvidenceInv'
  <2>1. /\ Moved(o, {"none"}, "pending", "reserved") /\ StartUpload(c, o, m)
        /\ lock = None /\ lock' = lock /\ UNCHANGED deliveries
    BY <1>9 DEF Reserve, Moved
  <2>2. /\ \A d \in Clients \ {c} : job'[d] = job[d]
        /\ job'[c].pc \in {"erasing", "reserved", "reading"}
    BY <2>1, Starts
  <2>3. \A p \in Objects : Told(p)'
    BY <1>1, <2>1, ToldStep DEF EvidenceInv, States, Events
  <2> QED BY <2>1, <2>2, <2>3, EvidenceMoves
<1>10. ASSUME NEW c \in Clients, NEW o \in Objects, NEW m \in Manifests, Replay(c, o, m)
       PROVE  EvidenceInv'
  <2>1. StartUpload(c, o, m) /\ lock' = lock /\ UNCHANGED <<state, evidence, deliveries>>
    BY <1>10 DEF Replay
  <2>2. /\ \A d \in Clients \ {c} : job'[d] = job[d]
        /\ job'[c].pc \in {"erasing", "reserved", "reading"}
    BY <2>1, Starts
  <2> QED BY <2>1, <2>2, EvidenceQuiet
<1>11. ASSUME NEW c \in Clients, Abandon(c) PROVE EvidenceInv'
  <2>1. Leave(c) /\ lock' \in {lock, None} /\ UNCHANGED <<state, evidence, deliveries>>
    BY <1>11 DEF Abandon, Leave, Unlocked
  <2>2. (\A d \in Clients \ {c} : job'[d] = job[d]) /\ job'[c].pc \in {"idle", "cleaning"}
    BY <2>1, Ends
  <2> QED BY <2>1, <2>2, EvidenceQuiet
<1>12. ASSUME NEW c \in Clients, RefuseTombstone(c) PROVE EvidenceInv'
  <2>1. /\ job[c].pc = "tombing" /\ TryAgain(c) /\ lock' = lock
        /\ UNCHANGED <<state, evidence, deliveries>>
    BY <1>12 DEF RefuseTombstone
  <2>2. GoesOn(c)
    BY <2>1, TryAgainGoesOn
  <2> QED BY <2>1, <2>2, EvidenceQuiet DEF GoesOn
<1>13. CASE \/ \E c \in Clients : ConnectionLost(c)
            \/ \E o \in Objects, r \in References : Attach(o, r) \/ Detach(o, r)
            \/ \E o \in Objects : Lapse(o)
            \/ \E q \in Quotas : ConfigureQuota(q)
            \/ \E q \in late : LateArrival(q)
            \/ UNCHANGED vars
  <2>1. UNCHANGED <<state, evidence, deliveries, job>> /\ lock' \in {lock, None}
    BY <1>13 DEF ConnectionLost, Attach, Detach, Lapse, ConfigureQuota, LateArrival, vars
  <2> QED BY <2>1, EvidenceStays
<1> QED
  BY <1>2, <1>4, <1>5, <1>6, <1>7, <1>8, <1>9, <1>10, <1>11, <1>12, <1>13
     DEF Next, Step, Delete, Fault

\* Whoever changed a row, and however often it was retried, the committed
\* events tell each step of its life once, and each delivered payload has a
\* download event of its own.
THEOREM EvidenceTells == Spec => []EvidenceTellsLifecycle
<1>1. Init => EvidenceInv
  <2> SUFFICES ASSUME Init PROVE EvidenceInv
    OBVIOUS
  <2>1. \A c \in Clients : LockShape(c)
    BY Distinct DEF Init, LockShape
  <2>2. \A o \in Objects : Told(o)
    BY DEF Init, Told
  <2>3. ASSUME NEW o \in Objects PROVE Counted(o)
    <3>1. Delivering(o) = {}
      BY DEF Delivering, Init, Idle
    <3>2. recorded[o] = 0 /\ delivered[o] = 0
      BY DEF Init
    <3>3. IsFiniteSet({}) /\ Cardinality({}) = 0
      BY FS_EmptySet
    <3> QED BY <3>1, <3>2, <3>3 DEF Counted
  <2> QED BY <2>1, <2>2, <2>3 DEF EvidenceInv
<1>2. IInv /\ IInv' /\ EvidenceInv /\ [Next]_vars => EvidenceInv'
  BY EvidenceStep
<1>3. EvidenceInv => EvidenceTellsLifecycle
  BY DEF EvidenceInv, Counted, EvidenceTellsLifecycle
<1> QED
  BY <1>1, <1>2, <1>3, Invariance, PTL DEF Spec

-----------------------------------------------------------------------------
(* The quota.  SumFunction is a fold in an order nobody knows; its value   *)
(* is the number of bytes there are: of the pairs of a row and one of its  *)
(* bytes.  What is true of the cardinalities of sets is then true of sums. *)

\* The recursion of the fold.
Sums(g, w) ==
  g = [s \in SUBSET DOMAIN w |->
         IF s = {} THEN 0 ELSE w[CHOOSE x \in s : TRUE] + g[s \ {CHOOSE x \in s : TRUE}]]

Stack(w, x) == {x} \X (1 .. w[x])
Units(w, s) == UNION {Stack(w, x) : x \in s}

LEMMA StackSize ==
  ASSUME NEW S, NEW w \in [S -> Nat], NEW x \in S
  PROVE  IsFiniteSet(Stack(w, x)) /\ Cardinality(Stack(w, x)) = w[x]
<1> PICK n : n = w[x]
  OBVIOUS
<1>1. n \in Nat
  OBVIOUS
<1>2. IsFiniteSet({x}) /\ Cardinality({x}) = 1
  BY FS_Singleton
<1>3. IsFiniteSet(1 .. n) /\ Cardinality(1 .. n) = n
  <2>1. \A a, b \in Int : IsFiniteSet(a .. b) /\ Cardinality(a .. b) = IF a > b THEN 0 ELSE b - a + 1
    BY FS_Interval
  <2>2. 1 \in Int /\ n \in Int
    BY <1>1
  <2>3. IsFiniteSet(1 .. n) /\ Cardinality(1 .. n) = IF 1 > n THEN 0 ELSE n - 1 + 1
    BY <2>1, <2>2
  <2> QED BY <1>1, <2>3
<1>4. IsFiniteSet({x} \X (1 .. n)) /\ Cardinality({x} \X (1 .. n)) = 1 * n
  <2> DEFINE T == 1 .. n
  <2>1. IsFiniteSet(T) /\ Cardinality(T) = n
    BY <1>3
  <2> HIDE DEF T
  <2>2. IsFiniteSet({x} \X T) /\ Cardinality({x} \X T) = Cardinality({x}) * Cardinality(T)
    BY <1>2, <2>1, FS_Product
  <2>3. IsFiniteSet({x} \X T) /\ Cardinality({x} \X T) = 1 * n
    BY <1>2, <2>1, <2>2
  <2> QED BY <2>3 DEF T
<1> QED
  BY <1>1, <1>4 DEF Stack

LEMMA UnitsFinite ==
  ASSUME NEW S, IsFiniteSet(S), NEW w \in [S -> Nat], NEW s \in SUBSET S
  PROVE  IsFiniteSet(Units(w, s))
<1> DEFINE f == [x \in s |-> Stack(w, x)]
           T == {f[x] : x \in s}
<1>1. IsFiniteSet(s)
  BY FS_Subset
<1>2. f \in [s -> T]
  OBVIOUS
<1>3. IsFiniteSet(T)
  <2>1. f \in Surjection(s, T)
    BY <1>2 DEF Surjection
  <2> QED BY <1>1, <2>1, FS_Surjection DEF ExistsSurjection
<1>4. \A t \in T : IsFiniteSet(t)
  BY StackSize
<1>5. Units(w, s) = UNION T
  BY DEF Units
<1> QED
  BY <1>3, <1>4, <1>5, FS_UNION

LEMMA UnitsAdd ==
  ASSUME NEW S, IsFiniteSet(S), NEW w \in [S -> Nat], NEW s \in SUBSET S, NEW x \in S, x \in s
  PROVE  Cardinality(Units(w, s)) = w[x] + Cardinality(Units(w, s \ {x}))
<1> PICK A : A = Stack(w, x)
  OBVIOUS
<1> PICK B : B = Units(w, s \ {x})
  OBVIOUS
<1>1. IsFiniteSet(A) /\ Cardinality(A) = w[x] /\ w[x] \in Nat
  BY StackSize
<1>2. IsFiniteSet(B) /\ Cardinality(B) \in Nat
  BY UnitsFinite, FS_CardinalityType
<1>3. Units(w, s) = A \cup B
  BY DEF Units
<1>4. A \cap B = {}
  BY DEF Units, Stack
<1>5. Cardinality(A \cup B) = Cardinality(A) + Cardinality(B) - Cardinality(A \cap B)
  BY <1>1, <1>2, FS_Union
<1>6. Cardinality(A \cap B) = 0
  BY <1>4, FS_EmptySet
<1> QED
  BY <1>1, <1>2, <1>3, <1>5, <1>6

LEMMA UnitsSum ==
  ASSUME NEW S, IsFiniteSet(S), NEW w \in [S -> Nat]
  PROVE  Sums([s \in SUBSET S |-> Cardinality(Units(w, s))], w)
<1> DEFINE N(s) == Cardinality(Units(w, s))
           g == [s \in SUBSET S |-> N(s)]
<1>1. N({}) = 0
  BY FS_EmptySet DEF Units
<1>0. ASSUME NEW s \in SUBSET S, NEW c \in S, c \in s PROVE N(s) = w[c] + N(s \ {c})
  <2>1. Cardinality(Units(w, s)) = w[c] + Cardinality(Units(w, s \ {c}))
    BY <1>0, UnitsAdd
  <2> QED BY <2>1
<1>2. ASSUME NEW s \in SUBSET S, s # {}
      PROVE  N(s) = w[CHOOSE x \in s : TRUE] + N(s \ {CHOOSE x \in s : TRUE})
  <2> PICK c : c = CHOOSE x \in s : TRUE
    OBVIOUS
  <2>1. c \in S /\ c \in s
    BY <1>2
  <2>2. N(s) = w[c] + N(s \ {c})
    BY <1>0, <2>1
  <2> QED BY <2>2
<1> HIDE DEF N
<1>3. \A s \in SUBSET S : g[s] = N(s) /\ g[s \ {CHOOSE x \in s : TRUE}] = N(s \ {CHOOSE x \in s : TRUE})
  OBVIOUS
<1>4. DOMAIN w = S
  OBVIOUS
<1>5. Sums(g, w)
  BY <1>1, <1>2, <1>3, <1>4 DEF Sums
<1> QED
  BY <1>5 DEF N

LEMMA SumsUnique ==
  ASSUME NEW S, IsFiniteSet(S), NEW w \in [S -> Nat], NEW g, NEW h, Sums(g, w), Sums(h, w)
  PROVE  g = h
<1> DEFINE Bad == {s \in SUBSET S : g[s] # h[s]}
<1>1. SUFFICES ASSUME Bad # {} PROVE FALSE
  <2>1. /\ g = [s \in SUBSET S |-> g[s]]
        /\ h = [s \in SUBSET S |-> h[s]]
    BY DEF Sums
  <2>2. Bad = {} => g = h
    BY <2>1
  <2> QED BY <2>2
<1>2. IsWellFoundedOn(StrictSubsetOrdering(S), SUBSET S)
  BY FS_StrictSubsetOrderingWellFounded, FS_FiniteSubsetsOfFinite
<1>3. PICK s \in Bad : \A t \in Bad : ~ (<<t, s>> \in StrictSubsetOrdering(S))
  <2>1. Bad \subseteq SUBSET S
    OBVIOUS
  <2> HIDE DEF Bad
  <2> QED BY <1>1, <1>2, <2>1, WFMin
<1> PICK c : c = CHOOSE x \in s : TRUE
  OBVIOUS
<1>4. s # {}
  BY DEF Sums
<1>5. c \in s /\ s \ {c} \in SUBSET S
  BY <1>4
<1>6. g[s] = w[c] + g[s \ {c}] /\ h[s] = w[c] + h[s \ {c}]
  BY <1>4, <1>5 DEF Sums
<1>7. <<s \ {c}, s>> \in StrictSubsetOrdering(S)
  BY <1>5 DEF StrictSubsetOrdering
<1>8. g[s \ {c}] = h[s \ {c}]
  BY <1>3, <1>5, <1>7
<1> QED
  BY <1>3, <1>6, <1>8

LEMMA SumIsUnits ==
  ASSUME NEW S, IsFiniteSet(S), NEW w \in [S -> Nat]
  PROVE  SumFunction(w) = Cardinality(Units(w, S))
<1> DEFINE h == [s \in SUBSET S |-> Cardinality(Units(w, s))]
<1>1. Sums(h, w) /\ h[S] = Cardinality(Units(w, S))
  BY UnitsSum
<1> HIDE DEF h
<1>2. PICK g : g = CHOOSE f : Sums(f, w)
  OBVIOUS
<1>3. Sums(g, w)
  BY <1>1, <1>2
<1>4. g = h
  BY <1>1, <1>3, SumsUnique
<1>5. SumFunction(w) = g[S]
  BY <1>2 DEF SumFunction, SumFunctionOnSet, FoldFunctionOnSet, MapThenFoldSet, Sums
<1> QED
  BY <1>1, <1>4, <1>5

LEMMA SumIsNat ==
  ASSUME NEW S, IsFiniteSet(S), NEW w \in [S -> Nat]
  PROVE  SumFunction(w) \in Nat
<1>1. IsFiniteSet(Units(w, S))
  BY UnitsFinite
<1>2. Cardinality(Units(w, S)) \in Nat
  BY <1>1, FS_CardinalityType
<1> QED
  BY <1>2, SumIsUnits

\* Fewer rows charge no more bytes.
LEMMA SumShrinks ==
  ASSUME NEW S, IsFiniteSet(S), NEW T, T \subseteq S, NEW w \in [S -> Nat], NEW v \in [T -> Nat],
         \A x \in T : v[x] = w[x]
  PROVE  SumFunction(v) <= SumFunction(w)
<1>1. IsFiniteSet(T)
  BY FS_Subset
<1>2. Units(v, T) \subseteq Units(w, S)
  BY DEF Units, Stack
<1>3. IsFiniteSet(Units(w, S))
  BY UnitsFinite
<1>4. Cardinality(Units(v, T)) <= Cardinality(Units(w, S))
  BY <1>2, <1>3, FS_Subset
<1>5. SumFunction(v) = Cardinality(Units(v, T))
  BY <1>1, SumIsUnits
<1>6. SumFunction(w) = Cardinality(Units(w, S))
  BY SumIsUnits
<1> QED
  BY <1>4, <1>5, <1>6

\* One more row charges its own bytes.
LEMMA SumGrows ==
  ASSUME NEW S, IsFiniteSet(S), NEW x, x \notin S, NEW w \in [S -> Nat],
         NEW v \in [S \cup {x} -> Nat], \A y \in S : v[y] = w[y]
  PROVE  SumFunction(v) = v[x] + SumFunction(w)
<1> PICK T : T = S \cup {x}
  OBVIOUS
<1>1. IsFiniteSet(T) /\ x \in T /\ v \in [T -> Nat]
  BY FS_AddElement
<1>2. Cardinality(Units(v, T)) = v[x] + Cardinality(Units(v, T \ {x}))
  BY <1>1, UnitsAdd
<1>3. Units(v, T \ {x}) = Units(w, S)
  BY DEF Units, Stack
<1>4. SumFunction(v) = Cardinality(Units(v, T))
  BY <1>1, SumIsUnits
<1>5. SumFunction(w) = Cardinality(Units(w, S))
  BY SumIsUnits
<1> QED
  BY <1>2, <1>3, <1>4, <1>5

\* What the rows charge.
Charge == [o \in Charged |-> Size[manifest[o]]]

ChargeTyped ==
  IsFiniteSet(Charged) /\ Charge \in [Charged -> Nat] /\ Used = SumFunction(Charge)

LEMMA ChargeType == IInv => ChargeTyped
<1> SUFFICES ASSUME IInv PROVE ChargeTyped
  OBVIOUS
<1>1. Charged \subseteq Objects
  BY DEF Charged, Rows
<1>2. IsFiniteSet(Charged)
  BY <1>1, Domains, FS_Subset
<1>3. \A o \in Charged : manifest[o] \in Manifests
  BY DEF Charged, Rows, IInv, Shapes, RowShape
<1>4. Charge \in [Charged -> Nat]
  BY <1>3, Domains DEF Charge
<1> QED
  BY <1>2, <1>4 DEF ChargeTyped, Used, Charge

\* A step that inserts no row frees bytes at most.
Frees ==
  /\ manifest' = manifest
  /\ \A o \in Objects : state'[o] \notin {"none", "deleted"} => state[o] \notin {"none", "deleted"}

LEMMA UsedFalls ==
  ASSUME IInv, IInv', Frees
  PROVE  Used' <= Used /\ Used' \in Nat /\ Used \in Nat
<1> PICK S : S = Charged
  OBVIOUS
<1> PICK T : T = Charged'
  OBVIOUS
<1> PICK w : w = Charge
  OBVIOUS
<1> PICK v : v = Charge'
  OBVIOUS
<1>1. IsFiniteSet(S) /\ w \in [S -> Nat] /\ Used = SumFunction(w)
  BY ChargeType DEF ChargeTyped
<1>0. IInv' => ChargeTyped'
  BY ChargeType, PTL
<1>2. IsFiniteSet(T) /\ v \in [T -> Nat] /\ Used' = SumFunction(v)
  BY <1>0 DEF ChargeTyped
<1>3. T \subseteq S /\ \A o \in T : v[o] = w[o]
  BY DEF Frees, Charged, Charge, Rows
<1>4. SumFunction(v) <= SumFunction(w)
  BY <1>1, <1>2, <1>3, SumShrinks
<1>5. SumFunction(v) \in Nat /\ SumFunction(w) \in Nat
  BY <1>1, <1>2, SumIsNat
<1> QED
  BY <1>1, <1>2, <1>4, <1>5

LEMMA UsedGrows ==
  ASSUME IInv, IInv', NEW c \in Clients, NEW o \in Objects, NEW m \in Manifests, Reserve(c, o, m)
  PROVE  Used' = Size[m] + Used
<1> PICK S : S = Charged
  OBVIOUS
<1> PICK T : T = Charged'
  OBVIOUS
<1> PICK w : w = Charge
  OBVIOUS
<1> PICK v : v = Charge'
  OBVIOUS
<1>1. IsFiniteSet(S) /\ w \in [S -> Nat] /\ Used = SumFunction(w)
  BY ChargeType DEF ChargeTyped
<1>2. IInv' => ChargeTyped'
  BY ChargeType, PTL
<1>3. v \in [T -> Nat] /\ Used' = SumFunction(v)
  BY <1>2 DEF ChargeTyped
<1>4. /\ state[o] = "none" /\ state'[o] = "pending" /\ manifest'[o] = m
      /\ \A p \in Objects \ {o} : state'[p] = state[p] /\ manifest'[p] = manifest[p]
  BY DEF Reserve, IInv, TypeOK
<1>5. o \notin S /\ T = S \cup {o}
  BY <1>4 DEF Charged, Rows
<1>6. v[o] = Size[m] /\ \A p \in S : v[p] = w[p]
  BY <1>4, <1>5 DEF Charge, Charged, Rows
<1>7. SumFunction(v) = v[o] + SumFunction(w)
  BY <1>1, <1>3, <1>5, <1>6, SumGrows
<1> QED
  BY <1>1, <1>3, <1>6, <1>7

\* Only a reservation adds to the charged bytes.
LEMMA QuotaStep ==
  ASSUME IInv, IInv', [Next]_vars
  PROVE  Used' > Used => Used' <= quota'
<1> USE DEF rows, catalogue
<1>1. TypeOK /\ \A c \in Clients : JobShape(c)
  BY DEF IInv, Shapes
<1>2. ASSUME NEW c \in Clients, NEW o \in Objects, NEW m \in Manifests, Reserve(c, o, m)
      PROVE  Used' <= quota'
  <2>1. Used' = Size[m] + Used
    BY <1>2, UsedGrows
  <2>2. Used + Size[m] <= quota /\ quota' = quota
    BY <1>2 DEF Reserve, Admits
  <2>3. Size[m] \in Nat /\ Used \in Nat
    BY Domains, ChargeType, SumIsNat DEF ChargeTyped
  <2> QED BY <2>1, <2>2, <2>3
<1>3. ASSUME UNCHANGED rows PROVE Frees
  BY <1>3 DEF Frees
<1>4. ASSUME NEW o \in Objects, NEW new \in {"ready", "deleting", "deleted"}, NEW e \in Events,
             SetState(o, new, e)
      PROVE  Frees
  BY <1>1, <1>4 DEF Frees, SetState, MayBecome, TypeOK
<1>5. ASSUME NEW c \in Clients, Continue(c) PROVE Frees
  <2>1. CASE Promote(c)
    <3>1. job[c].obj \in Objects /\ SetState(job[c].obj, "ready", "ready")
      BY <1>1, <2>1 DEF Promote, JobShape, Uploading
    <3> QED BY <1>4, <3>1 DEF Events
  <2>2. CASE ConfirmDeletion(c)
    <3>1. job[c].obj \in Objects /\ SetState(job[c].obj, "deleted", "confirmed")
      BY <1>1, <2>2 DEF ConfirmDeletion, JobShape, Erasing
    <3> QED BY <1>4, <3>1 DEF Events
  <2>3. CASE ~Promote(c) /\ ~ConfirmDeletion(c)
    <3>1. UNCHANGED rows
      BY <1>5, <2>3 DEF Continue, BeginPut, AlreadySettled, AnswerPut, ReadBack, RecordDownload,
         Deliver, IntegrityMismatch, ConnectionGone, BeginErase, AlreadyErased, FenceFound,
         SendTombstone, AnswerTombstone, ConfirmFence, FenceUnconfirmed
    <3> QED BY <1>3, <3>1
  <2> QED BY <2>1, <2>2, <2>3
<1>6. ASSUME NEW c \in Clients, NEW o \in Objects, RequestDeletion(c, o) PROVE Frees
  <2>1. SetState(o, "deleting", "requested")
    BY <1>6 DEF RequestDeletion
  <2> QED BY <1>4, <2>1 DEF Events
<1>7. ASSUME \/ \E c \in Clients : StartCleanup(c)
             \/ \E c \in Clients, o \in Objects :
                  BeginDownload(c, o) \/ ResumeDeletion(c, o) \/ SkipDeletion(c, o)
             \/ \E c \in Clients, o \in Objects, m \in Manifests : Replay(c, o, m)
             \/ \E o \in Objects, r \in References : Attach(o, r) \/ Detach(o, r)
             \/ \E o \in Objects : Lapse(o)
             \/ \E q \in Quotas : ConfigureQuota(q)
             \/ \E q \in late : LateArrival(q)
             \/ Fault
             \/ UNCHANGED vars
      PROVE  Frees
  <2>1. UNCHANGED rows
    BY <1>7 DEF StartCleanup, BeginDownload, ResumeDeletion, SkipDeletion, Replay, Attach, Detach,
       Lapse, ConfigureQuota, LateArrival, Fault, ConnectionLost, Abandon, RefuseTombstone, vars
  <2> QED BY <1>3, <2>1
<1>8. Frees \/ \E c \in Clients, o \in Objects, m \in Manifests : Reserve(c, o, m)
  BY <1>5, <1>6, <1>7 DEF Next, Step, Delete
<1>9. Frees => ~(Used' > Used)
  <2> SUFFICES ASSUME Frees PROVE ~(Used' > Used)
    OBVIOUS
  <2>1. Used' <= Used /\ Used' \in Nat /\ Used \in Nat
    BY UsedFalls
  <2> QED BY <2>1
<1> QED
  BY <1>2, <1>8, <1>9

\* Whatever is reserved, finished, erased or retried, in any order and however
\* often the limit changes: a step that adds to the charged bytes stays within
\* the quota in force.
THEOREM QuotaIsHonoured == Spec => QuotaHonoured
<1>1. IInv /\ IInv' /\ [Next]_vars => [Used' > Used => Used' <= quota']_vars
  BY QuotaStep
<1> QED
  BY <1>1, Invariance, PTL DEF Spec, QuotaHonoured

=============================================================================
