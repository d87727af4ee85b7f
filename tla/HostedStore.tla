----------------------------- MODULE HostedStore -----------------------------
(***************************************************************************)
(* One tenant's product records in PostgreSQL, with the request table that *)
(* makes commands idempotent, the audit history and the outbox that        *)
(* workers lease, hand over and acknowledge (hosted_store.py and the       *)
(* triggers of storage_migrations).                                        *)
(*                                                                         *)
(* put and import run under the tenant's advisory lock, so each is one     *)
(* step.  lease selects a row with FOR UPDATE SKIP LOCKED and stamps it in *)
(* a second statement: two steps with the row lock held in between.        *)
(*                                                                         *)
(* A document stands for kind, identity and body; Identity is the part of  *)
(* it that may never change.  The i-th audit entry and the i-th outbox row *)
(* share one event id.  A lease token is fresh at every lease, so the      *)
(* number of the attempt stands for it.                                    *)
(***************************************************************************)
EXTENDS Integers, Sequences, FiniteSets, Functions

CONSTANTS
  Records, Documents, Identity,
  Commands,     \* (actor, command_id) pairs
  Workers,      \* consumers of the outbox
  Snapshots,    \* the exports an operator may import: sets of entries
  MaxRevision,  \* bound: revisions of a record
  MaxAttempts,  \* bound: the attempt that neither expires nor crashes
  None

Entry == [id : Records, revision : Nat \ {0}, doc : Documents]

Ask == [id : Records, doc : Documents, expected : 0 .. MaxRevision]

\* An export with two documents for one id is refused before it is applied.
ASSUME StoreAssumptions ==
  /\ None \notin Documents \cup [ask : Ask, result : Entry]
  /\ \A s \in Snapshots : /\ s \subseteq Entry /\ IsFiniteSet(s)
                         /\ \A e, f \in s : e.id = f.id => e = f
  /\ MaxRevision \in Nat /\ MaxAttempts \in Nat \ {0}

VARIABLES
  record,    \* record[r]: revision (0: no row) and document
  request,   \* request[k]: the command's arguments and stored result
  audit,     \* cloud_audit in commit order
  outbox,    \* outbox[i]: attempts, lease and acknowledgement of event i
  worker,    \* worker[w]: the consumer's event and token
  handed,    \* handed[i]: times event i reached the consumer's target
  answers    \* what callers of put asked and were told

store == <<record, request, audit>>
vars  == <<store, outbox, worker, handed, answers>>

Unleased == [attempts |-> 0, lease |-> "none", done |-> FALSE]
Free     == [pc |-> "idle", event |-> 0, token |-> 0]

TypeOK ==
  /\ record \in [Records -> [revision : Nat, doc : Documents \cup {None}]]
  /\ request \in [Commands -> [ask : Ask, result : Entry] \cup {None}]
  /\ audit \in Seq(Entry)
  /\ outbox \in Seq([attempts : 0 .. MaxAttempts, lease : {"none", "live", "expired"},
                     done : BOOLEAN])
  /\ worker \in [Workers -> [pc : {"idle", "selected", "leased", "handed"},
                             event : 0 .. Len(audit), token : 0 .. MaxAttempts]]
  /\ handed \in Seq(Nat) /\ Len(handed) = Len(audit)
  /\ answers \subseteq [command : Commands, ask : Ask, result : Entry]

Init ==
  /\ record = [r \in Records |-> [revision |-> 0, doc |-> None]]
  /\ request = [k \in Commands |-> None]
  /\ audit = <<>>
  /\ outbox = <<>>
  /\ worker = [w \in Workers |-> Free]
  /\ handed = <<>>
  /\ answers = {}

-----------------------------------------------------------------------------
(* put: one transaction under the advisory lock. *)

Fill(s, x) == [i \in 1 .. Len(s) |-> x]

\* The new entries are audited and published in the same transaction.
Publish(entries) ==
  /\ audit' = audit \o entries
  /\ outbox' = outbox \o Fill(entries, Unleased)
  /\ handed' = handed \o Fill(entries, 0)

\* Variant: the record's present state answers a replay.
AnswerNow(k) ==
  LET r == request[k].result.id
  IN  [id |-> r, revision |-> record[r].revision, doc |-> record[r].doc]

StoredAnswer(k) == request[k].result

SameDigest(k, a) == request[k] # None /\ request[k].ask = a

Told(k, a, result) == [command |-> k, ask |-> a, result |-> result]

\* A replay with the same digest returns the stored result.
Replay(k, a) ==
  /\ SameDigest(k, a)
  /\ answers' = answers \cup {Told(k, a, StoredAnswer(k))}
  /\ UNCHANGED <<store, outbox, worker, handed>>

Expected(a) == record[a.id].revision = a.expected

SameIdentity(a) ==
  record[a.id].revision > 0 => Identity[record[a.id].doc] = Identity[a.doc]

\* The answer of a committed command may be lost on its way back.
Put(k, a, heard) ==
  LET result == [id |-> a.id, revision |-> a.expected + 1, doc |-> a.doc]
  IN  /\ request[k] = None
      /\ Expected(a) /\ SameIdentity(a)
      /\ record' = [record EXCEPT ![a.id] = [revision |-> result.revision, doc |-> a.doc]]
      /\ request' = [request EXCEPT ![k] = [ask |-> a, result |-> result]]
      /\ Publish(<<result>>)
      /\ answers' = IF heard THEN answers \cup {Told(k, a, result)} ELSE answers
      /\ UNCHANGED worker

-----------------------------------------------------------------------------
(* import_sqlite_snapshot: all of the snapshot or nothing. *)

Stored(e) == record[e.id].revision > 0

Identical(e) == record[e.id] = [revision |-> e.revision, doc |-> e.doc]

\* Variant: entries that are already stored are published again.
FreshOrIdentical(e) == ~Stored(e) \/ Identical(e)

Fresh(e) == ~Stored(e)

\* The export is read without ORDER BY: its entries come in any order.
Import(snapshot) ==
  LET added == {e \in snapshot : Fresh(e)}
  IN  /\ \A e \in snapshot : Stored(e) => Identical(e)
      /\ record' = [r \in Records |->
                      IF \E e \in added : e.id = r
                      THEN LET e == CHOOSE e \in added : e.id = r
                           IN  [revision |-> e.revision, doc |-> e.doc]
                      ELSE record[r]]
      /\ \E entries \in Bijection(1 .. Cardinality(added), added) : Publish(entries)
      /\ UNCHANGED <<request, worker, answers>>

-----------------------------------------------------------------------------
(* lease and acknowledge. *)

RowLocked(i) == \E w \in Workers : worker[w].pc = "selected" /\ worker[w].event = i

\* Variants: rows locked by others are taken too; an expired lease stays.
LeasableUnlocked(i) == ~outbox[i].done /\ outbox[i].lease # "live"
LeasableOnce(i) == outbox[i].lease = "none" /\ ~RowLocked(i)

Leasable(i) == ~outbox[i].done /\ outbox[i].lease # "live" /\ ~RowLocked(i)

\* SELECT ... ORDER BY created_at FOR UPDATE SKIP LOCKED LIMIT 1
Select(w) ==
  /\ worker[w].pc = "idle"
  /\ \E i \in DOMAIN outbox :
       /\ Leasable(i) /\ \A j \in 1 .. i - 1 : ~Leasable(j)
       /\ outbox[i].attempts < MaxAttempts
       /\ worker' = [worker EXCEPT ![w] = [Free EXCEPT !.pc = "selected", !.event = i]]
  /\ UNCHANGED <<store, outbox, handed, answers>>

\* UPDATE ... a fresh token, a new expiry, one more attempt; commit.
Stamp(w) ==
  LET i == worker[w].event
      n == outbox[i].attempts + 1
  IN  /\ worker[w].pc = "selected"
      /\ outbox' = [outbox EXCEPT ![i].attempts = n, ![i].lease = "live"]
      /\ worker' = [worker EXCEPT ![w].pc = "leased", ![w].token = n]
      /\ UNCHANGED <<store, handed, answers>>

\* The consumer hands the event to its target.
HandOver(w) ==
  /\ worker[w].pc = "leased"
  /\ worker' = [worker EXCEPT ![w].pc = "handed"]
  /\ handed' = [handed EXCEPT ![worker[w].event] = @ + 1]
  /\ UNCHANGED <<store, outbox, answers>>

\* Variant: any live lease on the event will do.
HoldsAny(w) ==
  LET e == outbox[worker[w].event]
  IN  e.lease = "live" /\ ~e.done

Holds(w) ==
  LET e == outbox[worker[w].event]
  IN  e.attempts = worker[w].token /\ e.lease = "live" /\ ~e.done

Acknowledge(w) ==
  /\ worker[w].pc = "handed"
  /\ ~RowLocked(worker[w].event)
  /\ outbox' = IF Holds(w) THEN [outbox EXCEPT ![worker[w].event].done = TRUE] ELSE outbox
  /\ worker' = [worker EXCEPT ![w] = Free]
  /\ UNCHANGED <<store, handed, answers>>

\* lease_until passes.
Expire(i) ==
  /\ outbox[i].lease = "live" /\ ~outbox[i].done /\ outbox[i].attempts < MaxAttempts
  /\ outbox' = [outbox EXCEPT ![i].lease = "expired"]
  /\ UNCHANGED <<store, worker, handed, answers>>

\* The consumer dies, before or after it handed the event over.
Crash(w) ==
  /\ worker[w].pc # "idle" /\ worker[w].token < MaxAttempts
  /\ worker' = [worker EXCEPT ![w] = Free]
  /\ UNCHANGED <<store, outbox, handed, answers>>

Consume(w) == Select(w) \/ Stamp(w) \/ HandOver(w) \/ Acknowledge(w)

Next ==
  \/ \E k \in Commands, a \in Ask, heard \in BOOLEAN :
       a.expected < MaxRevision /\ Put(k, a, heard)
  \/ \E k \in Commands, a \in Ask : Replay(k, a)
  \/ \E s \in Snapshots : Import(s)
  \/ \E w \in Workers : Consume(w) \/ Crash(w)
  \/ \E i \in DOMAIN outbox : Expire(i)

\* Consumers keep polling, a consumer that never dies again finishes what it
\* began, and the clock passes the end of every lease.
Fairness ==
  /\ \A w \in Workers : /\ SF_vars(Select(w)) /\ SF_vars(Stamp(w))
                        /\ SF_vars(HandOver(w)) /\ SF_vars(Acknowledge(w))
  /\ \A i \in 1 .. MaxRevision * Cardinality(Records) :
       WF_vars(i \in DOMAIN outbox /\ Expire(i))

Spec == Init /\ [][Next]_vars /\ Fairness

-----------------------------------------------------------------------------
(* Properties. *)

\* The audit entries of the same record after entry i.
Later(i) == {j \in i + 1 .. Len(audit) : audit[j].id = audit[i].id}

\* The audit tells every record's whole past, whatever mix of commands, retries
\* and imports wrote it: one entry for each revision since the record appeared,
\* without gap or repetition, the last one being the record itself; the identity
\* never changed, and each entry has its event in the outbox.
HistoryComplete ==
  /\ Len(outbox) = Len(audit)
  /\ \A r \in Records : Stored([id |-> r]) <=> \E i \in DOMAIN audit : audit[i].id = r
  /\ \A i \in DOMAIN audit :
       /\ Later(i) = {} => Identical(audit[i])
       /\ \A j \in Later(i) :
            /\ (\A k \in Later(i) : j <= k) => audit[j].revision = audit[i].revision + 1
            /\ Identity[audit[j].doc] = Identity[audit[i].doc]

\* However often a command is retried and however far the record moved on since,
\* everyone who is answered is told the same, committed revision, and it is the
\* one this caller asked for (docs/hosted-storage.md: a replay returns the
\* original result).
AnswersAreDurable ==
  \A x \in answers :
    /\ \E i \in DOMAIN audit : audit[i] = x.result
    /\ x.result = [id |-> x.ask.id, revision |-> x.ask.expected + 1, doc |-> x.ask.doc]
    /\ \A y \in answers : y.command = x.command => y.result = x.result

\* A further attempt at an event starts only when the lease before it has run out
\* and nobody acknowledged: the select and the stamp are two statements, and no
\* other consumer's stamp or acknowledgement comes between them.
LeaseIsExclusive ==
  [][\A i \in DOMAIN outbox :
       outbox'[i].attempts # outbox[i].attempts
         => outbox[i].lease # "live" /\ ~outbox[i].done]_vars

\* A slow consumer whose lease ran out or passed to another cannot settle the
\* event under the new holder: whoever settles it holds the current, unexpired
\* attempt and has handed the event over.
SettledByHolder ==
  [][\A i \in DOMAIN outbox : ~outbox[i].done /\ outbox'[i].done
       => /\ outbox[i].lease = "live"
          /\ \E w \in Workers :
               /\ worker[w].pc = "handed" /\ worker'[w].pc = "idle"
               /\ worker[w].event = i /\ worker[w].token = outbox[i].attempts]_vars

\* No event is lost: consumers may die and leases may run out at any point, but as
\* long as some attempt is spared, the event is handed over and acknowledged.
EveryEventDelivered ==
  \A i \in 1 .. MaxRevision * Cardinality(Records) :
    i \in DOMAIN outbox ~> i \in DOMAIN outbox /\ outbox[i].done /\ handed[i] > 0

=============================================================================
