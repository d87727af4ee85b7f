--------------------------- MODULE HostedStoreProofs ---------------------------
(* Theorems about HostedStore: for any records, commands, snapshots and        *)
(* consumers the audit tells each record's whole past, answers stay true, and  *)
(* an event is leased and settled by one consumer at a time.                   *)
(*                                                                             *)
(* The audit only grows and a stored request never changes, so an answer that  *)
(* was true stays true.  A lease is exclusive because what a consumer selected *)
(* is locked until it is stamped.                                              *)
EXTENDS HostedStore, FiniteSetTheorems, SequenceTheorems, TLAPS

\* ---- The inductive invariant ---------------------------------------------------

Event == [attempts : 0 .. MaxAttempts, lease : {"none", "live", "expired"}, done : BOOLEAN]

Consumer == [pc : {"idle", "selected", "leased", "handed"}, event : Nat, token : 0 .. MaxAttempts]

StoreTypes ==
  /\ record \in [Records -> [revision : Nat, doc : Documents \cup {None}]]
  /\ request \in [Commands -> [ask : Ask, result : Entry] \cup {None}]
  /\ audit \in Seq(Entry)
  /\ answers \subseteq [command : Commands, ask : Ask, result : Entry]

OutboxTypes ==
  /\ outbox \in Seq(Event) /\ Len(outbox) = Len(audit)
  /\ handed \in Seq(Nat) /\ Len(handed) = Len(audit)

WorkerTypes ==
  /\ worker \in [Workers -> Consumer]
  /\ \A w \in Workers : worker[w].event \in 0 .. Len(audit)

\* What HistoryComplete says of a record's entries, and that its identity is the
\* record's own.
EntryOK(i) ==
  /\ Later(i) = {} => Identical(audit[i])
  /\ \A j \in Later(i) :
       /\ (\A k \in Later(i) : j <= k) => audit[j].revision = audit[i].revision + 1
       /\ Identity[audit[j].doc] = Identity[audit[i].doc]
  /\ Identity[record[audit[i].id].doc] = Identity[audit[i].doc]

AuditOK ==
  /\ \A r \in Records : Stored([id |-> r]) <=> \E i \in DOMAIN audit : audit[i].id = r
  /\ \A i \in DOMAIN audit : EntryOK(i)

ResultOf(a) == [id |-> a.id, revision |-> a.expected + 1, doc |-> a.doc]

\* A stored request has the result it asked for, in the audit, and answers tell it.
RequestsOK ==
  /\ \A k \in Commands : request[k] # None =>
       /\ request[k].result = ResultOf(request[k].ask)
       /\ \E i \in DOMAIN audit : audit[i] = request[k].result
  /\ \A x \in answers :
       /\ request[x.command] # None
       /\ request[x.command].ask = x.ask /\ request[x.command].result = x.result

\* What a consumer selected is nobody else's until it is stamped.
LeasesOK ==
  /\ \A w \in Workers : worker[w].pc # "idle" => worker[w].event \in DOMAIN outbox
  /\ \A w \in Workers : worker[w].pc = "selected" =>
       LET e == outbox[worker[w].event]
       IN  ~e.done /\ e.lease # "live" /\ e.attempts < MaxAttempts
  /\ \A w, u \in Workers :
       worker[w].pc = "selected" /\ worker[u].pc = "selected" /\ worker[w].event = worker[u].event
         => w = u

IInv == StoreTypes /\ OutboxTypes /\ WorkerTypes /\ AuditOK /\ RequestsOK /\ LeasesOK

LEMMA Sequences ==
  ASSUME IInv
  PROVE  /\ audit \in Seq(Entry) /\ Len(audit) \in Nat /\ DOMAIN audit = 1 .. Len(audit)
         /\ outbox \in Seq(Event) /\ DOMAIN outbox = 1 .. Len(audit) /\ Len(outbox) = Len(audit)
         /\ handed \in Seq(Nat) /\ DOMAIN handed = 1 .. Len(audit) /\ Len(handed) = Len(audit)
         /\ \A i \in 1 .. Len(audit) : audit[i] \in Entry /\ outbox[i] \in Event
BY DEF IInv, StoreTypes, OutboxTypes

LEMMA AuditStays ==
  ASSUME AuditOK, UNCHANGED <<record, audit>>
  PROVE  AuditOK'
BY DEF AuditOK, EntryOK, Later, Identical, Stored

\* ---- Publishing: put and import ---------------------------------------------------

LEMMA Published ==
  ASSUME IInv, NEW entries \in Seq(Entry), Publish(entries)
  PROVE  LET N == Len(audit)
             n == Len(entries)
         IN  /\ N \in Nat /\ n \in Nat /\ audit' \in Seq(Entry) /\ DOMAIN audit' = 1 .. N + n
             /\ Len(audit') = N + n
             /\ \A i \in 1 .. N : audit'[i] = audit[i] /\ outbox'[i] = outbox[i]
             /\ \A i \in N + 1 .. N + n : audit'[i] = entries[i - N]
             /\ \A i \in N + 1 .. N + n : outbox'[i] = Unleased
             /\ OutboxTypes'
<1>. DEFINE N == Len(audit)
            n == Len(entries)
            rows == Fill(entries, Unleased)
            zeros == Fill(entries, 0)
<1>1. Unleased \in Event
  BY StoreAssumptions DEF Unleased, Event
<1>2. n \in Nat /\ N \in Nat /\ audit \in Seq(Entry) /\ outbox \in Seq(Event) /\ handed \in Seq(Nat)
      /\ Len(outbox) = N /\ Len(handed) = N
  BY Sequences
<1>3. rows \in Seq(Event) /\ Len(rows) = n /\ \A i \in 1 .. n : rows[i] = Unleased
  BY <1>1, <1>2 DEF Fill
<1>4. zeros \in Seq(Nat) /\ Len(zeros) = n
  BY <1>2 DEF Fill
<1>5. audit' = audit \o entries /\ outbox' = outbox \o rows /\ handed' = handed \o zeros
  BY DEF Publish
<1>. HIDE DEF rows, zeros, N, n
<1>6. /\ audit' \in Seq(Entry) /\ Len(audit') = N + n
      /\ \A i \in 1 .. N : audit'[i] = audit[i]
      /\ \A i \in N + 1 .. N + n : audit'[i] = entries[i - N]
  BY <1>2, <1>5, ConcatProperties DEF N, n
<1>7. /\ outbox' \in Seq(Event) /\ Len(outbox') = N + n
      /\ \A i \in 1 .. N : outbox'[i] = outbox[i]
      /\ \A i \in N + 1 .. N + n : outbox'[i] = Unleased
  <2>1. \A i \in 1 .. N + n : outbox'[i] = IF i <= N THEN outbox[i] ELSE rows[i - N]
    BY <1>2, <1>3, <1>5, ConcatProperties
  <2>2. outbox' \in Seq(Event) /\ Len(outbox') = N + n
    BY <1>2, <1>3, <1>5, ConcatProperties
  <2>3. ASSUME NEW i \in 1 .. N PROVE outbox'[i] = outbox[i]
    BY <1>2, <2>1
  <2>4. ASSUME NEW i \in N + 1 .. N + n PROVE outbox'[i] = Unleased
    <3>1. i - N \in 1 .. n /\ i \in 1 .. N + n /\ ~(i <= N)
      BY <1>2
    <3>. QED BY <1>3, <2>1, <3>1
  <2>. QED BY <2>2, <2>3, <2>4
<1>8. handed' \in Seq(Nat) /\ Len(handed') = N + n
  BY <1>2, <1>4, <1>5, ConcatProperties
<1>9. OutboxTypes'
  BY <1>6, <1>7, <1>8 DEF OutboxTypes
<1>10. DOMAIN audit' = 1 .. N + n
  BY <1>6
<1>. QED BY <1>2, <1>6, <1>7, <1>9, <1>10 DEF N, n

\* New entries that continue their records, one for each, keep the audit whole.
Continues(entries) ==
  /\ record' \in [Records -> [revision : Nat, doc : Documents \cup {None}]]
  /\ \A k, l \in 1 .. Len(entries) : entries[k].id = entries[l].id => k = l
  /\ \A k \in 1 .. Len(entries) :
       LET e == entries[k]
       IN  /\ record'[e.id] = [revision |-> e.revision, doc |-> e.doc]
           /\ Stored(e) => /\ e.revision = record[e.id].revision + 1
                           /\ Identity[record[e.id].doc] = Identity[e.doc]
  /\ \A r \in Records : (\A k \in 1 .. Len(entries) : entries[k].id # r) => record'[r] = record[r]

LEMMA AuditContinues ==
  ASSUME IInv, NEW entries \in Seq(Entry), Publish(entries), Continues(entries)
  PROVE  AuditOK'
<1>. DEFINE N == Len(audit)
            n == Len(entries)
<1>1. /\ N \in Nat /\ n \in Nat /\ DOMAIN audit' = 1 .. N + n /\ Len(audit') = N + n
      /\ \A i \in 1 .. N : audit'[i] = audit[i]
      /\ \A i \in N + 1 .. N + n : audit'[i] = entries[i - N]
  BY Published
<1>2. \A i \in 1 .. N : audit[i] \in Entry
  BY Sequences
<1>3. \A k \in 1 .. n : entries[k] \in Entry
  OBVIOUS
<1>4. AuditOK /\ DOMAIN audit = 1 .. N
  BY Sequences DEF IInv
<1>. HIDE DEF N, n
<1>5. ASSUME NEW r \in Records
      PROVE  Stored([id |-> r])' <=> \E i \in DOMAIN audit' : audit'[i].id = r
  <2>1. CASE \E k \in 1 .. n : entries[k].id = r
    <3>1. PICK k \in 1 .. n : entries[k].id = r
      BY <2>1
    <3>2. record'[r] = [revision |-> entries[k].revision, doc |-> entries[k].doc]
      BY <3>1 DEF Continues, n
    <3>3. record'[r].revision > 0
      BY <1>3, <3>2 DEF Entry
    <3>4. N + k \in N + 1 .. N + n /\ (N + k) - N = k /\ N + k \in 1 .. N + n
      BY <1>1
    <3>5. audit'[N + k].id = r
      BY <1>1, <3>1, <3>4
    <3>. QED BY <1>1, <3>3, <3>4, <3>5 DEF Stored
  <2>2. CASE \A k \in 1 .. n : entries[k].id # r
    <3>1. record'[r] = record[r]
      BY <2>2 DEF Continues, n
    <3>2. ASSUME NEW i \in 1 .. N + n, audit'[i].id = r
          PROVE  i \in 1 .. N /\ audit[i].id = r
      <4>1. CASE i \in 1 .. N
        BY <1>1, <3>2, <4>1
      <4>2. CASE i \notin 1 .. N
        <5>1. i \in N + 1 .. N + n /\ i - N \in 1 .. n
          BY <1>1, <4>2
        <5>. QED BY <1>1, <2>2, <3>2, <5>1
      <4>. QED BY <4>1, <4>2
    <3>3. (\E i \in 1 .. N + n : audit'[i].id = r) <=> (\E i \in 1 .. N : audit[i].id = r)
      <4>1. ASSUME NEW i \in 1 .. N PROVE i \in 1 .. N + n /\ audit'[i] = audit[i]
        BY <1>1
      <4>. QED BY <3>2, <4>1
    <3>4. Stored([id |-> r]) <=> \E i \in 1 .. N : audit[i].id = r
      BY <1>4 DEF AuditOK
    <3>. QED BY <1>1, <3>1, <3>3, <3>4 DEF Stored
  <2>. QED BY <2>1, <2>2
<1>6. ASSUME NEW i \in 1 .. N
      PROVE  EntryOK(i)'
  <2>. DEFINE e == audit[i]
  <2>1. e \in Entry /\ EntryOK(i) /\ audit'[i] = e /\ Stored(e) /\ e.id \in Records
    <3>1. e \in Entry /\ EntryOK(i) /\ audit'[i] = e
      BY <1>1, <1>2, <1>4 DEF AuditOK
    <3>2. e.id \in Records
      BY <3>1 DEF Entry
    <3>3. Stored([id |-> e.id])
      BY <1>4, <3>2 DEF AuditOK
    <3>. QED BY <3>1, <3>2, <3>3 DEF Stored
  <2>2. ASSUME NEW j \in Later(i)' PROVE j \in i + 1 .. N + n /\ audit'[j].id = e.id
    BY <1>1, <2>1 DEF Later
  <2>3. Later(i) \subseteq Later(i)' /\ \A j \in Later(i) : j \in 1 .. N /\ audit'[j] = audit[j]
    BY <1>1, <2>1 DEF Later, N
  <2>4. CASE \A k \in 1 .. n : entries[k].id # e.id
    <3>1. Later(i)' = Later(i)
      <4>1. ASSUME NEW j \in Later(i)' PROVE j \in Later(i)
        <5>1. j \in i + 1 .. N + n /\ audit'[j].id = e.id
          BY <2>2
        <5>2. j <= N
          <6>1. ASSUME j > N PROVE FALSE
            <7>1. j \in N + 1 .. N + n /\ j - N \in 1 .. n
              BY <1>1, <5>1, <6>1
            <7>. QED BY <1>1, <2>4, <5>1, <7>1
          <6>. QED BY <1>1, <5>1, <6>1
        <5>3. j \in i + 1 .. N /\ audit[j].id = audit[i].id
          BY <1>1, <5>1, <5>2
        <5>. QED BY <5>3 DEF Later, N
      <4>. QED BY <2>3, <4>1
    <3>2. record'[e.id] = record[e.id]
      BY <2>1, <2>4 DEF Continues, n
    <3>. QED BY <2>1, <2>3, <3>1, <3>2 DEF EntryOK, Identical
  <2>5. ASSUME NEW k \in 1 .. n, entries[k].id = e.id
        PROVE  EntryOK(i)'
    <3>. DEFINE m == N + k
    <3>1. m \in N + 1 .. N + n /\ m - N = k /\ m \in i + 1 .. N + n
      BY <1>1
    <3>2. audit'[m] = entries[k] /\ m \in Later(i)'
      <4>1. audit'[m] = entries[k]
        BY <1>1, <3>1
      <4>. QED BY <1>1, <2>1, <2>5, <3>1, <4>1 DEF Later
    <3>3. /\ record'[e.id] = [revision |-> entries[k].revision, doc |-> entries[k].doc]
          /\ entries[k].revision = record[e.id].revision + 1
          /\ Identity[record[e.id].doc] = Identity[entries[k].doc]
      BY <2>1, <2>5 DEF Continues, n, Stored
    <3>4. Identity[record[e.id].doc] = Identity[e.doc]
      BY <2>1 DEF EntryOK
    <3>5. ASSUME NEW j \in Later(i)' PROVE j \in Later(i) \/ j = m
      <4>1. j \in i + 1 .. N + n /\ audit'[j].id = e.id
        BY <2>2
      <4>2. CASE j <= N
        BY <1>1, <4>1, <4>2 DEF Later, N
      <4>3. CASE j > N
        <5>1. j \in N + 1 .. N + n /\ j - N \in 1 .. n
          BY <1>1, <4>1, <4>3
        <5>2. entries[j - N].id = entries[k].id
          BY <1>1, <2>5, <4>1, <5>1
        <5>3. j - N = k
          BY <5>1, <5>2 DEF Continues, n
        <5>. QED BY <1>1, <5>1, <5>3
      <4>. QED BY <1>1, <4>1, <4>2, <4>3
    <3>6. ASSUME NEW j \in Later(i)'
          PROVE  /\ (\A l \in Later(i)' : j <= l) => audit'[j].revision = e.revision + 1
                 /\ Identity[audit'[j].doc] = Identity[e.doc]
      <4>1. CASE j \in Later(i)
        BY <2>1, <2>3, <4>1 DEF EntryOK
      <4>2. CASE j = m
        <5>1. (\A l \in Later(i)' : j <= l) => Later(i) = {}
          <6>1. \A l \in Later(i) : l \in Later(i)' /\ l < m
            BY <1>1, <2>3, <3>1
          <6>. QED BY <1>1, <2>3, <3>1, <4>2, <6>1
        <5>2. Later(i) = {} => record[e.id].revision = e.revision
          BY <2>1 DEF EntryOK, Identical
        <5>. QED BY <3>2, <3>3, <3>4, <4>2, <5>1, <5>2
      <4>. QED BY <3>5, <4>1, <4>2
    <3>. QED BY <2>1, <3>2, <3>3, <3>4, <3>6 DEF EntryOK
  <2>. QED BY <2>4, <2>5
<1>7. ASSUME NEW i \in N + 1 .. N + n
      PROVE  EntryOK(i)'
  <2>. DEFINE k == i - N
  <2>1. k \in 1 .. n /\ audit'[i] = entries[k]
    BY <1>1
  <2>2. Later(i)' = {}
    <3>1. ASSUME NEW j \in Later(i)' PROVE FALSE
      <4>1. j \in i + 1 .. N + n /\ audit'[j].id = audit'[i].id
        BY <1>1, <3>1 DEF Later
      <4>2. j \in N + 1 .. N + n /\ j - N \in 1 .. n /\ j - N # k
        BY <1>1, <4>1
      <4>3. entries[j - N].id = entries[k].id
        BY <1>1, <2>1, <4>1, <4>2
      <4>. QED BY <2>1, <4>2, <4>3 DEF Continues, n
    <3>. QED BY <3>1
  <2>3. record'[entries[k].id] = [revision |-> entries[k].revision, doc |-> entries[k].doc]
    BY <2>1 DEF Continues, n
  <2>. QED BY <2>1, <2>2, <2>3 DEF EntryOK, Identical
<1>8. \A i \in DOMAIN audit' : i \in 1 .. N \/ i \in N + 1 .. N + n
  BY <1>1
<1>. QED BY <1>5, <1>6, <1>7, <1>8 DEF AuditOK

LEMMA WorkersStay ==
  ASSUME IInv, NEW entries \in Seq(Entry), Publish(entries), worker' = worker
  PROVE  WorkerTypes' /\ LeasesOK'
<1>1. /\ Len(audit) \in Nat /\ Len(audit') \in Nat /\ Len(audit) <= Len(audit')
      /\ DOMAIN outbox = 1 .. Len(audit) /\ DOMAIN outbox' = 1 .. Len(audit')
      /\ \A i \in 1 .. Len(audit) : outbox'[i] = outbox[i]
  <2>1. OutboxTypes'
    BY Published
  <2>2. DOMAIN outbox' = 1 .. Len(audit')
    BY <2>1 DEF OutboxTypes
  <2>. QED BY <2>2, Published, Sequences
<1>2. WorkerTypes'
  BY <1>1 DEF IInv, WorkerTypes
<1>3. LeasesOK'
  BY <1>1 DEF IInv, LeasesOK
<1>. QED BY <1>2, <1>3

LEMMA ResultsStay ==
  ASSUME IInv, NEW entries \in Seq(Entry), Publish(entries)
  PROVE  \A x : (\E i \in DOMAIN audit : audit[i] = x) => \E i \in DOMAIN audit' : audit'[i] = x
<1>1. /\ DOMAIN audit = 1 .. Len(audit) /\ Len(audit) \in Nat /\ Len(entries) \in Nat
      /\ DOMAIN audit' = 1 .. Len(audit) + Len(entries)
      /\ \A i \in 1 .. Len(audit) : audit'[i] = audit[i]
  BY Published, Sequences
<1>2. ASSUME NEW i \in DOMAIN audit PROVE i \in DOMAIN audit' /\ audit'[i] = audit[i]
  BY <1>1
<1>. QED BY <1>2

\* ---- put ---------------------------------------------------------------------------

LEMMA ReplayStep ==
  ASSUME IInv, NEW k \in Commands, NEW a \in Ask, Replay(k, a)
  PROVE  IInv'
<1>. DEFINE x == Told(k, a, request[k].result)
<1>1. /\ request[k] # None /\ request[k].ask = a /\ answers' = answers \cup {x}
      /\ UNCHANGED <<record, request, audit, outbox, worker, handed>>
  BY DEF Replay, SameDigest, StoredAnswer, store
<1>2. request[k].result \in Entry
  BY <1>1 DEF IInv, StoreTypes
<1>3. /\ x \in [command : Commands, ask : Ask, result : Entry]
      /\ x.command = k /\ x.ask = a /\ x.result = request[k].result
  BY <1>2 DEF Told
<1>. HIDE DEF x
<1>4. StoreTypes'
  BY <1>1, <1>3 DEF IInv, StoreTypes
<1>5. RequestsOK'
  BY <1>1, <1>3 DEF IInv, RequestsOK
<1>6. OutboxTypes' /\ WorkerTypes' /\ LeasesOK'
  BY <1>1 DEF IInv, OutboxTypes, WorkerTypes, LeasesOK
<1>7. AuditOK'
  BY <1>1, AuditStays DEF IInv
<1>. QED BY <1>4, <1>5, <1>6, <1>7 DEF IInv

LEMMA PutStep ==
  ASSUME IInv, NEW k \in Commands, NEW a \in Ask, NEW heard \in BOOLEAN, a.expected < MaxRevision,
         Put(k, a, heard)
  PROVE  IInv'
<1>. DEFINE result == ResultOf(a)
            row == [ask |-> a, result |-> result]
            x == Told(k, a, result)
            new == [revision |-> result.revision, doc |-> a.doc]
<1>1. /\ request[k] = None /\ record[a.id].revision = a.expected
      /\ SameIdentity(a)
      /\ record' = [record EXCEPT ![a.id] = new] /\ request' = [request EXCEPT ![k] = row]
      /\ Publish(<<result>>) /\ answers' = IF heard THEN answers \cup {x} ELSE answers
      /\ worker' = worker
  BY DEF Put, Expected, ResultOf
<1>2. a.id \in Records /\ a.doc \in Documents /\ a.expected \in Nat
  BY StoreAssumptions DEF Ask
<1>3. /\ result \in Entry /\ result.id = a.id /\ result.doc = a.doc
      /\ result.revision = a.expected + 1 /\ result.revision \in Nat
  BY <1>2 DEF ResultOf, Entry
<1>. HIDE DEF result
<1>4. row \in [ask : Ask, result : Entry] /\ row.ask = a /\ row.result = result /\ row # None
  BY <1>3, StoreAssumptions
<1>5. /\ x \in [command : Commands, ask : Ask, result : Entry]
      /\ x.command = k /\ x.ask = a /\ x.result = result
  BY <1>3 DEF Told
<1>6. new \in [revision : Nat, doc : Documents \cup {None}]
  BY <1>2, <1>3
<1>7. new = [revision |-> result.revision, doc |-> result.doc]
  BY <1>3
<1>. HIDE DEF row, x, new
<1>8. /\ record \in [Records -> [revision : Nat, doc : Documents \cup {None}]]
      /\ request \in [Commands -> [ask : Ask, result : Entry] \cup {None}]
  BY DEF IInv, StoreTypes
<1>9. <<result>> \in Seq(Entry) /\ Len(<<result>>) = 1 /\ <<result>>[1] = result
  BY <1>3
<1>10. PICK entries \in Seq(Entry) : entries = <<result>> /\ Len(entries) = 1 /\ entries[1] = result
  BY <1>9
<1>11. Publish(entries)
  BY <1>1, <1>10
<1>12. /\ record' \in [Records -> [revision : Nat, doc : Documents \cup {None}]]
       /\ record'[a.id] = new /\ \A r \in Records \ {a.id} : record'[r] = record[r]
  BY <1>1, <1>2, <1>6, <1>8
<1>13. Stored(result) => /\ result.revision = record[a.id].revision + 1
                         /\ Identity[record[a.id].doc] = Identity[result.doc]
  BY <1>1, <1>3 DEF Stored, SameIdentity
<1>14. Continues(entries)
  <2>1. \A l \in 1 .. Len(entries) : l = 1
    BY <1>10
  <2>2. ASSUME NEW l \in 1 .. Len(entries)
        PROVE  LET e == entries[l]
               IN  /\ record'[e.id] = [revision |-> e.revision, doc |-> e.doc]
                   /\ Stored(e) => /\ e.revision = record[e.id].revision + 1
                                   /\ Identity[record[e.id].doc] = Identity[e.doc]
    <3>1. entries[l] = result
      BY <1>10, <2>1
    <3>. QED BY <1>3, <1>7, <1>12, <1>13, <3>1
  <2>3. ASSUME NEW r \in Records, \A l \in 1 .. Len(entries) : entries[l].id # r
        PROVE  record'[r] = record[r]
    BY <1>3, <1>10, <1>12, <2>3
  <2>. QED BY <1>12, <2>1, <2>2, <2>3 DEF Continues
<1>15. AuditOK'
  BY <1>11, <1>14, AuditContinues
<1>16. /\ request' \in [Commands -> [ask : Ask, result : Entry] \cup {None}]
       /\ request'[k] = row /\ \A c \in Commands \ {k} : request'[c] = request[c]
  BY <1>1, <1>4, <1>8
<1>17. answers' \subseteq [command : Commands, ask : Ask, result : Entry]
  BY <1>1, <1>5 DEF IInv, StoreTypes
<1>18. StoreTypes' /\ OutboxTypes'
  BY <1>11, <1>12, <1>16, <1>17, Published DEF StoreTypes
<1>19. RequestsOK'
  <2>1. \E i \in DOMAIN audit' : audit'[i] = result
    <3>1. /\ Len(audit) \in Nat /\ DOMAIN audit' = 1 .. Len(audit) + 1
          /\ \A i \in Len(audit) + 1 .. Len(audit) + 1 : audit'[i] = entries[i - Len(audit)]
      BY <1>10, <1>11, Published
    <3>2. Len(audit) + 1 \in Len(audit) + 1 .. Len(audit) + 1 /\ (Len(audit) + 1) - Len(audit) = 1
      BY <3>1
    <3>3. audit'[Len(audit) + 1] = result
      BY <1>10, <3>1, <3>2
    <3>4. Len(audit) + 1 \in DOMAIN audit'
      BY <3>1
    <3>. QED BY <3>3, <3>4
  <2>2. ASSUME NEW c \in Commands, request'[c] # None
        PROVE  /\ request'[c].result = ResultOf(request'[c].ask)
               /\ \E i \in DOMAIN audit' : audit'[i] = request'[c].result
    <3>1. CASE c = k
      BY <1>4, <1>16, <2>1, <3>1 DEF result
    <3>2. CASE c # k
      <4>1. request'[c] = request[c]
        BY <1>16, <3>2
      <4>2. /\ request[c].result = ResultOf(request[c].ask)
            /\ \E i \in DOMAIN audit : audit[i] = request[c].result
        BY <2>2, <4>1 DEF IInv, RequestsOK
      <4>. QED BY <1>11, <4>1, <4>2, ResultsStay
    <3>. QED BY <3>1, <3>2
  <2>3. ASSUME NEW y \in answers'
        PROVE  /\ request'[y.command] # None
               /\ request'[y.command].ask = y.ask /\ request'[y.command].result = y.result
    <3>1. CASE y = x
      BY <1>4, <1>5, <1>16, <3>1
    <3>2. CASE y \in answers
      <4>1. /\ request[y.command] # None /\ y.command \in Commands
            /\ request[y.command].ask = y.ask /\ request[y.command].result = y.result
        BY <3>2 DEF IInv, RequestsOK, StoreTypes
      <4>. QED BY <1>1, <1>16, <4>1
    <3>. QED BY <1>1, <2>3, <3>1, <3>2
  <2>. QED BY <2>2, <2>3 DEF RequestsOK
<1>20. WorkerTypes' /\ LeasesOK'
  BY <1>1, <1>11, WorkersStay
<1>. QED BY <1>15, <1>18, <1>19, <1>20 DEF IInv

\* ---- import ------------------------------------------------------------------------

LEMMA ImportStep ==
  ASSUME IInv, NEW s \in Snapshots, Import(s)
  PROVE  IInv'
<1>. DEFINE added == {e \in s : Fresh(e)}
            rowOf(r) == CHOOSE e \in added : e.id = r
<1>1. /\ record' = [r \in Records |-> IF \E e \in added : e.id = r
                                      THEN [revision |-> rowOf(r).revision, doc |-> rowOf(r).doc]
                                      ELSE record[r]]
      /\ \E entries \in Bijection(1 .. Cardinality(added), added) : Publish(entries)
      /\ UNCHANGED <<request, worker, answers>>
  BY DEF Import
<1>2. /\ added \subseteq Entry /\ added \subseteq s /\ IsFiniteSet(s)
      /\ \A e, f \in added : e.id = f.id => e = f
  BY StoreAssumptions
<1>3. \A e \in added : ~Stored(e)
  BY DEF Fresh
<1>4. Cardinality(added) \in Nat
  BY <1>2, FS_Subset, FS_CardinalityType
<1>5. ASSUME NEW e \in added PROVE rowOf(e.id) = e
  <2>1. rowOf(e.id) \in added /\ rowOf(e.id).id = e.id
    OBVIOUS
  <2>. QED BY <1>2, <2>1
<1>. HIDE DEF added, rowOf
<1>6. PICK entries : /\ entries \in [1 .. Cardinality(added) -> added] /\ Publish(entries)
                     /\ \A k, l \in 1 .. Cardinality(added) : entries[k] = entries[l] => k = l
                     /\ \A e \in added : \E k \in 1 .. Cardinality(added) : entries[k] = e
  BY <1>1 DEF Bijection, Injection, Surjection, IsInjective
<1>7. /\ entries \in Seq(Entry) /\ Len(entries) = Cardinality(added)
      /\ \A k \in 1 .. Len(entries) : entries[k] \in added
  BY <1>2, <1>4, <1>6
<1>8. record \in [Records -> [revision : Nat, doc : Documents \cup {None}]]
  BY DEF IInv, StoreTypes
<1>9. /\ record' \in [Records -> [revision : Nat, doc : Documents \cup {None}]]
      /\ \A e \in added : record'[e.id] = [revision |-> e.revision, doc |-> e.doc]
      /\ \A r \in Records : (\A e \in added : e.id # r) => record'[r] = record[r]
  <2>1. ASSUME NEW r \in Records, NEW e \in added, e.id = r
        PROVE  /\ record'[r] = [revision |-> e.revision, doc |-> e.doc]
               /\ record'[r] \in [revision : Nat, doc : Documents \cup {None}]
    <3>1. rowOf(r) = e /\ e \in Entry
      BY <1>2, <1>5, <2>1
    <3>2. record'[r] = [revision |-> rowOf(r).revision, doc |-> rowOf(r).doc]
      BY <1>1, <2>1
    <3>3. record'[r] = [revision |-> e.revision, doc |-> e.doc]
      BY <3>1, <3>2
    <3>4. e.revision \in Nat /\ e.doc \in Documents
      BY <3>1 DEF Entry
    <3>. QED BY <3>3, <3>4
  <2>2. ASSUME NEW r \in Records, \A e \in added : e.id # r
        PROVE  record'[r] = record[r]
    BY <1>1, <2>2
  <2>3. \A e \in added : e.id \in Records
    BY <1>2 DEF Entry
  <2>4. \A r \in Records : record'[r] \in [revision : Nat, doc : Documents \cup {None}]
    BY <1>8, <2>1, <2>2
  <2>5. record' = [r \in Records |-> record'[r]]
    BY <1>1
  <2>. QED BY <2>1, <2>2, <2>3, <2>4, <2>5
<1>10. Continues(entries)
  <2>1. ASSUME NEW k \in 1 .. Len(entries), NEW l \in 1 .. Len(entries), entries[k].id = entries[l].id
        PROVE  k = l
    BY <1>2, <1>6, <1>7, <2>1
  <2>2. ASSUME NEW r \in Records, \A k \in 1 .. Len(entries) : entries[k].id # r
        PROVE  record'[r] = record[r]
    BY <1>6, <1>7, <1>9, <2>2
  <2>. QED BY <1>3, <1>7, <1>9, <2>1, <2>2 DEF Continues
<1>11. AuditOK' /\ OutboxTypes' /\ WorkerTypes' /\ LeasesOK'
  BY <1>1, <1>6, <1>7, <1>10, AuditContinues, Published, WorkersStay
<1>12. StoreTypes'
  BY <1>1, <1>6, <1>7, <1>9, Published DEF IInv, StoreTypes
<1>13. RequestsOK'
  BY <1>1, <1>6, <1>7, ResultsStay DEF IInv, RequestsOK
<1>. QED BY <1>11, <1>12, <1>13 DEF IInv

\* ---- lease and acknowledge -----------------------------------------------------------

\* A step of a consumer, or of the clock, on one event; a lease it selected is its own.
LEMMA ConsumerMoves ==
  ASSUME IInv, UNCHANGED <<store, answers>>,
         outbox' \in Seq(Event), Len(outbox') = Len(outbox),
         handed' \in Seq(Nat), Len(handed') = Len(handed),
         NEW w \in Workers, NEW c \in Consumer, worker' = [worker EXCEPT ![w] = c],
         c.pc # "idle" => c.event \in DOMAIN outbox, c.event \in 0 .. Len(audit),
         c.pc = "selected" => /\ worker[w].pc # "selected" /\ ~RowLocked(c.event)
                              /\ ~outbox'[c.event].done /\ outbox'[c.event].lease # "live"
                              /\ outbox'[c.event].attempts < MaxAttempts,
         \A u \in Workers \ {w} : worker[u].pc = "selected" =>
            outbox'[worker[u].event] = outbox[worker[u].event]
  PROVE  IInv'
<1>1. UNCHANGED <<record, request, audit, answers>>
  BY DEF store
<1>2. StoreTypes' /\ AuditOK' /\ RequestsOK'
  <2>1. AuditOK'
    BY <1>1, AuditStays DEF IInv
  <2>. QED BY <1>1, <2>1 DEF IInv, StoreTypes, RequestsOK
<1>3. OutboxTypes'
  BY <1>1 DEF IInv, OutboxTypes
<1>4. worker'[w] = c /\ \A u \in Workers \ {w} : worker'[u] = worker[u]
  BY DEF IInv, WorkerTypes
<1>5. WorkerTypes'
  BY <1>1, <1>4 DEF IInv, WorkerTypes
<1>6. DOMAIN outbox' = DOMAIN outbox
  BY <1>1, <1>3, Sequences DEF OutboxTypes
<1>7. \A u \in Workers \ {w} : c.pc = "selected" /\ worker[u].pc = "selected" =>
        worker[u].event # c.event
  BY DEF RowLocked
<1>8. LeasesOK
  BY DEF IInv
<1>9. \A u \in Workers : worker'[u].pc # "idle" => worker'[u].event \in DOMAIN outbox'
  BY <1>4, <1>6, <1>8 DEF LeasesOK
<1>10. ASSUME NEW u \in Workers, worker'[u].pc = "selected"
       PROVE  LET e == outbox'[worker'[u].event]
              IN  ~e.done /\ e.lease # "live" /\ e.attempts < MaxAttempts
  <2>1. CASE u = w
    BY <1>4, <1>10, <2>1
  <2>2. CASE u # w
    <3>1. worker'[u] = worker[u] /\ outbox'[worker[u].event] = outbox[worker[u].event]
      BY <1>4, <1>10, <2>2
    <3>. QED BY <1>8, <1>10, <3>1 DEF LeasesOK
  <2>. QED BY <2>1, <2>2
<1>11. \A t, u \in Workers :
         worker'[t].pc = "selected" /\ worker'[u].pc = "selected" /\ worker'[t].event = worker'[u].event
           => t = u
  BY <1>4, <1>7, <1>8 DEF LeasesOK
<1>12. LeasesOK'
  BY <1>9, <1>10, <1>11 DEF LeasesOK
<1>. QED BY <1>2, <1>3, <1>5, <1>12 DEF IInv

LEMMA FreeConsumer ==
  Free \in Consumer /\ Free.pc = "idle" /\ Free.event = 0 /\ Free.token = 0
BY StoreAssumptions DEF Free, Consumer

\* What a consumer's row says of its event.
LEMMA AtWork ==
  ASSUME IInv, NEW w \in Workers
  PROVE  /\ worker[w] \in Consumer /\ worker[w].event \in 0 .. Len(audit)
         /\ worker[w].pc # "idle" => worker[w].event \in 1 .. Len(audit)
         /\ worker[w].pc = "selected" =>
              LET e == outbox[worker[w].event]
              IN  ~e.done /\ e.lease # "live" /\ e.attempts < MaxAttempts
BY Sequences DEF IInv, WorkerTypes, LeasesOK

SelectedRow(i) == [Free EXCEPT !.pc = "selected", !.event = i]

LEMMA SelectStep ==
  ASSUME IInv, NEW w \in Workers, Select(w)
  PROVE  IInv'
<1>1. PICK i \in DOMAIN outbox : /\ Leasable(i) /\ outbox[i].attempts < MaxAttempts
                                 /\ worker' = [worker EXCEPT ![w] = SelectedRow(i)]
  BY DEF Select, SelectedRow
<1>2. worker[w].pc = "idle" /\ UNCHANGED <<store, outbox, handed, answers>>
  BY DEF Select
<1>3. i \in 1 .. Len(audit) /\ i \in Nat /\ i \in 0 .. Len(audit)
  BY Sequences
<1>4. SelectedRow(i) \in Consumer /\ SelectedRow(i).pc = "selected" /\ SelectedRow(i).event = i
  BY <1>3, FreeConsumer DEF SelectedRow, Consumer
<1>5. PICK c \in Consumer : c = SelectedRow(i) /\ c.pc = "selected" /\ c.event = i
  BY <1>4
<1>6. ~RowLocked(i) /\ ~outbox[i].done /\ outbox[i].lease # "live"
  BY <1>1 DEF Leasable
<1>7. worker' = [worker EXCEPT ![w] = c]
  BY <1>1, <1>5
<1>8. /\ outbox' \in Seq(Event) /\ Len(outbox') = Len(outbox)
      /\ handed' \in Seq(Nat) /\ Len(handed') = Len(handed)
  BY <1>2, Sequences
<1>. QED BY <1>1, <1>2, <1>3, <1>5, <1>6, <1>7, <1>8, ConsumerMoves

Leased(e, n) == [e EXCEPT !.attempts = n, !.lease = "live"]
Holding(c, n) == [c EXCEPT !.pc = "leased", !.token = n]

Handed(c) == [c EXCEPT !.pc = "handed"]

LEMMA RowTypes ==
  /\ \A e \in Event, n \in 0 .. MaxAttempts :
       /\ Leased(e, n) \in Event /\ Leased(e, n).attempts = n /\ Leased(e, n).done = e.done
  /\ \A c \in Consumer, n \in 0 .. MaxAttempts :
       /\ Holding(c, n) \in Consumer /\ Holding(c, n).pc = "leased"
       /\ Holding(c, n).event = c.event
  /\ \A c \in Consumer :
       Handed(c) \in Consumer /\ Handed(c).pc = "handed" /\ Handed(c).event = c.event
<1>1. ASSUME NEW e \in Event, NEW n \in 0 .. MaxAttempts
      PROVE  Leased(e, n) \in Event /\ Leased(e, n).attempts = n /\ Leased(e, n).done = e.done
  BY DEF Leased, Event
<1>2. ASSUME NEW c \in Consumer, NEW n \in 0 .. MaxAttempts
      PROVE  /\ Holding(c, n) \in Consumer /\ Holding(c, n).pc = "leased"
             /\ Holding(c, n).event = c.event
  BY DEF Holding, Consumer
<1>3. ASSUME NEW c \in Consumer
      PROVE  Handed(c) \in Consumer /\ Handed(c).pc = "handed" /\ Handed(c).event = c.event
  BY DEF Handed, Consumer
<1>. QED BY <1>1, <1>2, <1>3

\* Nobody else selected the event that consumer w works on.
LEMMA Alone ==
  ASSUME IInv, NEW w \in Workers, worker[w].pc = "selected", NEW u \in Workers \ {w},
         worker[u].pc = "selected"
  PROVE  worker[u].event # worker[w].event
BY DEF IInv, LeasesOK

\* One event of the outbox is changed.
LEMMA OneEvent ==
  ASSUME IInv, NEW i \in 1 .. Len(audit), NEW e \in Event, outbox' = [outbox EXCEPT ![i] = e]
  PROVE  /\ outbox' \in Seq(Event) /\ Len(outbox') = Len(outbox) /\ outbox'[i] = e
         /\ \A j \in 1 .. Len(audit) : j # i => outbox'[j] = outbox[j]
<1>1. outbox \in Seq(Event) /\ Len(outbox) = Len(audit)
  BY Sequences
<1>. QED BY <1>1, ExceptSeq

LEMMA StampStep ==
  ASSUME IInv, NEW w \in Workers, Stamp(w)
  PROVE  IInv'
<1>. DEFINE i == worker[w].event
            n == outbox[i].attempts + 1
<1>1. /\ worker[w].pc = "selected" /\ UNCHANGED <<store, handed, answers>>
      /\ outbox' = [outbox EXCEPT ![i].attempts = n, ![i].lease = "live"]
      /\ worker' = [worker EXCEPT ![w].pc = "leased", ![w].token = n]
  BY DEF Stamp
<1>2. /\ i \in 1 .. Len(audit) /\ i \in 0 .. Len(audit) /\ i \in DOMAIN outbox
      /\ outbox[i] \in Event /\ outbox[i].attempts < MaxAttempts
  BY <1>1, AtWork, Sequences
<1>3. n \in 0 .. MaxAttempts
  BY <1>2, StoreAssumptions DEF Event
<1>4. worker[w] \in Consumer /\ worker \in [Workers -> Consumer]
  BY DEF IInv, WorkerTypes
<1>5. outbox' = [outbox EXCEPT ![i] = Leased(outbox[i], n)]
  BY <1>1, <1>2 DEF Leased
<1>6. worker' = [worker EXCEPT ![w] = Holding(worker[w], n)]
  BY <1>1, <1>4 DEF Holding
<1>7. Leased(outbox[i], n) \in Event
  BY <1>2, <1>3, RowTypes
<1>8. /\ Holding(worker[w], n) \in Consumer /\ Holding(worker[w], n).pc = "leased"
      /\ Holding(worker[w], n).event = i
  BY <1>3, <1>4, RowTypes
<1>9. /\ outbox' \in Seq(Event) /\ Len(outbox') = Len(outbox)
      /\ \A j \in 1 .. Len(audit) : j # i => outbox'[j] = outbox[j]
  BY <1>2, <1>5, <1>7, OneEvent
<1>10. \A u \in Workers \ {w} : worker[u].pc = "selected" =>
         outbox'[worker[u].event] = outbox[worker[u].event]
  BY <1>1, <1>9, Alone, AtWork
<1>11. handed' \in Seq(Nat) /\ Len(handed') = Len(handed)
  BY <1>1, Sequences
<1>12. PICK c \in Consumer : c = Holding(worker[w], n) /\ c.pc = "leased" /\ c.event = i
  BY <1>8
<1>13. worker' = [worker EXCEPT ![w] = c] /\ UNCHANGED <<store, answers>>
  BY <1>1, <1>6, <1>12
<1>. HIDE DEF n
<1>. QED BY <1>2, <1>9, <1>10, <1>11, <1>12, <1>13, ConsumerMoves

LEMMA HandOverStep ==
  ASSUME IInv, NEW w \in Workers, HandOver(w)
  PROVE  IInv'
<1>. DEFINE i == worker[w].event
<1>1. /\ worker[w].pc = "leased" /\ UNCHANGED <<store, outbox, answers>>
      /\ worker' = [worker EXCEPT ![w] = Handed(worker[w])]
      /\ handed' = [handed EXCEPT ![i] = @ + 1]
  BY DEF HandOver, Handed, IInv, WorkerTypes
<1>2. i \in 1 .. Len(audit) /\ i \in 0 .. Len(audit) /\ i \in DOMAIN outbox
  BY <1>1, AtWork, Sequences
<1>3. /\ handed \in Seq(Nat) /\ Len(handed) = Len(audit) /\ outbox \in Seq(Event)
      /\ handed[i] + 1 \in Nat
  <2>1. handed \in Seq(Nat) /\ Len(handed) = Len(audit) /\ outbox \in Seq(Event)
    BY Sequences
  <2>2. handed[i] \in Nat
    BY <1>2, <2>1, ElementOfSeq
  <2>. QED BY <2>1, <2>2
<1>4. handed' \in Seq(Nat) /\ Len(handed') = Len(handed)
  BY <1>1, <1>2, <1>3, ExceptSeq
<1>5. worker[w] \in Consumer
  BY DEF IInv, WorkerTypes
<1>6. PICK c \in Consumer : c = Handed(worker[w]) /\ c.pc = "handed" /\ c.event = i
  BY <1>5, RowTypes
<1>7. worker' = [worker EXCEPT ![w] = c] /\ UNCHANGED <<store, answers>>
  BY <1>1, <1>6
<1>. QED BY <1>1, <1>2, <1>3, <1>4, <1>6, <1>7, ConsumerMoves

Settled(e) == [e EXCEPT !.done = TRUE]

LEMMA AcknowledgeStep ==
  ASSUME IInv, NEW w \in Workers, Acknowledge(w)
  PROVE  IInv'
<1>. DEFINE i == worker[w].event
<1>1. /\ worker[w].pc = "handed" /\ ~RowLocked(i) /\ UNCHANGED <<store, handed, answers>>
      /\ outbox' = IF Holds(w) THEN [outbox EXCEPT ![i].done = TRUE] ELSE outbox
      /\ worker' = [worker EXCEPT ![w] = Free]
  BY DEF Acknowledge
<1>2. i \in 1 .. Len(audit) /\ outbox \in Seq(Event) /\ outbox[i] \in Event
  BY <1>1, AtWork, Sequences
<1>3. /\ outbox' \in Seq(Event) /\ Len(outbox') = Len(outbox)
      /\ \A j \in 1 .. Len(audit) : j # i => outbox'[j] = outbox[j]
  <2>1. CASE Holds(w)
    <3>1. Settled(outbox[i]) \in Event
      BY <1>2 DEF Settled, Event
    <3>2. outbox' = [outbox EXCEPT ![i] = Settled(outbox[i])]
      BY <1>1, <1>2, <2>1 DEF Settled
    <3>. QED BY <1>2, <3>1, <3>2, OneEvent
  <2>2. CASE ~Holds(w)
    BY <1>1, <1>2, <2>2
  <2>. QED BY <2>1, <2>2
<1>4. \A u \in Workers : worker[u].pc = "selected" => worker[u].event # i
  BY <1>1 DEF RowLocked
<1>5. \A u \in Workers \ {w} : worker[u].pc = "selected" =>
        outbox'[worker[u].event] = outbox[worker[u].event]
  BY <1>3, <1>4, AtWork
<1>6. handed' \in Seq(Nat) /\ Len(handed') = Len(handed) /\ UNCHANGED <<store, answers>>
  BY <1>1, Sequences
<1>7. Free.event \in 0 .. Len(audit)
  BY FreeConsumer, Sequences
<1>. QED BY <1>1, <1>3, <1>5, <1>6, <1>7, FreeConsumer, ConsumerMoves

LEMMA CrashStep ==
  ASSUME IInv, NEW w \in Workers, Crash(w)
  PROVE  IInv'
<1>1. worker' = [worker EXCEPT ![w] = Free] /\ UNCHANGED <<store, outbox, handed, answers>>
  BY DEF Crash
<1>2. /\ outbox' \in Seq(Event) /\ Len(outbox') = Len(outbox)
      /\ handed' \in Seq(Nat) /\ Len(handed') = Len(handed)
  BY <1>1, Sequences
<1>3. Free.event \in 0 .. Len(audit)
  BY FreeConsumer, Sequences
<1>. QED BY <1>1, <1>2, <1>3, FreeConsumer, ConsumerMoves

Lapsed(e) == [e EXCEPT !.lease = "expired"]

LEMMA ExpireStep ==
  ASSUME IInv, NEW i \in DOMAIN outbox, Expire(i)
  PROVE  IInv'
<1>1. /\ outbox[i].lease = "live" /\ UNCHANGED <<store, worker, handed, answers>>
      /\ outbox' = [outbox EXCEPT ![i].lease = "expired"]
  BY DEF Expire
<1>2. i \in 1 .. Len(audit) /\ outbox[i] \in Event /\ outbox \in Seq(Event)
  BY Sequences
<1>3. outbox' = [outbox EXCEPT ![i] = Lapsed(outbox[i])] /\ Lapsed(outbox[i]) \in Event
  BY <1>1, <1>2 DEF Lapsed, Event
<1>4. /\ outbox' \in Seq(Event) /\ Len(outbox') = Len(outbox)
      /\ \A j \in 1 .. Len(audit) : j # i => outbox'[j] = outbox[j]
  BY <1>2, <1>3, OneEvent
<1>5. UNCHANGED <<record, request, audit, answers, worker, handed>>
  BY <1>1 DEF store
<1>6. StoreTypes' /\ AuditOK' /\ RequestsOK' /\ OutboxTypes' /\ WorkerTypes'
  <2>1. AuditOK'
    BY <1>5, AuditStays DEF IInv
  <2>2. StoreTypes' /\ RequestsOK'
    BY <1>5 DEF IInv, StoreTypes, RequestsOK
  <2>. QED BY <1>4, <1>5, <2>1, <2>2 DEF IInv, OutboxTypes, WorkerTypes
<1>7. DOMAIN outbox' = DOMAIN outbox
  BY <1>4, Sequences
<1>8. \A u \in Workers : worker[u].pc = "selected" =>
        outbox'[worker[u].event] = outbox[worker[u].event]
  BY <1>1, <1>4, AtWork
<1>9. LeasesOK'
  BY <1>5, <1>7, <1>8 DEF IInv, LeasesOK
<1>. QED BY <1>6, <1>9 DEF IInv

\* ---- The theorems --------------------------------------------------------------------

LEMMA Initially == Init => IInv
<1>. SUFFICES ASSUME Init PROVE IInv
  OBVIOUS
<1>1. StoreTypes /\ OutboxTypes
  BY DEF Init, StoreTypes, OutboxTypes
<1>2. WorkerTypes /\ LeasesOK
  BY FreeConsumer DEF Init, WorkerTypes, LeasesOK
<1>3. AuditOK /\ RequestsOK
  BY DEF Init, AuditOK, RequestsOK, Stored
<1>. QED BY <1>1, <1>2, <1>3 DEF IInv

LEMMA Stuttering ==
  ASSUME IInv, UNCHANGED vars
  PROVE  IInv'
<1>1. UNCHANGED <<record, request, audit, outbox, worker, handed, answers>>
  BY DEF vars, store
<1>2. AuditOK'
  BY <1>1, AuditStays DEF IInv
<1>. QED BY <1>1, <1>2 DEF IInv, StoreTypes, OutboxTypes, WorkerTypes, RequestsOK, LeasesOK

LEMMA Inductive == IInv /\ [Next]_vars => IInv'
<1>. SUFFICES ASSUME IInv, [Next]_vars PROVE IInv'
  OBVIOUS
<1>1. ASSUME NEW k \in Commands, NEW a \in Ask, NEW heard \in BOOLEAN,
             a.expected < MaxRevision, Put(k, a, heard)
      PROVE  IInv'
  BY <1>1, PutStep
<1>2. ASSUME NEW k \in Commands, NEW a \in Ask, Replay(k, a)
      PROVE  IInv'
  BY <1>2, ReplayStep
<1>3. ASSUME NEW s \in Snapshots, Import(s)
      PROVE  IInv'
  BY <1>3, ImportStep
<1>4. ASSUME NEW w \in Workers, Consume(w) \/ Crash(w)
      PROVE  IInv'
  BY <1>4, SelectStep, StampStep, HandOverStep, AcknowledgeStep, CrashStep DEF Consume
<1>5. ASSUME NEW i \in DOMAIN outbox, Expire(i)
      PROVE  IInv'
  BY <1>5, ExpireStep
<1>6. CASE UNCHANGED vars
  BY <1>6, Stuttering
<1>. QED BY <1>1, <1>2, <1>3, <1>4, <1>5, <1>6 DEF Next

\* The invariant holds in every state, whatever mix of puts, replays, imports and
\* consumers ran, and wherever a consumer died.
THEOREM Invariance == Spec => []IInv
BY Initially, Inductive, PTL DEF Spec

\* Every variable keeps its type; events, entries and deliveries stay in step.
THEOREM TypeCorrect == Spec => []TypeOK
<1>1. IInv => TypeOK
  <2>. SUFFICES ASSUME IInv PROVE TypeOK
    OBVIOUS
  <2>1. /\ worker \in [Workers -> Consumer]
        /\ \A w \in Workers : worker[w].event \in 0 .. Len(audit)
    BY DEF IInv, WorkerTypes
  <2>2. \A w \in Workers : worker[w] \in [pc : {"idle", "selected", "leased", "handed"},
                                          event : 0 .. Len(audit), token : 0 .. MaxAttempts]
    BY <2>1 DEF Consumer
  <2>3. worker \in [Workers -> [pc : {"idle", "selected", "leased", "handed"},
                                event : 0 .. Len(audit), token : 0 .. MaxAttempts]]
    BY <2>1, <2>2
  <2>. QED BY <2>3 DEF IInv, StoreTypes, OutboxTypes, Event, TypeOK
<1>. QED BY <1>1, Invariance, PTL

\* The audit tells every record's whole past, whatever mix of commands, retries
\* and imports wrote it (put, import_sqlite_snapshot).
THEOREM WholeHistory == Spec => []HistoryComplete
<1>1. IInv => HistoryComplete
  BY DEF IInv, OutboxTypes, AuditOK, EntryOK, HistoryComplete
<1>. QED BY <1>1, Invariance, PTL

\* Everyone who asks under one command is told the same committed revision, the
\* one asked for, however far the record moved on since (the replay in put).
THEOREM DurableAnswers == Spec => []AnswersAreDurable
<1>1. ASSUME IInv
      PROVE  AnswersAreDurable
  <2>1. ASSUME NEW x \in answers
        PROVE  /\ x.command \in Commands /\ request[x.command] # None
               /\ request[x.command].ask = x.ask /\ request[x.command].result = x.result
    BY <1>1 DEF IInv, StoreTypes, RequestsOK
  <2>2. ASSUME NEW x \in answers
        PROVE  /\ \E i \in DOMAIN audit : audit[i] = x.result
               /\ x.result = ResultOf(x.ask)
    BY <1>1, <2>1 DEF IInv, RequestsOK
  <2>. QED BY <2>1, <2>2 DEF AnswersAreDurable, ResultOf
<1>. QED BY <1>1, Invariance, PTL

\* What a step does to an event that is there: no step but a stamp counts an
\* attempt, and no step but an acknowledgement settles.
LEMMA EventStep ==
  ASSUME IInv, [Next]_vars, NEW i \in DOMAIN outbox
  PROVE  /\ outbox'[i].attempts # outbox[i].attempts =>
              \E w \in Workers : Stamp(w) /\ worker[w].event = i
         /\ ~outbox[i].done /\ outbox'[i].done =>
              \E w \in Workers : Acknowledge(w) /\ worker[w].event = i /\ Holds(w)
<1>1. i \in 1 .. Len(audit) /\ outbox \in Seq(Event)
  BY Sequences
<1>2. ASSUME NEW entries \in Seq(Entry), Publish(entries)
      PROVE  outbox'[i] = outbox[i]
  BY <1>1, <1>2, Published
<1>3. ASSUME NEW k \in Commands, NEW a \in Ask, NEW heard \in BOOLEAN, Put(k, a, heard)
      PROVE  outbox'[i] = outbox[i]
  <2>1. Publish(<<ResultOf(a)>>)
    BY <1>3 DEF Put, ResultOf
  <2>2. <<ResultOf(a)>> \in Seq(Entry)
    BY StoreAssumptions DEF ResultOf, Entry, Ask
  <2>. QED BY <1>2, <2>1, <2>2
<1>4. ASSUME NEW s \in Snapshots, Import(s)
      PROVE  outbox'[i] = outbox[i]
  <2>. DEFINE added == {e \in s : Fresh(e)}
  <2>1. PICK entries \in Bijection(1 .. Cardinality(added), added) : Publish(entries)
    BY <1>4 DEF Import
  <2>2. added \subseteq Entry /\ Cardinality(added) \in Nat
    BY StoreAssumptions, FS_Subset, FS_CardinalityType
  <2>. HIDE DEF added
  <2>3. entries \in [1 .. Cardinality(added) -> added]
    BY <2>1 DEF Bijection, Injection
  <2>4. entries \in Seq(Entry)
    BY <2>2, <2>3
  <2>. QED BY <1>2, <2>1, <2>4
<1>5. ASSUME NEW w \in Workers, Stamp(w)
      PROVE  /\ outbox'[i].attempts # outbox[i].attempts => worker[w].event = i
             /\ outbox'[i].done = outbox[i].done
  <2>1. outbox' = [outbox EXCEPT ![worker[w].event].attempts = outbox[worker[w].event].attempts + 1,
                                 ![worker[w].event].lease = "live"]
    BY <1>5 DEF Stamp
  <2>2. outbox[i] \in Event /\ outbox[worker[w].event] \in Event
        /\ worker[w].event \in DOMAIN outbox
    BY <1>5, AtWork, Sequences DEF Stamp
  <2>3. worker[w].event # i => outbox'[i] = outbox[i]
    BY <2>1, <2>2
  <2>4. worker[w].event = i => outbox'[i].done = outbox[i].done
    BY <2>1, <2>2 DEF Event
  <2>. QED BY <2>3, <2>4
<1>6. ASSUME NEW w \in Workers, Acknowledge(w)
      PROVE  /\ outbox'[i].attempts = outbox[i].attempts
             /\ outbox'[i].done # outbox[i].done => worker[w].event = i /\ Holds(w)
  <2>1. outbox' = IF Holds(w) THEN [outbox EXCEPT ![worker[w].event].done = TRUE] ELSE outbox
    BY <1>6 DEF Acknowledge
  <2>2. outbox[i] \in Event
    BY Sequences
  <2>. QED BY <1>1, <2>1, <2>2 DEF Event
<1>7. ASSUME NEW j \in DOMAIN outbox, Expire(j)
      PROVE  outbox'[i].attempts = outbox[i].attempts /\ outbox'[i].done = outbox[i].done
  <2>1. outbox' = [outbox EXCEPT ![j].lease = "expired"] /\ outbox[i] \in Event
    BY <1>7, Sequences DEF Expire
  <2>. QED BY <1>1, <2>1 DEF Event
<1>8. ASSUME UNCHANGED outbox
      PROVE  outbox'[i] = outbox[i]
  BY <1>8
<1>9. CASE \E k \in Commands, a \in Ask, heard \in BOOLEAN : a.expected < MaxRevision /\ Put(k, a, heard)
  BY <1>3, <1>9
<1>10. CASE \E s \in Snapshots : Import(s)
  BY <1>4, <1>10
<1>11. CASE \E w \in Workers : Stamp(w)
  BY <1>5, <1>11
<1>12. CASE \E w \in Workers : Acknowledge(w)
  BY <1>6, <1>12
<1>13. CASE \E j \in DOMAIN outbox : Expire(j)
  BY <1>7, <1>13
<1>14. CASE \/ \E k \in Commands, a \in Ask : Replay(k, a)
            \/ \E w \in Workers : Select(w) \/ HandOver(w) \/ Crash(w)
            \/ UNCHANGED vars
  BY <1>8, <1>14 DEF Replay, Select, HandOver, Crash, vars
<1>. QED BY <1>9, <1>10, <1>11, <1>12, <1>13, <1>14 DEF Next, Consume

\* A further attempt at an event starts only when the lease before it has run out
\* and nobody acknowledged: between the two statements of lease the row stays
\* locked (SKIP LOCKED).
THEOREM ExclusiveLease == Spec => LeaseIsExclusive
<1>1. ASSUME IInv, [Next]_vars, NEW i \in DOMAIN outbox, outbox'[i].attempts # outbox[i].attempts
      PROVE  outbox[i].lease # "live" /\ ~outbox[i].done
  <2>1. PICK w \in Workers : Stamp(w) /\ worker[w].event = i
    BY <1>1, EventStep
  <2>2. worker[w].pc = "selected"
    BY <2>1 DEF Stamp
  <2>. QED BY <1>1, <2>1, <2>2, AtWork
<1>2. IInv /\ [Next]_vars =>
        [\A i \in DOMAIN outbox : outbox'[i].attempts # outbox[i].attempts
           => outbox[i].lease # "live" /\ ~outbox[i].done]_vars
  BY <1>1
<1>. QED BY <1>2, Invariance, PTL DEF Spec, LeaseIsExclusive

\* Whoever settles an event holds its current, unexpired attempt and has handed
\* it over, however slow it was (the WHERE clause of acknowledge).
THEOREM HolderSettles == Spec => SettledByHolder
<1>1. ASSUME IInv, [Next]_vars, NEW i \in DOMAIN outbox, ~outbox[i].done, outbox'[i].done
      PROVE  /\ outbox[i].lease = "live"
             /\ \E w \in Workers :
                  /\ worker[w].pc = "handed" /\ worker'[w].pc = "idle"
                  /\ worker[w].event = i /\ worker[w].token = outbox[i].attempts
  <2>1. PICK w \in Workers : Acknowledge(w) /\ worker[w].event = i /\ Holds(w)
    BY <1>1, EventStep
  <2>2. worker[w].pc = "handed" /\ worker' = [worker EXCEPT ![w] = Free]
    BY <2>1 DEF Acknowledge
  <2>3. worker'[w].pc = "idle"
    BY <1>1, <2>2, FreeConsumer DEF IInv, WorkerTypes
  <2>. QED BY <2>1, <2>2, <2>3 DEF Holds
<1>2. IInv /\ [Next]_vars =>
        [\A i \in DOMAIN outbox : ~outbox[i].done /\ outbox'[i].done
           => /\ outbox[i].lease = "live"
              /\ \E w \in Workers :
                   /\ worker[w].pc = "handed" /\ worker'[w].pc = "idle"
                   /\ worker[w].event = i /\ worker[w].token = outbox[i].attempts]_vars
  BY <1>1
<1>. QED BY <1>2, Invariance, PTL DEF Spec, SettledByHolder

=============================================================================
