------------------------- MODULE TeamRegistryProofs -------------------------
(* Theorems about TeamRegistry: for any tasks, paths, processes and number of *)
(* retries, claims exclude each other, answers are true, work rests on        *)
(* finished work, and the processes together implement TaskBoard.             *)
(*                                                                            *)
(* The argument follows the pushes: the register only grows, so a push that   *)
(* is accepted finds it as it was fetched.  What a copy of the register       *)
(* satisfied when it was made (Good), and how it followed from the register   *)
(* then (Follows), still holds when it arrives, however late.                 *)
EXTENDS TeamRegistry, TLAPS

\* ---- Paths ------------------------------------------------------------------

LEMMA PrefixFacts ==
  ASSUME NEW a \in Seq(STRING), NEW b \in Seq(STRING)
  PROVE  IsPrefix(a, b) <=> Len(a) <= Len(b) /\ \A i \in 1 .. Len(a) : a[i] = b[i]
<1>1. CASE Len(a) <= Len(b)
  <2>1. /\ SubSeq(a, 1, Len(a)) = [i \in 1 .. Len(a) |-> a[i]]
        /\ SubSeq(b, 1, Len(a)) = [i \in 1 .. Len(a) |-> b[i]]
    BY <1>1
  <2>. QED BY <1>1, <2>1 DEF IsPrefix
<1>. QED BY <1>1 DEF IsPrefix

\* Two paths above the same path lie above each other.
LEMMA Comparable ==
  ASSUME NEW a \in Scopes, NEW b \in Scopes, NEW path \in Scopes,
         Covers(a, path), Covers(b, path)
  PROVE  Overlap(a, b)
<1>1. a \in Seq(STRING) /\ b \in Seq(STRING) /\ path \in Seq(STRING)
  BY RegistryAssumptions
<1>2. /\ Len(a) <= Len(path) /\ \A i \in 1 .. Len(a) : a[i] = path[i]
      /\ Len(b) <= Len(path) /\ \A i \in 1 .. Len(b) : b[i] = path[i]
  BY <1>1, PrefixFacts DEF Covers
<1>3. CASE Len(a) <= Len(b)
  BY <1>1, <1>2, <1>3, PrefixFacts DEF Overlap, Covers
<1>4. CASE Len(b) <= Len(a)
  BY <1>1, <1>2, <1>4, PrefixFacts DEF Overlap, Covers
<1>. QED BY <1>1, <1>3, <1>4

LEMMA CoversItself ==
  ASSUME NEW a \in Scopes
  PROVE  Covers(a, a)
BY RegistryAssumptions, PrefixFacts DEF Covers

\* Scopes of which no two overlap reserve disjoint areas.
LEMMA DisjointAreas ==
  ASSUME NEW left \in SUBSET Scopes, NEW right \in SUBSET Scopes,
         \A a \in left, b \in right : ~Overlap(a, b)
  PROVE  Area(left) \cap Area(right) = {}
BY Comparable DEF Area

LEMMA AreaNotEmpty ==
  ASSUME NEW scopes \in SUBSET Scopes, scopes # {}
  PROVE  Area(scopes) # {} /\ Area(scopes) \subseteq Scopes
BY CoversItself DEF Area

\* ---- What a command does to its task ---------------------------------------

Asked == [client : Clients, ask : Ask, claim : Ops, stored : BOOLEAN, answer : Answers]

Pull == [state : {"none", "OPEN", "MERGED", "CLOSED"}, head : 0 .. MaxHead]

LEMMA UnclaimedTask == Unclaimed \in Task
BY RegistryAssumptions DEF Task, Unclaimed, Ops

\* The three commands that need a claim and do not rest on the pull request.
LEMMA TaskKept ==
  ASSUME NEW task \in Task, NEW scopes \in SUBSET Scopes
  PROVE  LET rescoped == [task EXCEPT !.scopes = scopes]
             blocked  == [task EXCEPT !.status = "blocked", !.scopes = {}]
             done     == [task EXCEPT !.status = "done", !.scopes = {}]
         IN  /\ rescoped \in Task /\ rescoped.status = task.status /\ rescoped.scopes = scopes
             /\ blocked \in Task /\ blocked.status = "blocked" /\ blocked.scopes = {}
             /\ done \in Task /\ done.status = "done" /\ done.scopes = {}
             /\ done.pr = task.pr /\ done.head = task.head
             /\ \A n \in {rescoped, blocked, done} :
                  n.owner = task.owner /\ n.claim = task.claim /\ n.branch = task.branch
BY DEF Task

Reviewed(task, p, head) == [task EXCEPT !.status = "review", !.pr = p, !.head = head]

LEMMA TaskReviewed ==
  ASSUME NEW task \in Task, NEW p \in Pulls, NEW head \in 0 .. MaxHead
  PROVE  LET n == Reviewed(task, p, head)
         IN  /\ n \in Task /\ n.status = "review" /\ n.scopes = task.scopes
             /\ n.owner = task.owner /\ n.claim = task.claim /\ n.branch = task.branch
BY DEF Task, Reviewed

LEMMA TaskReleased ==
  ASSUME NEW claim \in Ops
  PROVE  LET n == [Unclaimed EXCEPT !.claim = claim]
         IN  /\ n \in Task /\ n.status = "planned" /\ n.owner = None /\ n.scopes = {}
             /\ n.claim = claim
BY UnclaimedTask DEF Task, Unclaimed

LEMMA TaskClaimed ==
  ASSUME NEW w \in Workers, NEW b \in Branches \cup {None}, NEW scopes \in SUBSET Scopes,
         NEW op \in Ops
  PROVE  [status |-> "claimed", owner |-> w, branch |-> b, scopes |-> scopes, claim |-> op,
          pr |-> None, head |-> 0] \in Task
BY RegistryAssumptions DEF Task, Ops

\* ---- What every copy of the register satisfies ------------------------------

\* The process, the task and the change of operation op.
By(op)     == WorkerOf[asked[op].client]
On(op)     == asked[op].ask.task
What(op)   == asked[op].ask.action

Prerequisites(tasks) ==
  \A t \in Tasks : tasks[t].status \in Active \cup {"done"} => DependenciesDone(tasks, t)

AsReviewed(task) ==
  /\ task.pr # None /\ HeadBranch[task.pr] = task.branch
  /\ pull[task.pr] = [state |-> "MERGED", head |-> task.head]

Merged(tasks) == \A t \in Tasks : tasks[t].status = "done" => AsReviewed(tasks[t])

\* Event j of the first n made claim k of task t for worker w, and nothing has
\* ended it since.
ClaimedAt(events, n, j, t, k, w) ==
  /\ events[j].action = "claim" /\ events[j].op = k
  /\ events[j].task = t /\ events[j].worker = w
  /\ \A i \in j + 1 .. n :
       events[i].task = t => events[i].action \notin {"claim", "release", "complete"}

Claimed(events, n, t, k, w) == \E j \in 1 .. n : ClaimedAt(events, n, j, t, k, w)

\* A claimed task is held under the latest claim the events tell of.
Held(s) ==
  \A t \in Tasks : s.tasks[t].status \in Active \cup {"blocked"} =>
    Claimed(s.events, Len(s.events), t, s.tasks[t].claim, s.tasks[t].owner)

UnderClaims(events) ==
  \A i \in 1 .. Len(events) : events[i].action # "claim" =>
    /\ events[i].claim = asked[events[i].op].claim
    /\ Claimed(events, i - 1, events[i].task, events[i].claim, events[i].worker)

EachOnce(events) ==
  /\ \A i \in 1 .. Len(events) : events[i].op \in DOMAIN asked
  /\ \A i, j \in 1 .. Len(events) : events[i].op = events[j].op => i = j

Good(s) ==
  /\ ValidState(s.tasks) /\ Prerequisites(s.tasks) /\ Merged(s.tasks)
  /\ EachOnce(s.events) /\ Held(s) /\ UnderClaims(s.events)

\* ---- A command that is permitted ---------------------------------------------

Types == register \in Register /\ asked \in Seq(Asked) /\ Len(asked) <= MaxOps
           /\ pull \in [Pulls -> Pull]

\* The event of operation op, which left its task as n.
EventOf(op, n) == [op |-> op, action |-> What(op), task |-> On(op), worker |-> By(op),
                   branch |-> n.branch, claim |-> n.claim]

\* The changes of a task that need its claim.
Keeps(op, task, n) ==
  /\ task.owner = By(op) /\ asked[op].claim = task.claim /\ n.claim = task.claim
  /\ What(op) \in {"heartbeat", "rescope", "block", "review", "complete"} =>
       task.status \in Active /\ n.owner = task.owner /\ n.branch = task.branch
  /\ What(op) \in {"heartbeat", "rescope"} => n.status = task.status
  /\ What(op) = "heartbeat" => n = task
  /\ What(op) = "rescope"  => n.scopes = AllScopes(asked[op].ask) /\ n.scopes # {}
  /\ What(op) = "block"    => n.status = "blocked" /\ n.scopes = {}
  /\ What(op) = "release"  => /\ task.status \in Active \cup {"blocked"}
                              /\ n.status = "planned" /\ n.owner = None /\ n.scopes = {}
  /\ What(op) = "review"   => n.status = "review" /\ n.scopes = task.scopes
  /\ What(op) = "complete" => task.status = "review" /\ n.status = "done" /\ n.scopes = {}

\* How a permitted command changes its task.
Turns(op, task, n) ==
  IF What(op) = "claim"
  THEN /\ task.status = "planned" /\ n.status = "claimed" /\ n.owner = By(op)
       /\ n.claim = op /\ n.scopes = AllScopes(asked[op].ask) /\ n.scopes # {}
  ELSE Keeps(op, task, n)

LEMMA AskedTypes ==
  ASSUME Types, NEW op \in DOMAIN asked
  PROVE  /\ op \in Ops \ {0} /\ On(op) \in Tasks /\ What(op) \in Actions /\ By(op) \in Workers
         /\ asked[op].client \in Clients /\ asked[op].claim \in Ops
         /\ asked[op].ask \in Ask /\ asked[op].answer \in Answers
         /\ AllScopes(asked[op].ask) \in SUBSET Scopes
<1>1. asked[op] \in Asked /\ op \in 1 .. MaxOps
  BY RegistryAssumptions DEF Types
<1>2. /\ asked[op].client \in Clients /\ asked[op].claim \in Ops /\ asked[op].ask \in Ask
      /\ asked[op].answer \in Answers
  BY <1>1 DEF Asked
<1>3. On(op) \in Tasks /\ What(op) \in Actions /\ asked[op].ask.scopes \in SUBSET Scopes
  BY <1>2 DEF Ask, On, What
<1>. QED BY <1>1, <1>2, <1>3, RegistryAssumptions DEF By, AllScopes, On, Ops

LEMMA Turned ==
  ASSUME Types, NEW s \in Register, NEW op \in DOMAIN asked, Permitted(s, op)
  PROVE  LET task == s.tasks[On(op)]
             n    == Changed(task, By(op), asked[op].ask, op)
         IN  /\ n \in Task /\ Turns(op, task, n)
             /\ What(op) \in {"claim", "review", "complete"} => DependenciesDone(s.tasks, On(op))
             /\ What(op) = "complete" => AsReviewed(n)
<1>. DEFINE x == asked[op].ask
            task == s.tasks[On(op)]
            n == Changed(task, By(op), x, op)
<1>0. /\ task \in Task /\ x \in Ask /\ op \in Ops \ {0} /\ On(op) \in Tasks /\ By(op) \in Workers
      /\ AllScopes(x) \in SUBSET Scopes /\ asked[op].claim \in Ops /\ What(op) \in Actions
  BY AskedTypes DEF Register
<1>1. CASE What(op) = "claim"
  <2>1. MayClaim(s, x)
    BY <1>1 DEF Permitted, What
  <2>2. /\ task.status = "planned" /\ DependenciesDone(s.tasks, On(op)) /\ AllScopes(x) # {}
    BY <2>1 DEF MayClaim, On
  <2>3. n = [status |-> "claimed", owner |-> By(op), branch |-> x.branch, scopes |-> AllScopes(x),
             claim |-> op, pr |-> None, head |-> 0]
    BY <1>1 DEF Changed, What
  <2>4. x.branch \in Branches \cup {None}
    BY <1>0 DEF Ask
  <2>5. n \in Task
    BY <1>0, <2>3, <2>4, TaskClaimed
  <2>6. n.status = "claimed" /\ n.owner = By(op) /\ n.claim = op /\ n.scopes = AllScopes(x)
    BY <2>3
  <2>. QED BY <1>1, <2>2, <2>5, <2>6 DEF Turns
<1>2. CASE What(op) # "claim"
  <2>1. MayTransition(s, By(op), x, asked[op].claim)
    BY <1>2 DEF Permitted, What, By
  <2>2. /\ task.owner = By(op) /\ asked[op].claim = task.claim
        /\ What(op) = "release" => task.status \in Active \cup {"blocked"}
        /\ What(op) # "release" => task.status \in Active
        /\ What(op) = "rescope" => AllScopes(x) # {}
        /\ What(op) \in {"review", "complete"} =>
             DependenciesDone(s.tasks, On(op)) /\ Evidence(task, x.pr)
        /\ What(op) = "complete" => /\ task.status = "review" /\ task.pr = x.pr
                                    /\ MergedAtReviewedHead(task, x.pr)
    BY <2>1 DEF MayTransition, Own, SameClaim, What, On
  <2>3. CASE What(op) = "heartbeat"
    <3>1. n = task
      BY <2>3 DEF Changed, What
    <3>. QED BY <1>0, <1>2, <2>2, <2>3, <3>1 DEF Turns, Keeps
  <2>4. CASE What(op) = "rescope"
    <3>1. n = [task EXCEPT !.scopes = AllScopes(x)]
      BY <2>4 DEF Changed, What
    <3>. HIDE DEF n
    <3>2. /\ n \in Task /\ n.status = task.status /\ n.scopes = AllScopes(x)
          /\ n.owner = task.owner /\ n.claim = task.claim /\ n.branch = task.branch
      BY <1>0, <3>1, TaskKept
    <3>. QED BY <1>2, <2>2, <2>4, <3>2 DEF Turns, Keeps, n
  <2>5. CASE What(op) = "block"
    <3>1. n = [task EXCEPT !.status = "blocked", !.scopes = {}]
      BY <2>5 DEF Changed, What
    <3>. HIDE DEF n
    <3>2. /\ n \in Task /\ n.status = "blocked" /\ n.scopes = {}
          /\ n.owner = task.owner /\ n.claim = task.claim /\ n.branch = task.branch
      BY <1>0, <3>1, TaskKept
    <3>. QED BY <1>2, <2>2, <2>5, <3>2 DEF Turns, Keeps, n
  <2>6. CASE What(op) = "release"
    <3>1. n = [Unclaimed EXCEPT !.claim = task.claim]
      BY <2>6 DEF Changed, What
    <3>2. task.claim \in Ops
      BY <1>0 DEF Task
    <3>. HIDE DEF n
    <3>3. /\ n \in Task /\ n.status = "planned" /\ n.owner = None /\ n.scopes = {}
          /\ n.claim = task.claim
      BY <3>1, <3>2, TaskReleased
    <3>. QED BY <1>2, <2>2, <2>6, <3>3 DEF Turns, Keeps, n
  <2>7. CASE What(op) = "review"
    <3>1. n = Reviewed(task, x.pr, pull[x.pr].head)
      BY <2>7 DEF Changed, What, Reviewed
    <3>2. x.pr \in Pulls /\ pull[x.pr].head \in 0 .. MaxHead
      BY <1>0, <2>2, <2>7 DEF Evidence, Ask, Types, Pull
    <3>. HIDE DEF n
    <3>3. /\ n \in Task /\ n.status = "review" /\ n.scopes = task.scopes
          /\ n.owner = task.owner /\ n.claim = task.claim /\ n.branch = task.branch
      BY <1>0, <3>1, <3>2, TaskReviewed
    <3>. QED BY <1>2, <2>2, <2>7, <3>3 DEF Turns, Keeps, n
  <2>8. CASE What(op) = "complete"
    <3>1. n = [task EXCEPT !.status = "done", !.scopes = {}]
      BY <2>8 DEF Changed, What
    <3>2. x.pr \in Pulls /\ pull[x.pr] \in Pull
      BY <1>0, <2>2, <2>8 DEF Evidence, Ask, Types
    <3>. HIDE DEF n
    <3>3. /\ n \in Task /\ n.status = "done" /\ n.scopes = {}
          /\ n.owner = task.owner /\ n.claim = task.claim /\ n.branch = task.branch
          /\ n.pr = task.pr /\ n.head = task.head
      BY <1>0, <3>1, TaskKept
    <3>4. pull[x.pr] = [state |-> "MERGED", head |-> n.head]
      BY <2>2, <2>8, <3>2, <3>3 DEF MergedAtReviewedHead, Pull
    <3>5. AsReviewed(n)
      BY <2>2, <2>8, <3>2, <3>3, <3>4, RegistryAssumptions DEF Evidence, AsReviewed
    <3>. QED BY <1>2, <2>2, <2>8, <3>3, <3>5 DEF Turns, Keeps, n
  <2>. QED BY <1>0, <2>3, <2>4, <2>5, <2>6, <2>7, <2>8, <1>2 DEF Actions
<1>. QED BY <1>1, <1>2

\* ---- Good copies make good copies --------------------------------------------

LEMMA Appended ==
  ASSUME NEW events \in Seq(Event), NEW e \in Event
  PROVE  /\ Append(events, e) \in Seq(Event) /\ Len(events) \in Nat
         /\ Len(Append(events, e)) = Len(events) + 1
         /\ Append(events, e)[Len(events) + 1] = e
         /\ \A i \in 1 .. Len(events) : Append(events, e)[i] = events[i]
OBVIOUS

LEMMA ClaimStays ==
  ASSUME NEW events \in Seq(Event), NEW e \in Event, NEW n \in 0 .. Len(events),
         NEW t, NEW k, NEW w, Claimed(events, n, t, k, w)
  PROVE  Claimed(Append(events, e), n, t, k, w)
<1>. DEFINE after == Append(events, e)
<1>1. \A i \in 1 .. n : after[i] = events[i]
  BY Appended
<1>2. PICK j \in 1 .. n : ClaimedAt(events, n, j, t, k, w)
  BY DEF Claimed
<1>. HIDE DEF after
<1>3. ClaimedAt(after, n, j, t, k, w)
  BY <1>1, <1>2, n \in Nat DEF ClaimedAt
<1>. QED BY <1>3 DEF Claimed, after

LEMMA ClaimGoesOn ==
  ASSUME NEW events \in Seq(Event), NEW e \in Event, NEW t, NEW k, NEW w,
         Claimed(events, Len(events), t, k, w),
         e.task = t => e.action \notin {"claim", "release", "complete"}
  PROVE  Claimed(Append(events, e), Len(events) + 1, t, k, w)
<1>. DEFINE after == Append(events, e)
            n == Len(events)
<1>0. n \in Nat
  BY Appended
<1>1. after[n + 1] = e /\ \A i \in 1 .. n : after[i] = events[i]
  BY Appended
<1>2. PICK j \in 1 .. n : ClaimedAt(events, n, j, t, k, w)
  BY DEF Claimed
<1>. HIDE DEF after, n
<1>3. \A i \in j + 1 .. n + 1 : i \in j + 1 .. n \/ i = n + 1
  BY <1>0
<1>4. ClaimedAt(after, n + 1, j, t, k, w)
  BY <1>0, <1>1, <1>2, <1>3 DEF ClaimedAt
<1>5. j \in 1 .. n + 1
  BY <1>0
<1>. QED BY <1>4, <1>5 DEF Claimed, after, n

LEMMA MutatedFacts ==
  ASSUME Types, NEW s \in Register, NEW op \in DOMAIN asked, Permitted(s, op)
  PROVE  LET n == Changed(s.tasks[On(op)], By(op), asked[op].ask, op)
             m == Mutated(s, op)
         IN  /\ m \in Register /\ EventOf(op, n) \in Event
             /\ m.tasks = [s.tasks EXCEPT ![On(op)] = n]
             /\ m.events = Append(s.events, EventOf(op, n))
<1>. DEFINE n == Changed(s.tasks[On(op)], By(op), asked[op].ask, op)
            m == Mutated(s, op)
<1>1. n \in Task
  BY Turned
<1>2. m = [tasks |-> [s.tasks EXCEPT ![On(op)] = n], events |-> Append(s.events, EventOf(op, n))]
  BY DEF Mutated, On, By, What, EventOf
<1>. HIDE DEF n
<1>3. n.branch \in Branches \cup {None} /\ n.claim \in Ops
  BY <1>1 DEF Task
<1>4. EventOf(op, n) \in Event
  BY <1>3, AskedTypes DEF EventOf, Event
<1>5. s.tasks \in [Tasks -> Task] /\ s.events \in Seq(Event)
  BY DEF Register
<1>6. [s.tasks EXCEPT ![On(op)] = n] \in [Tasks -> Task]
  BY <1>1, <1>5
<1>7. Append(s.events, EventOf(op, n)) \in Seq(Event)
  BY <1>4, <1>5
<1>8. m \in Register
  BY <1>2, <1>6, <1>7 DEF Register
<1>. QED BY <1>2, <1>4, <1>8 DEF n

LEMMA MutatedGood ==
  ASSUME Types, NEW s \in Register, NEW op \in DOMAIN asked, Permitted(s, op),
         Good(s), ~Applied(s, op)
  PROVE  Good(Mutated(s, op))
<1>. DEFINE t == On(op)
            task == s.tasks[t]
            n == Changed(task, By(op), asked[op].ask, op)
            m == Mutated(s, op)
            e == EventOf(op, n)
            len == Len(s.events)
<1>1. /\ n \in Task /\ Turns(op, task, n)
      /\ What(op) \in {"claim", "review", "complete"} => DependenciesDone(s.tasks, t)
      /\ What(op) = "complete" => AsReviewed(n)
  BY Turned
<1>2. /\ m \in Register /\ e \in Event /\ m.tasks = [s.tasks EXCEPT ![t] = n]
      /\ m.events = Append(s.events, e)
  BY MutatedFacts
<1>3. t \in Tasks /\ What(op) \in Actions /\ s.tasks \in [Tasks -> Task] /\ s.events \in Seq(Event)
  BY AskedTypes DEF Register
<1>4. ValidState(m.tasks)
  BY DEF Permitted
<1>. HIDE DEF n, m
<1>5. /\ \A u \in Tasks \ {t} : m.tasks[u] = s.tasks[u]
      /\ m.tasks[t] = n
  BY <1>2, <1>3
<1>6. /\ len \in Nat /\ Len(m.events) = len + 1 /\ m.events[len + 1] = e
      /\ \A i \in 1 .. len : m.events[i] = s.events[i]
  BY <1>2, <1>3, Appended
<1>7. e.op = op /\ e.action = What(op) /\ e.task = t /\ e.worker = By(op) /\ e.claim = n.claim
  BY DEF EventOf
<1>8. task.status # "done" /\ (n.status = "done" => What(op) = "complete")
  BY <1>1, <1>3 DEF Turns, Keeps, Active, Actions
<1>. HIDE DEF e, t, task, len
<1>9. Prerequisites(m.tasks)
  <2>. SUFFICES ASSUME NEW u \in Tasks, m.tasks[u].status \in Active \cup {"done"},
                       NEW d \in Dependencies[u]
                PROVE  m.tasks[d].status = "done"
    BY DEF Prerequisites, DependenciesDone
  <2>1. DependenciesDone(s.tasks, u)
    <3>1. CASE u = t
      BY <1>1, <1>3, <1>5, <3>1 DEF Turns, Keeps, Active, Actions, Good, Prerequisites, task
    <3>2. CASE u # t
      BY <1>5, <3>2 DEF Good, Prerequisites
    <3>. QED BY <3>1, <3>2
  <2>2. d \in Tasks /\ s.tasks[d].status = "done"
    BY <2>1, RegistryAssumptions DEF DependenciesDone
  <2>3. d # t
    BY <1>8, <2>2 DEF task
  <2>. QED BY <1>5, <2>2, <2>3
<1>10. Merged(m.tasks)
  <2>. SUFFICES ASSUME NEW u \in Tasks, m.tasks[u].status = "done"
                PROVE  AsReviewed(m.tasks[u])
    BY DEF Merged
  <2>1. CASE u = t
    BY <1>1, <1>5, <1>8, <2>1
  <2>2. CASE u # t
    BY <1>5, <2>2 DEF Good, Merged
  <2>. QED BY <2>1, <2>2
<1>11. EachOnce(m.events)
  <2>1. \A i \in 1 .. len + 1 : i \in 1 .. len \/ i = len + 1
    BY <1>6
  <2>2. \A i \in 1 .. len : s.events[i].op # op
    BY <1>3 DEF Applied, len
  <2>. QED BY <1>6, <1>7, <2>1, <2>2 DEF Good, EachOnce, len
<1>12. Held(m)
  <2>. SUFFICES ASSUME NEW u \in Tasks, m.tasks[u].status \in Active \cup {"blocked"}
                PROVE  Claimed(m.events, len + 1, u, m.tasks[u].claim, m.tasks[u].owner)
    BY <1>6 DEF Held
  <2>1. CASE u = t /\ What(op) = "claim"
    <3>1. m.tasks[u].claim = op /\ m.tasks[u].owner = By(op)
      BY <1>1, <1>5, <2>1 DEF Turns
    <3>2. ClaimedAt(m.events, len + 1, len + 1, u, op, By(op))
      BY <1>6, <1>7, <2>1 DEF ClaimedAt
    <3>. QED BY <1>6, <3>1, <3>2 DEF Claimed
  <2>2. CASE u # t \/ What(op) # "claim"
    <3>1. /\ s.tasks[u].status \in Active \cup {"blocked"}
          /\ m.tasks[u].claim = s.tasks[u].claim /\ m.tasks[u].owner = s.tasks[u].owner
          /\ u = t => What(op) \notin {"claim", "release", "complete"}
      <4>1. CASE u # t
        BY <1>5, <4>1
      <4>2. CASE u = t
        <5>1. Keeps(op, task, n)
          BY <1>1, <2>2, <4>2 DEF Turns
        <5>. QED BY <1>3, <1>5, <2>2, <4>2, <5>1 DEF Keeps, Active, Actions, task
      <4>. QED BY <4>1, <4>2
    <3>2. Claimed(s.events, Len(s.events), u, m.tasks[u].claim, m.tasks[u].owner)
      BY <3>1 DEF Good, Held
    <3>3. e.task = u => e.action \notin {"claim", "release", "complete"}
      BY <1>7, <3>1
    <3>. QED BY <1>2, <1>3, <3>2, <3>3, ClaimGoesOn DEF len
  <2>. QED BY <2>1, <2>2
<1>13. UnderClaims(m.events)
  <2>. SUFFICES ASSUME NEW i \in 1 .. len + 1, m.events[i].action # "claim"
                PROVE  /\ m.events[i].claim = asked[m.events[i].op].claim
                       /\ Claimed(m.events, i - 1, m.events[i].task, m.events[i].claim,
                                  m.events[i].worker)
    BY <1>6 DEF UnderClaims
  <2>1. CASE i \in 1 .. len
    <3>1. /\ s.events[i].claim = asked[s.events[i].op].claim
          /\ Claimed(s.events, i - 1, s.events[i].task, s.events[i].claim, s.events[i].worker)
      BY <1>6, <2>1 DEF Good, UnderClaims, len
    <3>2. i - 1 \in 0 .. Len(s.events)
      BY <1>6, <2>1 DEF len
    <3>3. Claimed(m.events, i - 1, s.events[i].task, s.events[i].claim, s.events[i].worker)
      BY <1>2, <1>3, <3>1, <3>2, ClaimStays
    <3>. QED BY <1>6, <2>1, <3>1, <3>3
  <2>2. CASE i = len + 1
    <3>1. What(op) # "claim"
      BY <1>6, <1>7, <2>2
    <3>2. Keeps(op, task, n)
      BY <1>1, <3>1 DEF Turns
    <3>3. task.owner = By(op) /\ asked[op].claim = task.claim /\ n.claim = task.claim
      BY <3>2 DEF Keeps
    <3>4. task.status \in Active \cup {"blocked"}
      BY <1>3, <3>1, <3>2 DEF Keeps, Active, Actions
    <3>5. Claimed(s.events, len, t, task.claim, task.owner)
      BY <1>3, <3>4 DEF Good, Held, task, len
    <3>6. len \in 0 .. Len(s.events) /\ i - 1 = len
      BY <1>6, <2>2 DEF len
    <3>7. Claimed(m.events, len, t, task.claim, task.owner)
      BY <1>2, <1>3, <3>5, <3>6, ClaimStays
    <3>. QED BY <1>6, <1>7, <2>2, <3>3, <3>6, <3>7
  <2>. QED BY <1>6, <2>1, <2>2
<1>. QED BY <1>4, <1>9, <1>10, <1>11, <1>12, <1>13 DEF Good, m

\* ---- The inductive invariant ---------------------------------------------------

Working == {"fetching", "pushing"}

InFlight == late \cup {client[c].push : c \in {d \in Clients : client[d].pc = "pushing"}}

\* How the content of a push follows from the register it was made from.
Follows(s, q) ==
  LET op == q.op
      n  == q.content.tasks[On(op)]
  IN  /\ ~Applied(s, op)
      /\ q.content.tasks = [s.tasks EXCEPT ![On(op)] = n]
      /\ q.content.events = Append(s.events, EventOf(op, n))
      /\ Turns(op, s.tasks[On(op)], n)
      /\ What(op) \in {"claim", "review", "complete"} => DependenciesDone(s.tasks, On(op))
      /\ What(op) # "review" => Permitted(s, op)

\* A push is good by itself, and follows from the register it may still replace.
Flying(q) ==
  /\ q \in Push /\ q.op \in DOMAIN asked /\ q.base <= Len(register.events)
  /\ Good(q.content)
  /\ q.base = Len(register.events) => Follows(register, q)

\* A command that works has no answer yet and no one else works on it.
ClientsOK ==
  \A c \in Clients :
    /\ client[c].pc # "idle" => client[c].op \in DOMAIN asked
    /\ client[c].pc = "pushing" => /\ client[c].push \in Push /\ AttemptLeft(c)
                                   /\ client[c].push.op = client[c].op
    /\ client[c].pc \in Working =>
         /\ asked[client[c].op].answer = "none"
         /\ \A d \in Clients \ {c} : client[d].pc \in Working => client[d].op # client[c].op

\* What a command was told, for good.
AnswerOK(op) ==
  /\ asked[op].answer = "ok" => Applied(register, op)
  /\ asked[op].answer = "refused" /\ What(op) # "review" =>
       /\ ~Applied(register, op)
       /\ \A q \in late : q.op = op => q.base < Len(register.events)

IInv ==
  /\ TypeOK /\ ClientsOK /\ Good(register)
  /\ \A q \in InFlight : Flying(q)
  /\ \A op \in DOMAIN asked : AnswerOK(op)

\* ---- What a step leaves as it was ----------------------------------------------

AskedGrows ==
  /\ DOMAIN asked \subseteq DOMAIN asked'
  /\ \A op \in DOMAIN asked :
       /\ asked'[op].client = asked[op].client /\ asked'[op].ask = asked[op].ask
       /\ asked'[op].claim = asked[op].claim

PullGrows ==
  \A p \in Pulls : /\ pull[p].state = "MERGED" => pull'[p] = pull[p]
                   /\ pull[p].state # "none" => pull'[p].state # "none"

LEMMA TypesHold ==
  ASSUME TypeOK
  PROVE  Types
BY DEF TypeOK, Types, Asked, Pull

LEMMA SameAsked ==
  ASSUME Types, AskedGrows, NEW op \in DOMAIN asked
  PROVE  /\ By(op)' = By(op) /\ On(op)' = On(op) /\ What(op)' = What(op)
         /\ op \in DOMAIN asked'
BY DEF AskedGrows, By, On, What

\* A copy stays good: merged pull requests stay merged.
LEMMA GoodStays ==
  ASSUME NEW CONSTANT s \in Register, Types, Types', Good(s), AskedGrows, PullGrows
  PROVE  Good(s)'
<1>1. ValidState(s.tasks)' /\ Prerequisites(s.tasks)' /\ Held(s)'
  BY DEF Good, ValidState, CheckLocks, Prerequisites, DependenciesDone, Held
<1>2. Merged(s.tasks)'
  <2>. SUFFICES ASSUME NEW t \in Tasks, s.tasks[t].status = "done"
                PROVE  AsReviewed(s.tasks[t])'
    BY DEF Merged
  <2>1. AsReviewed(s.tasks[t]) /\ s.tasks[t].pr \in Pulls
    BY DEF Good, Merged, AsReviewed, Register, Task
  <2>. QED BY <2>1 DEF AsReviewed, PullGrows
<1>3. EachOnce(s.events)'
  BY DEF Good, EachOnce, AskedGrows
<1>4. UnderClaims(s.events)'
  BY DEF Good, UnderClaims, EachOnce, AskedGrows, Claimed, ClaimedAt
<1>. QED BY <1>1, <1>2, <1>3, <1>4 DEF Good

\* Only a review rests on what the pull request is at the moment.
LEMMA PermittedStays ==
  ASSUME NEW CONSTANT s \in Register, NEW CONSTANT op \in DOMAIN asked,
         Types, Types', AskedGrows, PullGrows, What(op) # "review", Permitted(s, op)
  PROVE  Permitted(s, op)'
<1>. DEFINE x == asked[op].ask
            task == s.tasks[On(op)]
<1>1. /\ asked'[op].ask = x /\ asked'[op].client = asked[op].client
      /\ asked'[op].claim = asked[op].claim /\ By(op)' = By(op) /\ On(op)' = On(op)
      /\ What(op)' = What(op)
  BY SameAsked DEF AskedGrows
<1>2. What(op) \in Actions \ {"review"} /\ x \in Ask
  BY AskedTypes
<1>3. Changed(task, By(op), x, op)' = Changed(task, By(op), x, op)
  BY <1>1, <1>2 DEF Changed, Actions, What, AllScopes
<1>4. Mutated(s, op).tasks = [s.tasks EXCEPT ![On(op)] = Changed(task, By(op), x, op)]
  BY DEF Mutated, On, By
<1>5. Mutated(s, op).tasks' = [s.tasks EXCEPT ![On(op)'] = Changed(task, By(op), x, op)']
  BY DEF Mutated, On, By
<1>6. ValidState(Mutated(s, op).tasks)'
  BY <1>1, <1>3, <1>4, <1>5 DEF Permitted, ValidState, CheckLocks
<1>7. CASE What(op) = "claim"
  BY <1>1, <1>6, <1>7 DEF Permitted, MayClaim, What
<1>8. CASE What(op) # "claim"
  <2>1. MayTransition(s, By(op), x, asked[op].claim)
    BY <1>8 DEF Permitted, What, By
  <2>2. MayTransition(s, By(op), x, asked[op].claim)'
    <3>1. CASE What(op) # "complete"
      BY <1>1, <1>2, <2>1, <3>1 DEF MayTransition, What, Own, SameClaim, AllScopes, CheckLocks, DependenciesDone
    <3>2. CASE What(op) = "complete"
      <4>1. x.pr \in Pulls /\ pull[x.pr].state = "MERGED" /\ pull[x.pr].state # "none"
        BY <1>2, <2>1, <3>2 DEF MayTransition, What, Evidence, MergedAtReviewedHead, Ask
      <4>2. pull'[x.pr] = pull[x.pr]
        BY <4>1 DEF PullGrows
      <4>. QED BY <1>1, <2>1, <3>2, <4>2 DEF MayTransition, What, Own, SameClaim, Evidence,
                 MergedAtReviewedHead, DependenciesDone
    <3>. QED BY <3>1, <3>2
  <2>. QED BY <1>1, <1>6, <1>8, <2>2 DEF Permitted, What, By
<1>. QED BY <1>7, <1>8

LEMMA FollowsStays ==
  ASSUME NEW CONSTANT s \in Register, NEW CONSTANT q \in Push, q.op \in DOMAIN asked,
         Types, Types', AskedGrows, PullGrows, Follows(s, q)
  PROVE  Follows(s, q)'
<1>. DEFINE op == q.op
            n == q.content.tasks[On(op)]
<1>1. /\ asked'[op].ask = asked[op].ask /\ asked'[op].claim = asked[op].claim
      /\ By(op)' = By(op) /\ On(op)' = On(op) /\ What(op)' = What(op)
  BY SameAsked DEF AskedGrows
<1>2. n' = n /\ Turns(op, s.tasks[On(op)], n)' /\ (EventOf(op, n))' = EventOf(op, n)
  BY <1>1 DEF Follows, Turns, Keeps, AllScopes, EventOf
<1>3. What(op) # "review" => Permitted(s, op)'
  BY PermittedStays DEF Follows
<1>. QED BY <1>1, <1>2, <1>3 DEF Follows, Applied, DependenciesDone

\* ---- Pushes on their way ----------------------------------------------------------

\* While the register is as it was, so is what is known of every push.
LEMMA FlightsStay ==
  ASSUME IInv, TypeOK', AskedGrows, PullGrows, register' = register
  PROVE  Good(register)' /\ \A q \in InFlight : Flying(q)'
<1>1. Types /\ Types'
  BY TypesHold, PTL DEF IInv
<1>2. PICK s \in Register : s = register
  BY <1>1 DEF Types
<1>3. Good(s)'
  BY <1>1, <1>2, GoodStays DEF IInv
<1>4. Good(register)'
  BY <1>2, <1>3
<1>5. ASSUME NEW CONSTANT q \in InFlight PROVE Flying(q)'
  <2>1. q \in Push /\ q.op \in DOMAIN asked /\ q.base <= Len(register.events) /\ Good(q.content)
    BY <1>5 DEF IInv, Flying
  <2>2. q.content \in Register
    BY <2>1 DEF Push
  <2>3. Good(q.content)'
    BY <1>1, <2>1, <2>2, GoodStays
  <2>4. q.base = Len(register.events) => Follows(register, q)'
    <3>. SUFFICES ASSUME q.base = Len(register.events) PROVE Follows(register, q)'
      OBVIOUS
    <3>1. Follows(s, q)
      BY <1>2, <1>5 DEF IInv, Flying
    <3>2. Follows(s, q)'
      BY <1>1, <2>1, <3>1, FollowsStays
    <3>. QED BY <1>2, <3>2
  <2>. QED BY <2>1, <2>3, <2>4 DEF Flying, AskedGrows
<1>. QED BY <1>4, <1>5

\* A push that is accepted leaves every other one behind.
LEMMA FlightsLand ==
  ASSUME IInv, TypeOK', AskedGrows, PullGrows,
         NEW CONSTANT q \in InFlight, Accepts(q), register' = q.content
  PROVE  /\ Good(register)' /\ \A p \in InFlight : Flying(p)'
         /\ Len(register.events)' = Len(register.events) + 1
         /\ \A op : Applied(register, op)' <=> Applied(register, op) \/ op = q.op
<1>0. Types /\ Types'
  BY TypesHold, PTL DEF IInv
<1>1. Types /\ Types' /\ Flying(q)
  BY <1>0 DEF IInv
<1>2. q.op \in DOMAIN asked /\ q.content \in Register /\ Good(q.content) /\ Follows(register, q)
  BY <1>1 DEF Flying, Push, Accepts
<1>3. Good(q.content)'
  BY <1>1, <1>2, GoodStays
<1>4. Good(register)'
  BY <1>3
<1>. DEFINE e == EventOf(q.op, q.content.tasks[On(q.op)])
            len == Len(register.events)
<1>5. register'.events = Append(register.events, e) /\ e.op = q.op /\ register.events \in Seq(Event)
  BY <1>1, <1>2 DEF Follows, EventOf, Types, Register
<1>6. e \in Event
  <2>1. q.content.tasks[On(q.op)] \in Task
    BY <1>1, <1>2, AskedTypes DEF Register
  <2>2. q.content.tasks[On(q.op)].branch \in Branches \cup {None}
        /\ q.content.tasks[On(q.op)].claim \in Ops
    BY <2>1 DEF Task
  <2>. QED BY <1>1, <1>2, <2>2, AskedTypes DEF EventOf, Event
<1>. HIDE DEF e
<1>7. /\ len \in Nat /\ Len(register'.events) = len + 1 /\ register'.events[len + 1] = e
      /\ \A i \in 1 .. len : register'.events[i] = register.events[i]
      /\ DOMAIN register.events = 1 .. len /\ DOMAIN register'.events = 1 .. len + 1
  BY <1>5, <1>6, Appended
<1>8. ASSUME NEW CONSTANT p \in InFlight PROVE Flying(p)'
  <2>1. p \in Push /\ p.op \in DOMAIN asked /\ p.base <= len /\ Good(p.content)
    BY <1>8 DEF IInv, Flying
  <2>2. p.content \in Register /\ p.base \in Nat
    BY <2>1 DEF Push
  <2>3. Good(p.content)'
    BY <1>1, <2>1, <2>2, GoodStays
  <2>. QED BY <1>7, <2>1, <2>2, <2>3 DEF Flying, AskedGrows
<1>9. ASSUME NEW op PROVE Applied(register, op)' <=> Applied(register, op) \/ op = q.op
  BY <1>5, <1>7 DEF Applied
<1>. QED BY <1>4, <1>7, <1>8, <1>9

\* ---- Answers -------------------------------------------------------------------------

\* An answer that is given while the register stays.
Answered(op) ==
  \/ op \in DOMAIN asked /\ asked'[op].answer = asked[op].answer
  \/ asked'[op].answer \notin {"ok", "refused"}
  \/ asked'[op].answer = "ok" /\ Applied(register, op)
  \/ /\ asked'[op].answer = "refused" /\ op \in DOMAIN asked /\ late' = late
     /\ ~Applied(register, op) /\ ~Permitted(register, op)

LEMMA AnswersStay ==
  ASSUME IInv, AskedGrows, register' = register,
         \A q \in late' : q \in late \/ (q \in InFlight /\ asked'[q.op].answer = "none"),
         \A op \in DOMAIN asked' : Answered(op)
  PROVE  \A op \in DOMAIN asked' : AnswerOK(op)'
<1>. SUFFICES ASSUME NEW CONSTANT op \in DOMAIN asked' PROVE AnswerOK(op)'
  OBVIOUS
<1>1. CASE op \in DOMAIN asked /\ asked'[op].answer = asked[op].answer
  <2>1. AnswerOK(op) /\ What(op)' = What(op)
    BY <1>1, SameAsked, TypesHold DEF IInv
  <2>. QED BY <1>1, <2>1 DEF AnswerOK, Applied
<1>2. CASE asked'[op].answer \notin {"ok", "refused"}
  BY <1>2 DEF AnswerOK
<1>3. CASE asked'[op].answer = "ok" /\ Applied(register, op)
  BY <1>3 DEF AnswerOK, Applied
<1>4. CASE /\ asked'[op].answer = "refused" /\ op \in DOMAIN asked /\ late' = late
           /\ ~Applied(register, op) /\ ~Permitted(register, op)
  <2>1. What(op)' = What(op)
    BY <1>4, SameAsked, TypesHold DEF IInv
  <2>2. ASSUME NEW q \in late, q.op = op, What(op) # "review"
        PROVE  q.base < Len(register.events)
    <3>1. Flying(q) /\ q.base \in Nat /\ Len(register.events) \in Nat
      BY DEF IInv, InFlight, TypeOK, Push, Register
    <3>2. q.base # Len(register.events)
      BY <1>4, <2>2, <3>1 DEF Flying, Follows
    <3>. QED BY <3>1, <3>2 DEF Flying
  <2>. QED BY <1>4, <2>1, <2>2 DEF AnswerOK, Applied
<1>. QED BY <1>1, <1>2, <1>3, <1>4 DEF Answered

LEMMA AnswersLand ==
  ASSUME IInv, TypeOK', AskedGrows, PullGrows,
         NEW CONSTANT q \in InFlight, Accepts(q), register' = q.content,
         late' \subseteq late, DOMAIN asked' = DOMAIN asked,
         \A op \in DOMAIN asked : \/ asked'[op].answer = asked[op].answer
                                  \/ op = q.op /\ asked'[op].answer = "ok",
         q \in late \/ asked'[q.op].answer = "ok"
  PROVE  \A op \in DOMAIN asked' : AnswerOK(op)'
<1>. SUFFICES ASSUME NEW CONSTANT op \in DOMAIN asked PROVE AnswerOK(op)'
  OBVIOUS
<1>0. Len(register.events) \in Nat
  BY DEF IInv, TypeOK, Register
<1>1. /\ Applied(register, op)' <=> Applied(register, op) \/ op = q.op
      /\ Len(register.events)' = Len(register.events) + 1 /\ Len(register.events) \in Nat
  BY <1>0, FlightsLand
<1>2. AnswerOK(op) /\ What(op)' = What(op)
  BY SameAsked, TypesHold DEF IInv
<1>3. asked'[op].answer = "ok" => Applied(register, op)'
  BY <1>1, <1>2 DEF AnswerOK
<1>4. ASSUME asked'[op].answer = "refused", What(op)' # "review"
      PROVE  ~Applied(register, op)' /\ \A p \in late' : p.op = op => p.base < Len(register.events)'
  <2>1. asked[op].answer = "refused" /\ What(op) # "review"
    BY <1>2, <1>4
  <2>2. ~Applied(register, op) /\ \A p \in late : p.op = op => p.base < Len(register.events)
    BY <1>2, <2>1 DEF AnswerOK
  <2>3. op # q.op
    BY <1>1, <1>4, <2>2 DEF Accepts
  <2>4. \A p \in late : p.base \in Nat
    BY DEF IInv, TypeOK, Push
  <2>. QED BY <1>1, <2>2, <2>3, <2>4
<1>. QED BY <1>3, <1>4 DEF AnswerOK

\* ---- Processes --------------------------------------------------------------------------

Process == [pc : {"idle", "fetching", "pushing", "saving", "switching"}, op : Ops,
            tried : 0 .. Attempts, push : Push \cup {NoPush}, claim : Ops]

\* A process after each kind of step.
Started(op)       == [Idle EXCEPT !.pc = "fetching", !.op = op]
Claimant(op, k)   == [Idle EXCEPT !.pc = "saving", !.op = op, !.claim = k]
WithPush(r, q)    == [r EXCEPT !.pc = "pushing", !.push = q]
Again(r)          == [r EXCEPT !.pc = "fetching", !.tried = @ + 1, !.push = NoPush]
Saved(r)          == [r EXCEPT !.pc = "switching"]

LEMMA IdleProcess == Idle \in Process /\ Idle.pc = "idle"
BY RegistryAssumptions DEF Process, Idle, Ops

LEMMA StartedProcess ==
  ASSUME NEW op \in Ops
  PROVE  Started(op) \in Process /\ Started(op).pc = "fetching" /\ Started(op).op = op
BY IdleProcess DEF Process, Idle, Started

LEMMA ClaimantProcess ==
  ASSUME NEW op \in Ops, NEW k \in Ops
  PROVE  Claimant(op, k) \in Process /\ Claimant(op, k).pc = "saving" /\ Claimant(op, k).op = op
BY IdleProcess DEF Process, Idle, Claimant

LEMMA PushingProcess ==
  ASSUME NEW r \in Process, NEW q \in Push
  PROVE  LET n == WithPush(r, q) IN
         n \in Process /\ n.pc = "pushing" /\ n.op = r.op /\ n.push = q /\ n.tried = r.tried
BY DEF Process, WithPush

LEMMA AgainProcess ==
  ASSUME NEW r \in Process, r.tried < Attempts
  PROVE  Again(r) \in Process /\ Again(r).pc = "fetching" /\ Again(r).op = r.op
<1>1. r.tried + 1 \in 0 .. Attempts
  BY RegistryAssumptions DEF Process
<1>. QED BY <1>1 DEF Process, Again

LEMMA SavedProcess ==
  ASSUME NEW r \in Process
  PROVE  Saved(r) \in Process /\ Saved(r).pc = "switching" /\ Saved(r).op = r.op
BY DEF Process, Saved

\* Process c moves, and the others keep what they were doing.
Moves(c) ==
  /\ client' \in [Clients -> Process]
  /\ \A d \in Clients \ {c} : client'[d] = client[d]

LEMMA OneMoves ==
  ASSUME IInv, NEW c \in Clients, Moves(c), AskedGrows,
         client'[c].pc # "idle" => client'[c].op \in DOMAIN asked',
         client'[c].pc = "pushing" => /\ client'[c].push \in Push /\ client'[c].tried < Attempts
                                      /\ client'[c].push.op = client'[c].op,
         client'[c].pc \in Working =>
           /\ asked'[client'[c].op].answer = "none"
           /\ \/ client'[c].op \notin DOMAIN asked
              \/ client[c].pc \in Working /\ client'[c].op = client[c].op,
         \A op \in DOMAIN asked :
           \/ asked'[op].answer = asked[op].answer
           \/ client[c].pc \in Working /\ op = client[c].op
  PROVE  ClientsOK'
<1>. SUFFICES ASSUME NEW CONSTANT d \in Clients
     PROVE  (/\ client[d].pc # "idle" => client[d].op \in DOMAIN asked
             /\ client[d].pc = "pushing" => /\ client[d].push \in Push /\ AttemptLeft(d)
                                            /\ client[d].push.op = client[d].op
             /\ client[d].pc \in Working =>
                  /\ asked[client[d].op].answer = "none"
                  /\ \A b \in Clients \ {d} :
                       client[b].pc \in Working => client[b].op # client[d].op)'
  BY DEF ClientsOK
<1>1. \A b \in Clients :
        /\ client[b].pc # "idle" => client[b].op \in DOMAIN asked
        /\ client[b].pc = "pushing" => /\ client[b].push \in Push /\ AttemptLeft(b)
                                       /\ client[b].push.op = client[b].op
        /\ client[b].pc \in Working =>
             /\ asked[client[b].op].answer = "none"
             /\ \A a \in Clients \ {b} : client[a].pc \in Working => client[a].op # client[b].op
  BY DEF IInv, ClientsOK
<1>2. \A b \in Clients \ {c} : client'[b] = client[b]
  BY DEF Moves
<1>3. CASE d = c
  BY <1>1, <1>2, <1>3 DEF AttemptLeft, Working
<1>4. CASE d # c
  <2>1. client'[d] = client[d]
    BY <1>2, <1>4
  <2>2. client[d].pc # "idle" => client[d].op \in DOMAIN asked'
    BY <1>1 DEF AskedGrows
  <2>3. client[d].pc \in Working =>
          /\ asked'[client[d].op].answer = "none"
          /\ client'[c].pc \in Working => client'[c].op # client[d].op
    BY <1>1, <1>4 DEF Working
  <2>4. client[d].pc \in Working =>
          \A b \in Clients \ {d} : client'[b].pc \in Working => client'[b].op # client[d].op
    BY <1>1, <1>2, <2>3
  <2>. QED BY <1>1, <2>1, <2>2, <2>3, <2>4 DEF AttemptLeft
<1>. QED BY <1>3, <1>4

\* A step that makes no new push and leaves the register.
LEMMA QuietStep ==
  ASSUME IInv, TypeOK', ClientsOK', AskedGrows, PullGrows, register' = register,
         InFlight' \subseteq InFlight,
         \A q \in late' : q \in late \/ (q \in InFlight /\ asked'[q.op].answer = "none"),
         \A op \in DOMAIN asked' : Answered(op)
  PROVE  IInv'
<1>1. \A op \in DOMAIN asked' : AnswerOK(op)'
  BY AnswersStay
<1>2. Good(register)' /\ \A q \in InFlight : Flying(q)'
  BY FlightsStay
<1>. QED BY <1>1, <1>2 DEF IInv

\* The process that moves has no push afterwards.
LEMMA NoNewPush ==
  ASSUME NEW c \in Clients, Moves(c), client'[c].pc # "pushing", late' \subseteq InFlight
  PROVE  InFlight' \subseteq InFlight
BY DEF Moves, InFlight

LEMMA TypeStep ==
  ASSUME TypeOK, client' \in [Clients -> Process], register' \in Register, late' \subseteq Push,
         token' \in [Clients -> Ops], asked' \in Seq(Asked), Len(asked') <= MaxOps,
         pull' \in [Pulls -> Pull]
  PROVE  TypeOK'
BY DEF TypeOK, Process, Asked, Pull

\* ---- The steps of a command ---------------------------------------------------------------

LEMMA Known ==
  ASSUME IInv
  PROVE  /\ Types /\ client \in [Clients -> Process] /\ late \subseteq Push
         /\ token \in [Clients -> Ops] /\ register \in Register /\ asked \in Seq(Asked)
         /\ Len(asked) \in Nat /\ Len(asked) <= MaxOps /\ DOMAIN asked = 1 .. Len(asked)
         /\ pull \in [Pulls -> Pull]
         /\ \A c \in Clients :
              /\ client[c].pc # "idle" => client[c].op \in DOMAIN asked
              /\ client[c].pc = "pushing" =>
                   /\ client[c].push \in Push /\ client[c].tried < Attempts
                   /\ client[c].push.op = client[c].op /\ client[c].push \in InFlight
              /\ client[c].pc \in Working => asked[client[c].op].answer = "none"
<1>1. TypeOK /\ ClientsOK
  BY DEF IInv
<1>2. Types
  BY <1>1, TypesHold
<1>3. /\ client \in [Clients -> Process] /\ late \subseteq Push /\ token \in [Clients -> Ops]
      /\ register \in Register /\ asked \in Seq(Asked) /\ Len(asked) <= MaxOps
      /\ pull \in [Pulls -> Pull]
  BY <1>1 DEF TypeOK, Process, Asked, Pull
<1>4. Len(asked) \in Nat /\ DOMAIN asked = 1 .. Len(asked)
  BY <1>3
<1>5. \A c \in Clients :
        /\ client[c].pc # "idle" => client[c].op \in DOMAIN asked
        /\ client[c].pc = "pushing" =>
             /\ client[c].push \in Push /\ client[c].tried < Attempts
             /\ client[c].push.op = client[c].op /\ client[c].push \in InFlight
        /\ client[c].pc \in Working => asked[client[c].op].answer = "none"
  BY <1>1 DEF ClientsOK, AttemptLeft, InFlight
<1>. QED BY <1>2, <1>3, <1>4, <1>5

\* A new command has an operation id of its own.
LEMMA BeginStep ==
  ASSUME IInv, NEW c \in Clients, NEW x \in Ask, NEW claim \in Ops, NEW stored \in BOOLEAN,
         client[c].pc \notin Working, Begin(c, x, claim, stored),
         UNCHANGED <<register, late, token, pull>>
  PROVE  IInv'
<1>. DEFINE op == Len(asked) + 1
            a == [client |-> c, ask |-> x, claim |-> claim, stored |-> stored, answer |-> "none"]
<1>1. /\ asked' = Append(asked, a) /\ client' = [client EXCEPT ![c] = Started(op)]
      /\ Len(asked) < MaxOps
  BY DEF Begin, Started
<1>2. a \in Asked /\ a.answer = "none"
  BY DEF Asked, Answers
<1>3. /\ op \in Ops /\ op \notin DOMAIN asked
  BY <1>1, Known, RegistryAssumptions DEF Ops
<1>. HIDE DEF a
<1>4. /\ asked' \in Seq(Asked) /\ Len(asked') = op /\ asked'[op] = a
      /\ DOMAIN asked' = DOMAIN asked \cup {op}
      /\ \A o \in DOMAIN asked : asked'[o] = asked[o]
  BY <1>1, <1>2, Known
<1>. HIDE DEF op
<1>5. Started(op) \in Process /\ Started(op).pc = "fetching" /\ Started(op).op = op
  BY <1>3, StartedProcess
<1>6. AskedGrows /\ PullGrows
  BY <1>4 DEF AskedGrows, PullGrows
<1>7. Moves(c) /\ client'[c] = Started(op) /\ client' \in [Clients -> Process]
  BY <1>1, <1>5, Known DEF Moves
<1>8. TypeOK'
  BY <1>3, <1>4, <1>7, Known, TypeStep, RegistryAssumptions DEF IInv, Ops
<1>9. ClientsOK'
  BY <1>2, <1>3, <1>4, <1>5, <1>6, <1>7, OneMoves DEF Working
<1>10. \A o \in DOMAIN asked' : Answered(o)
  BY <1>2, <1>4 DEF Answered
<1>11. late' = late /\ late \subseteq InFlight /\ client'[c].pc # "pushing"
  BY <1>5, <1>7 DEF InFlight
<1>12. InFlight' \subseteq InFlight
  BY <1>7, <1>11, NoNewPush
<1>. QED BY <1>6, <1>8, <1>9, <1>10, <1>11, <1>12, QuietStep

\* What the answer of a command leaves of its process and of the others'.
LEMMA Returned ==
  ASSUME IInv, NEW c \in Clients, NEW s \in Register, NEW answer \in Answers,
         client[c].pc \in Working, Return(c, answer, s)
  PROVE  /\ AskedGrows /\ asked' \in Seq(Asked) /\ Len(asked') <= MaxOps
         /\ DOMAIN asked' = DOMAIN asked
         /\ asked'[client[c].op].answer = answer
         /\ \A op \in DOMAIN asked \ {client[c].op} : asked'[op] = asked[op]
         /\ Moves(c) /\ client'[c].pc \in {"idle", "saving"}
         /\ client'[c].pc # "idle" => client'[c].op \in DOMAIN asked'
<1>. DEFINE op == client[c].op
            k  == s.tasks[On(op)].claim
<1>1. op \in DOMAIN asked /\ op \in Ops /\ On(op) \in Tasks
  BY Known, AskedTypes DEF Working
<1>2. k \in Ops
  BY <1>1 DEF Register, Task
<1>3. asked' = [asked EXCEPT ![op].answer = answer]
  BY DEF Return
<1>4. asked[op] \in Asked
  BY <1>1, Known
<1>5. [asked[op] EXCEPT !.answer = answer] \in Asked
  BY <1>4 DEF Asked
<1>6. /\ asked' \in Seq(Asked) /\ Len(asked') = Len(asked) /\ DOMAIN asked' = DOMAIN asked
      /\ \A o \in DOMAIN asked \ {op} : asked'[o] = asked[o]
      /\ asked'[op] = [asked[op] EXCEPT !.answer = answer]
  BY <1>1, <1>3, <1>5, Known
<1>7. /\ asked'[op].answer = answer /\ asked'[op].client = asked[op].client
      /\ asked'[op].ask = asked[op].ask /\ asked'[op].claim = asked[op].claim
  BY <1>4, <1>6 DEF Asked
<1>8. client' = [client EXCEPT ![c] = Idle] \/ client' = [client EXCEPT ![c] = Claimant(op, k)]
  BY DEF Return, Claimant, On
<1>. HIDE DEF op, k
<1>9. /\ Claimant(op, k) \in Process /\ Claimant(op, k).pc = "saving" /\ Claimant(op, k).op = op
      /\ Idle \in Process /\ Idle.pc = "idle"
  BY <1>1, <1>2, ClaimantProcess, IdleProcess
<1>10. /\ Moves(c) /\ client'[c].pc \in {"idle", "saving"}
       /\ client'[c].pc # "idle" => client'[c].op = op
  BY <1>8, <1>9, Known DEF Moves
<1>11. AskedGrows
  BY <1>6, <1>7 DEF AskedGrows
<1>. QED BY <1>1, <1>6, <1>7, <1>10, <1>11, Known DEF op

LEMMA ReturnStep ==
  ASSUME IInv, NEW c \in Clients, NEW s \in Register, NEW answer \in Answers,
         client[c].pc = "fetching", Return(c, answer, s),
         UNCHANGED <<register, late, token, pull>>,
         answer = "ok" => Applied(register, client[c].op),
         answer = "refused" => /\ ~Applied(register, client[c].op)
                               /\ ~Permitted(register, client[c].op)
  PROVE  IInv'
<1>1. client[c].pc \in Working
  BY DEF Working
<1>2. /\ AskedGrows /\ asked' \in Seq(Asked) /\ Len(asked') <= MaxOps
      /\ DOMAIN asked' = DOMAIN asked /\ asked'[client[c].op].answer = answer
      /\ \A op \in DOMAIN asked \ {client[c].op} : asked'[op] = asked[op]
      /\ Moves(c) /\ client'[c].pc \in {"idle", "saving"}
      /\ client'[c].pc # "idle" => client'[c].op \in DOMAIN asked'
  BY <1>1, Returned
<1>3. PullGrows /\ client' \in [Clients -> Process]
  BY <1>2 DEF PullGrows, Moves
<1>4. TypeOK'
  BY <1>2, <1>3, Known, TypeStep DEF IInv
<1>5. ClientsOK'
  BY <1>1, <1>2, OneMoves DEF Working
<1>6. \A op \in DOMAIN asked' : Answered(op)
  BY <1>2 DEF Answered
<1>7. late' = late /\ late \subseteq InFlight
  BY DEF InFlight
<1>8. InFlight' \subseteq InFlight
  BY <1>2, <1>7, NoNewPush
<1>. QED BY <1>2, <1>3, <1>4, <1>5, <1>6, <1>7, <1>8, QuietStep

LEMMA StartStep ==
  ASSUME IInv, NEW c \in Clients, NEW x \in Menu[c], Start(c, x)
  PROVE  IInv'
<1>1. x \in Ask
  BY RegistryAssumptions
<1>2. PICK claim \in IF x.action = "claim" THEN {0}
                     ELSE {token[c], register.tasks[x.task].claim} \ {0} :
        Begin(c, x, claim, claim > 0 /\ claim = token[c])
  BY DEF Start
<1>3. claim \in Ops
  <2>1. x.task \in Tasks /\ token[c] \in Ops
    BY <1>1, Known DEF Ask
  <2>2. register.tasks[x.task].claim \in Ops
    BY <2>1, Known DEF Register, Task
  <2>3. 0 \in Ops
    BY RegistryAssumptions DEF Ops
  <2>. QED BY <1>2, <2>1, <2>2, <2>3
<1>4. PICK stored \in BOOLEAN : stored = (claim > 0 /\ claim = token[c])
  OBVIOUS
<1>5. Begin(c, x, claim, stored)
  BY <1>2, <1>4
<1>6. client[c].pc \notin Working /\ UNCHANGED <<register, late, token, pull>>
  BY DEF Start, Working
<1>. QED BY <1>1, <1>3, <1>5, <1>6, BeginStep

LEMMA FetchStep ==
  ASSUME IInv, NEW c \in Clients, FetchConfirmed(c) \/ FetchRefused(c) \/ GiveUp(c)
  PROVE  IInv'
<1>1. register \in Register /\ {"ok", "refused", "unconfirmed"} \subseteq Answers
  BY Known DEF Answers
<1>2. CASE FetchConfirmed(c)
  BY <1>1, <1>2, ReturnStep DEF FetchConfirmed, Confirmed
<1>3. CASE FetchRefused(c)
  BY <1>1, <1>3, ReturnStep DEF FetchRefused, Confirmed
<1>4. CASE GiveUp(c)
  BY <1>1, <1>4, ReturnStep DEF GiveUp
<1>. QED BY <1>2, <1>3, <1>4

\* The changed copy is good, and follows from the register.
LEMMA ChangeStep ==
  ASSUME IInv, NEW c \in Clients, FetchAndChange(c)
  PROVE  IInv'
<1>. DEFINE op == client[c].op
            m == Mutated(register, op)
<1>1. /\ client[c].pc = "fetching" /\ client[c].tried < Attempts /\ ~Applied(register, op)
      /\ Permitted(register, op) /\ UNCHANGED <<register, late, token, asked, pull>>
      /\ client' = [client EXCEPT ![c] =
                      WithPush(client[c], [base |-> Len(register.events), op |-> op, content |-> m])]
  BY Known DEF FetchAndChange, AttemptLeft, Confirmed, WithPush
<1>2. op \in DOMAIN asked /\ op \in Ops /\ register \in Register /\ Types /\ Good(register)
      /\ On(op) \in Tasks
  BY <1>1, Known, AskedTypes DEF IInv
<1>3. m \in Register /\ Good(m)
  BY <1>1, <1>2, MutatedFacts, MutatedGood
<1>4. Len(register.events) \in Nat /\ register.tasks \in [Tasks -> Task]
  BY <1>2 DEF Register
<1>5. PICK q \in Push : q = [base |-> Len(register.events), op |-> op, content |-> m]
  BY <1>2, <1>3, <1>4 DEF Push
<1>6. q.op = op /\ q.content = m /\ q.base = Len(register.events)
  BY <1>5
<1>7. Follows(register, q)
  <2>. DEFINE n == Changed(register.tasks[On(op)], By(op), asked[op].ask, op)
  <2>1. /\ m.tasks = [register.tasks EXCEPT ![On(op)] = n]
        /\ m.events = Append(register.events, EventOf(op, n))
    BY <1>1, <1>2, MutatedFacts
  <2>2. /\ Turns(op, register.tasks[On(op)], n)
        /\ What(op) \in {"claim", "review", "complete"} => DependenciesDone(register.tasks, On(op))
    BY <1>1, <1>2, Turned
  <2>. HIDE DEF n, m, op
  <2>3. m.tasks[On(op)] = n
    BY <1>2, <1>4, <2>1
  <2>. QED BY <1>1, <1>6, <2>1, <2>2, <2>3 DEF Follows
<1>. HIDE DEF m
<1>8. AskedGrows /\ PullGrows
  BY <1>1 DEF AskedGrows, PullGrows
<1>9. /\ WithPush(client[c], q) \in Process /\ WithPush(client[c], q).pc = "pushing"
      /\ WithPush(client[c], q).op = op /\ WithPush(client[c], q).push = q
      /\ WithPush(client[c], q).tried = client[c].tried
  BY Known, PushingProcess
<1>10. Moves(c) /\ client'[c] = WithPush(client[c], q) /\ client' \in [Clients -> Process]
  BY <1>1, <1>5, <1>9, Known DEF Moves
<1>11. TypeOK'
  BY <1>1, <1>10, Known, TypeStep DEF IInv
<1>12. Good(register)' /\ \A p \in InFlight : Flying(p)'
  BY <1>1, <1>8, <1>11, FlightsStay
<1>13. Flying(q)'
  <2>1. Types'
    BY <1>11, TypesHold, PTL
  <2>2. PICK s \in Register : s = register
    BY <1>2
  <2>3. Follows(s, q) /\ Good(q.content) /\ q.content \in Register /\ q.op \in DOMAIN asked
    BY <1>2, <1>3, <1>6, <1>7, <2>2
  <2>4. Follows(s, q)' /\ Good(q.content)'
    BY <1>2, <1>8, <2>1, <2>3, FollowsStays, GoodStays
  <2>5. Follows(register, q)'
    BY <1>1, <2>2, <2>4
  <2>. QED BY <1>1, <1>4, <1>6, <2>3, <2>4, <2>5 DEF Flying
<1>14. ClientsOK'
  <2>1. client'[c].op = client[c].op /\ client'[c].op \in DOMAIN asked'
        /\ client'[c].push = q /\ client'[c].tried < Attempts /\ client'[c].pc = "pushing"
    BY <1>1, <1>2, <1>9, <1>10
  <2>2. client[c].pc \in Working /\ asked'[client'[c].op].answer = "none"
    BY <1>1, <2>1, Known DEF Working
  <2>3. q.op = client'[c].op
    BY <1>6, <2>1
  <2>. HIDE DEF op
  <2>. QED BY <1>1, <1>8, <1>10, <2>1, <2>2, <2>3, OneMoves
<1>15. \A p \in InFlight' : p \in InFlight \/ p = q
  BY <1>1, <1>9, <1>10 DEF InFlight, Moves
<1>16. \A o \in DOMAIN asked' : AnswerOK(o)'
  BY <1>1 DEF IInv, AnswerOK, Applied, What
<1>. QED BY <1>11, <1>12, <1>13, <1>14, <1>15, <1>16 DEF IInv


\* The push of a process, or of one that gave up, replaces the register.
LEMMA AcceptedStep ==
  ASSUME IInv, NEW c \in Clients, PushAccepted(c)
  PROVE  IInv'
<1>1. PICK q \in InFlight : q = client[c].push
  BY Known DEF PushAccepted
<1>2. /\ client[c].pc \in Working /\ Accepts(q) /\ register' = q.content
      /\ Return(c, "ok", q.content) /\ UNCHANGED <<late, token, pull>>
  BY <1>1 DEF PushAccepted, Working
<1>3. q.content \in Register /\ "ok" \in Answers /\ q.op = client[c].op
  BY <1>1, Known DEF Push, Answers, PushAccepted
<1>4. /\ AskedGrows /\ asked' \in Seq(Asked) /\ Len(asked') <= MaxOps
      /\ DOMAIN asked' = DOMAIN asked /\ asked'[client[c].op].answer = "ok"
      /\ \A op \in DOMAIN asked \ {client[c].op} : asked'[op] = asked[op]
      /\ Moves(c) /\ client'[c].pc \in {"idle", "saving"}
      /\ client'[c].pc # "idle" => client'[c].op \in DOMAIN asked'
  BY <1>2, <1>3, Returned
<1>5. PullGrows /\ client' \in [Clients -> Process]
  BY <1>2, <1>4 DEF PullGrows, Moves
<1>6. TypeOK'
  BY <1>2, <1>3, <1>4, <1>5, Known, TypeStep DEF IInv
<1>7. ClientsOK'
  BY <1>2, <1>4, OneMoves DEF Working
<1>8. Good(register)' /\ \A p \in InFlight : Flying(p)'
  BY <1>2, <1>4, <1>5, <1>6, FlightsLand
<1>9. \A op \in DOMAIN asked' : AnswerOK(op)'
  BY <1>2, <1>3, <1>4, <1>5, <1>6, AnswersLand
<1>10. late' \subseteq InFlight /\ client'[c].pc # "pushing"
  BY <1>2, <1>4 DEF InFlight
<1>11. InFlight' \subseteq InFlight
  BY <1>4, <1>10, NoNewPush
<1>. QED BY <1>6, <1>7, <1>8, <1>9, <1>11 DEF IInv

LEMMA LateStep ==
  ASSUME IInv, NEW CONSTANT q \in late, LatePush(q)
  PROVE  IInv'
<1>1. /\ register' = IF Accepts(q) THEN q.content ELSE register
      /\ late' = late \ {q} /\ UNCHANGED <<client, token, asked, pull>>
  BY DEF LatePush
<1>2. q \in InFlight /\ q \in Push /\ q.content \in Register
  BY Known DEF InFlight, Push
<1>3. AskedGrows /\ PullGrows
  BY <1>1 DEF AskedGrows, PullGrows
<1>4. TypeOK'
  BY <1>1, <1>2, Known, TypeStep DEF IInv
<1>5. ClientsOK'
  BY <1>1 DEF IInv, ClientsOK, AttemptLeft
<1>6. InFlight' \subseteq InFlight
  BY <1>1 DEF InFlight
<1>7. CASE Accepts(q)
  <2>1. Good(register)' /\ \A p \in InFlight : Flying(p)'
    BY <1>1, <1>2, <1>3, <1>4, <1>7, FlightsLand
  <2>2. \A op \in DOMAIN asked' : AnswerOK(op)'
    BY <1>1, <1>2, <1>3, <1>4, <1>7, AnswersLand
  <2>. QED BY <1>4, <1>5, <1>6, <2>1, <2>2 DEF IInv
<1>8. CASE ~Accepts(q)
  <2>1. register' = register /\ \A p \in late' : p \in late
    BY <1>1, <1>8
  <2>2. \A op \in DOMAIN asked' : Answered(op)
    BY <1>1 DEF Answered
  <2>. QED BY <1>3, <1>4, <1>5, <1>6, <2>1, <2>2, QuietStep
<1>. QED BY <1>7, <1>8

\* The steps of a process that leave the register and the answers.
LEMMA SilentStep ==
  ASSUME IInv, NEW c \in Clients, Moves(c), UNCHANGED <<register, asked, pull>>,
         late' \subseteq Push, token' \in [Clients -> Ops], client'[c].pc # "pushing",
         client'[c].pc # "idle" => client[c].pc # "idle" /\ client'[c].op = client[c].op,
         client'[c].pc \in Working => client[c].pc \in Working,
         \A q \in late' : \/ q \in late
                          \/ client[c].pc = "pushing" /\ q = client[c].push
  PROVE  IInv'
<1>1. AskedGrows /\ PullGrows
  BY DEF AskedGrows, PullGrows
<1>2. TypeOK'
  BY Known, TypeStep DEF IInv, Moves
<1>3. ClientsOK'
  <2>1. client'[c].pc # "idle" => client'[c].op \in DOMAIN asked'
    BY Known
  <2>2. client'[c].pc \in Working =>
          asked'[client'[c].op].answer = "none" /\ client'[c].op = client[c].op
    BY Known DEF Working
  <2>. QED BY <1>1, <2>1, <2>2, OneMoves
<1>4. \A q \in late' : q \in late \/ (q \in InFlight /\ asked'[q.op].answer = "none")
  BY Known DEF Working
<1>5. InFlight' \subseteq InFlight
  <2>1. late' \subseteq InFlight
    BY <1>4 DEF InFlight
  <2>. QED BY <2>1, NoNewPush
<1>6. \A op \in DOMAIN asked' : Answered(op)
  BY DEF Answered
<1>. QED BY <1>1, <1>2, <1>3, <1>4, <1>5, <1>6, QuietStep

LEMMA ProcessStep ==
  ASSUME IInv, NEW c \in Clients,
         PushRejected(c) \/ PushUnanswered(c) \/ SaveToken(c) \/ Switched(c) \/ Exit(c)
  PROVE  IInv'
<1>. DEFINE r == client[c]
<1>0. /\ r \in Process /\ Idle \in Process /\ Idle.pc = "idle" /\ r.claim \in Ops
      /\ token \in [Clients -> Ops] /\ late \subseteq Push
      /\ r.pc = "pushing" => r.push \in Push /\ r.tried < Attempts
  BY Known, IdleProcess DEF Process
<1>1. CASE PushRejected(c) \/ PushUnanswered(c)
  <2>1. /\ r.pc = "pushing" /\ client' = [client EXCEPT ![c] = Again(r)]
        /\ UNCHANGED <<register, asked, pull, token>>
        /\ late' \in {late, late \cup {r.push}}
    BY <1>1, Known DEF PushRejected, PushUnanswered, Retry, Again
  <2>2. Again(r) \in Process /\ Again(r).pc = "fetching" /\ Again(r).op = r.op
    BY <1>0, <2>1, AgainProcess
  <2>3. Moves(c) /\ client'[c] = Again(r)
    BY <2>1, <2>2, Known DEF Moves
  <2>4. r.pc \in Working
    BY <2>1 DEF Working
  <2>. QED BY <1>0, <2>1, <2>2, <2>3, <2>4, SilentStep
<1>2. CASE SaveToken(c)
  <2>1. /\ r.pc = "saving" /\ client' = [client EXCEPT ![c] = Saved(r)]
        /\ UNCHANGED <<register, late, asked, pull>> /\ token' = [token EXCEPT ![c] = r.claim]
    BY <1>2, Known DEF SaveToken, Saved
  <2>2. Saved(r) \in Process /\ Saved(r).pc = "switching" /\ Saved(r).op = r.op
    BY <1>0, SavedProcess
  <2>3. Moves(c) /\ client'[c] = Saved(r) /\ token' \in [Clients -> Ops]
    BY <1>0, <2>1, <2>2, Known DEF Moves
  <2>. QED BY <1>0, <2>1, <2>2, <2>3, SilentStep DEF Working
<1>3. CASE Switched(c) \/ Exit(c)
  <2>1. /\ client' = [client EXCEPT ![c] = Idle] /\ UNCHANGED <<register, token, asked, pull>>
        /\ late' = late \/ (r.pc = "pushing" /\ late' = late \cup {r.push})
    BY <1>3 DEF Switched, Exit
  <2>2. Moves(c) /\ client'[c] = Idle
    BY <1>0, <2>1, Known DEF Moves
  <2>. QED BY <1>0, <2>1, <2>2, SilentStep DEF Working
<1>. QED BY <1>1, <1>2, <1>3

\* The fallback of start gives the claim back under a new operation.
LEMMA SwitchFailedStep ==
  ASSUME IInv, NEW c \in Clients, SwitchFailed(c)
  PROVE  IInv'
<1>. DEFINE x == [action |-> "release", task |-> asked[client[c].op].ask.task, branch |-> None,
                  scopes |-> {}, pr |-> None]
<1>1. asked[client[c].op].ask.task \in Tasks
  BY Known, AskedTypes DEF SwitchFailed, On
<1>2. x \in Ask
  BY <1>1 DEF Ask, Actions
<1>3. client[c].claim \in Ops
  BY Known DEF Process
<1>. HIDE DEF x
<1>4. Begin(c, x, client[c].claim, TRUE) /\ UNCHANGED <<register, late, token, pull>>
      /\ client[c].pc \notin Working
  BY DEF SwitchFailed, Working, x
<1>. QED BY <1>2, <1>3, <1>4, BeginStep

LEMMA PullStep ==
  ASSUME IInv, NEW p \in Pulls,
         OpenPull(p) \/ AddCommit(p) \/ MergePull(p) \/ ClosePull(p) \/ ReopenPull(p)
  PROVE  IInv'
<1>1. PICK state \in {"OPEN", "MERGED", "CLOSED"}, head \in 0 .. MaxHead :
        SetPull(p, state, head)
  <2>1. pull[p].head \in 0 .. MaxHead /\ MaxHead \in Nat
    BY Known, RegistryAssumptions DEF Pull
  <2>2. CASE OpenPull(p)
    <3>1. SetPull(p, "OPEN", 1)
      BY <2>2 DEF OpenPull
    <3>2. 1 \in 0 .. MaxHead
      BY <2>1, RegistryAssumptions, p \in Pulls
    <3>. QED BY <3>1, <3>2
  <2>3. CASE AddCommit(p)
    BY <2>1, <2>3 DEF AddCommit
  <2>4. CASE MergePull(p) \/ ClosePull(p) \/ ReopenPull(p)
    BY <2>1, <2>4 DEF MergePull, ClosePull, ReopenPull
  <2>. QED BY <2>2, <2>3, <2>4
<1>2. pull[p].state # "MERGED"
  BY DEF OpenPull, AddCommit, MergePull, ClosePull, ReopenPull
<1>3. /\ pull' = [pull EXCEPT ![p] = [state |-> state, head |-> head]]
      /\ UNCHANGED <<register, late, client, token, asked>>
  BY <1>1 DEF SetPull
<1>4. pull' \in [Pulls -> Pull] /\ AskedGrows /\ PullGrows
  <2>1. [state |-> state, head |-> head] \in Pull
    BY DEF Pull
  <2>2. pull \in [Pulls -> Pull]
    BY Known
  <2>. QED BY <1>2, <1>3, <2>1, <2>2 DEF AskedGrows, PullGrows
<1>5. TypeOK'
  BY <1>3, <1>4, Known, TypeStep DEF IInv
<1>6. ClientsOK' /\ InFlight' = InFlight
  BY <1>3 DEF IInv, ClientsOK, AttemptLeft, InFlight
<1>7. \A op \in DOMAIN asked' : Answered(op)
  BY <1>3 DEF Answered
<1>. QED BY <1>3, <1>4, <1>5, <1>6, <1>7, QuietStep


\* ---- Theorems ------------------------------------------------------------------------------

LEMMA Initially == Init => IInv
<1>. SUFFICES ASSUME Init PROVE IInv
  OBVIOUS
<1>1. /\ register.tasks = [t \in Tasks |-> Unclaimed] /\ register.events = <<>>
      /\ register \in Register
  BY UnclaimedTask DEF Init, Register
<1>2. TypeOK
  <2>1. client \in [Clients -> Process] /\ token \in [Clients -> Ops] /\ late \subseteq Push
    BY IdleProcess, RegistryAssumptions DEF Init, Ops
  <2>2. asked \in Seq(Asked) /\ Len(asked) <= MaxOps
    BY RegistryAssumptions DEF Init
  <2>3. pull \in [Pulls -> Pull]
    BY RegistryAssumptions DEF Init, Pull
  <2>. QED BY <1>1, <2>1, <2>2, <2>3 DEF TypeOK, Process, Asked, Pull
<1>3. \A t \in Tasks : register.tasks[t].status = "planned"
  BY <1>1 DEF Unclaimed
<1>4. Good(register)
  <2>1. ValidState(register.tasks) /\ Prerequisites(register.tasks) /\ Merged(register.tasks)
        /\ Held(register)
    BY <1>3 DEF ValidState, Prerequisites, Merged, Held, Active
  <2>2. EachOnce(register.events) /\ UnderClaims(register.events)
    BY <1>1 DEF EachOnce, UnderClaims
  <2>. QED BY <2>1, <2>2 DEF Good
<1>5. ClientsOK /\ InFlight = {}
  BY IdleProcess DEF Init, ClientsOK, InFlight, Working
<1>6. DOMAIN asked = {}
  BY DEF Init
<1>. QED BY <1>2, <1>4, <1>5, <1>6 DEF IInv

LEMMA Stuttering ==
  ASSUME IInv, UNCHANGED vars
  PROVE  IInv'
<1>1. UNCHANGED <<register, late, client, token, asked, pull>>
  BY DEF vars
<1>2. AskedGrows /\ PullGrows
  BY <1>1 DEF AskedGrows, PullGrows
<1>3. TypeOK' /\ ClientsOK' /\ InFlight' = InFlight
  BY <1>1 DEF IInv, TypeOK, ClientsOK, AttemptLeft, InFlight
<1>4. \A op \in DOMAIN asked' : Answered(op)
  BY <1>1 DEF Answered
<1>. QED BY <1>1, <1>2, <1>3, <1>4, QuietStep

LEMMA Inductive == IInv /\ [Next]_vars => IInv'
<1>. SUFFICES ASSUME IInv, [Next]_vars PROVE IInv'
  OBVIOUS
<1>1. ASSUME NEW c \in Clients, NEW x \in Menu[c], Start(c, x) PROVE IInv'
  BY <1>1, StartStep
<1>2. ASSUME NEW c \in Clients, FetchConfirmed(c) \/ FetchRefused(c) \/ GiveUp(c) PROVE IInv'
  BY <1>2, FetchStep
<1>3. ASSUME NEW c \in Clients, FetchAndChange(c) PROVE IInv'
  BY <1>3, ChangeStep
<1>4. ASSUME NEW c \in Clients, PushAccepted(c) PROVE IInv'
  BY <1>4, AcceptedStep
<1>5. ASSUME NEW c \in Clients,
             PushRejected(c) \/ PushUnanswered(c) \/ SaveToken(c) \/ Switched(c) \/ Exit(c)
      PROVE  IInv'
  BY <1>5, ProcessStep
<1>6. ASSUME NEW c \in Clients, SwitchFailed(c) PROVE IInv'
  BY <1>6, SwitchFailedStep
<1>7. ASSUME NEW q \in late, LatePush(q) PROVE IInv'
  BY <1>7, LateStep
<1>8. ASSUME NEW p \in Pulls,
             OpenPull(p) \/ AddCommit(p) \/ MergePull(p) \/ ClosePull(p) \/ ReopenPull(p)
      PROVE  IInv'
  BY <1>8, PullStep
<1>9. ASSUME UNCHANGED vars PROVE IInv'
  BY <1>9, Stuttering
<1>. QED BY <1>1, <1>2, <1>3, <1>4, <1>5, <1>6, <1>7, <1>8, <1>9 DEF Next

\* What is known of the register, of every push on its way and of every answer
\* holds of every behaviour.
THEOREM Invariance == Spec => []IInv
BY Initially, Inductive, PTL DEF Spec

\* Every variable keeps its type.
THEOREM TypeCorrect == Spec => []TypeOK
<1>1. IInv => TypeOK
  BY DEF IInv
<1>. QED BY <1>1, Invariance, PTL

LEMMA Disjoint ==
  ASSUME NEW s \in Register, ValidState(s.tasks), NEW t \in Tasks, NEW u \in Tasks, t # u,
         s.tasks[t].status \in Active, s.tasks[u].status \in Active
  PROVE  /\ Area(s.tasks[t].scopes) \cap Area(s.tasks[u].scopes) = {}
         /\ Resources[t] \cap Resources[u] = {}
         /\ s.tasks[t].branch # s.tasks[u].branch
<1>1. s.tasks[t].scopes \in SUBSET Scopes /\ s.tasks[u].scopes \in SUBSET Scopes
  BY DEF Register, Task
<1>2. /\ CheckLocks(s.tasks, t, s.tasks[t].scopes)
      /\ s.tasks[t].branch # s.tasks[u].branch
  BY DEF ValidState
<1>3. /\ \A a \in s.tasks[t].scopes, b \in s.tasks[u].scopes : ~Overlap(a, b)
      /\ Resources[t] \cap Resources[u] = {}
  BY <1>2 DEF CheckLocks
<1>. QED BY <1>1, <1>2, <1>3, DisjointAreas

\* No path, shared resource or branch is ever held by two active tasks, however
\* many processes claim and rescope over one another.
THEOREM ClaimsExclude == Spec => []Exclusive
<1>1. IInv => Exclusive
  BY Known, Disjoint DEF Exclusive, IInv, Good
<1>. QED BY <1>1, Invariance, PTL

\* A task that is worked on, or finished, rests on finished tasks only.
THEOREM FinishedFirst == Spec => []PrerequisitesDone
<1>1. IInv => PrerequisitesDone
  BY DEF IInv, Good, Prerequisites, DependenciesDone, PrerequisitesDone
<1>. QED BY <1>1, Invariance, PTL

\* A finished task's pull request is merged as it was reviewed.
THEOREM DoneIsReviewed == Spec => []MergedAsReviewed
<1>1. IInv => MergedAsReviewed
  BY DEF IInv, Good, Merged, AsReviewed, MergedAsReviewed
<1>. QED BY <1>1, Invariance, PTL

\* What a command was told is so, and stays so, whatever pushes are still late.
THEOREM TrueAnswers == Spec => []AnswersAreTrue
<1>1. IInv => AnswersAreTrue
  <2>. SUFFICES ASSUME IInv PROVE AnswersAreTrue
    OBVIOUS
  <2>1. \A i, j \in DOMAIN register.events :
          register.events[i].op = register.events[j].op => i = j
    BY Known DEF IInv, Good, EachOnce, Register
  <2>2. \A op \in DOMAIN asked : AnswerOK(op)
    BY DEF IInv
  <2>. QED BY <2>1, <2>2 DEF AnswersAreTrue, AnswerOK, What
<1>. QED BY <1>1, Invariance, PTL

\* Every change of a claimed task happens under the claim it was asked under, and
\* that claim is the task's latest.
THEOREM ChangedUnderClaim == Spec => []UnderItsClaim
<1>1. IInv => UnderItsClaim
  <2>. SUFFICES ASSUME IInv, NEW i \in DOMAIN register.events, register.events[i].action # "claim"
                PROVE  LET e == register.events[i] IN
                       /\ e.claim = asked[e.op].claim
                       /\ \E j \in 1 .. i - 1 :
                            /\ register.events[j].action = "claim"
                            /\ register.events[j].op = e.claim
                            /\ register.events[j].task = e.task
                            /\ register.events[j].worker = e.worker
                            /\ \A k \in j + 1 .. i - 1 :
                                 register.events[k].task = e.task =>
                                   register.events[k].action \notin {"claim", "release", "complete"}
    BY DEF UnderItsClaim
  <2>1. i \in 1 .. Len(register.events)
    BY Known DEF Register
  <2>2. UnderClaims(register.events)
    BY DEF IInv, Good
  <2>. QED BY <2>1, <2>2 DEF UnderClaims, Claimed, ClaimedAt
<1>. QED BY <1>1, Invariance, PTL

\* ---- The processes implement the board ----------------------------------------------------

\* A task as the board shows it, and the claims made.
Row(task) == [status |-> task.status, owner |-> task.owner, claim |-> task.claim,
              area |-> Area(task.scopes)]

BoardNow == [t \in Tasks |-> Row(register.tasks[t])]

UsedNow == {e.op : e \in {e \in Events : e.action = "claim"}}

Rows == [status : {"planned", "claimed", "review", "blocked", "done"}, owner : Workers \cup {None},
         claim : Ops, area : SUBSET Scopes]

RowOf(status, owner, claim, area) ==
  [status |-> status, owner |-> owner, claim |-> claim, area |-> area]

LEMMA RowTypes ==
  ASSUME NEW task \in Task
  PROVE  Row(task) \in Rows
<1>1. Area(task.scopes) \in SUBSET Scopes
  BY DEF Area
<1>. QED BY <1>1 DEF Task, Row, Rows

LEMMA RowFields ==
  ASSUME NEW row \in Rows
  PROVE  row = RowOf(row.status, row.owner, row.claim, row.area)
BY DEF Rows, RowOf

\* The board's two ways to write a changed row.
CarriedRow(old, status, area) == [[old EXCEPT !.status = status] EXCEPT !.area = area]

LEMMA RowCarried ==
  ASSUME NEW old \in Rows, NEW area \in SUBSET Scopes,
         NEW status \in {"planned", "claimed", "review", "blocked", "done"}
  PROVE  CarriedRow(old, status, area) = RowOf(status, old.owner, old.claim, area)
<1>. DEFINE row == CarriedRow(old, status, area)
<1>1. /\ row \in Rows /\ row.status = status /\ row.area = area
      /\ row.owner = old.owner /\ row.claim = old.claim
  BY DEF Rows, CarriedRow
<1>. HIDE DEF row
<1>2. row = RowOf(status, old.owner, old.claim, area)
  BY <1>1, RowFields
<1>. QED BY <1>2 DEF row

LEMMA RowFreed ==
  ASSUME NEW old \in Rows
  PROVE  [old EXCEPT !.status = "planned", !.owner = None, !.area = {}]
           = RowOf("planned", None, old.claim, {})
<1>. DEFINE row == [old EXCEPT !.status = "planned", !.owner = None, !.area = {}]
<1>1. /\ row \in Rows /\ row.status = "planned" /\ row.area = {}
      /\ row.owner = None /\ row.claim = old.claim
  BY DEF Rows
<1>. HIDE DEF row
<1>2. row = RowOf("planned", None, old.claim, {})
  BY <1>1, RowFields
<1>. QED BY <1>2 DEF row


BoardActive == {"claimed", "review"}

\* The board's Free and Ready, for the row a task is to get.
FreeNow(t, area) ==
  \A u \in Tasks \ {t} : BoardNow[u].status \in BoardActive =>
    BoardNow[u].area \cap area = {} /\ Resources[u] \cap Resources[t] = {}

ReadyNow(t) == \A d \in Dependencies[t] : BoardNow[d].status = "done"

CarryNow(t, from, status, area) ==
  /\ BoardNow[t].status \in from
  /\ BoardNow' = [BoardNow EXCEPT ![t].status = status, ![t].area = area]
  /\ UNCHANGED UsedNow

ClaimNow(t) ==
  \E w \in Workers, claim \in 1 .. MaxOps \ UsedNow, area \in (SUBSET Scopes) \ {{}} :
    /\ BoardNow[t].status = "planned" /\ ReadyNow(t) /\ FreeNow(t, area)
    /\ BoardNow' = [BoardNow EXCEPT ![t] = [status |-> "claimed", owner |-> w,
                                            claim |-> claim, area |-> area]]
    /\ UsedNow' = UsedNow \cup {claim}

RescopeNow(t) ==
  \E area \in (SUBSET Scopes) \ {{}} :
    FreeNow(t, area) /\ CarryNow(t, BoardActive, BoardNow[t].status, area)

LEMMA BoardClaims ==
  ASSUME NEW t \in Tasks, ClaimNow(t)
  PROVE  Board!Claim(t)
BY DEF Board!Claim, Board!Free, Board!Ready, Board!Active, BoardNow, UsedNow, ClaimNow, ReadyNow,
       FreeNow, BoardActive, Row

LEMMA BoardRescopes ==
  ASSUME NEW t \in Tasks, RescopeNow(t)
  PROVE  Board!Rescope(t)
BY DEF Board!Rescope, Board!Carry, Board!Free, Board!Active, BoardNow, UsedNow, RescopeNow,
       FreeNow, CarryNow, BoardActive, Row

LEMMA BoardBlocks ==
  ASSUME NEW t \in Tasks, CarryNow(t, BoardActive, "blocked", {})
  PROVE  Board!Block(t)
BY DEF Board!Block, Board!Carry, Board!Active, BoardNow, UsedNow, CarryNow, BoardActive, Row

LEMMA BoardReviews ==
  ASSUME NEW t \in Tasks, ReadyNow(t), CarryNow(t, BoardActive, "review", BoardNow[t].area)
  PROVE  Board!Review(t)
BY DEF Board!Review, Board!Carry, Board!Ready, Board!Active, BoardNow, UsedNow, CarryNow,
       ReadyNow, BoardActive, Row

LEMMA BoardCompletes ==
  ASSUME NEW t \in Tasks, ReadyNow(t), CarryNow(t, {"review"}, "done", {})
  PROVE  Board!Complete(t)
BY DEF Board!Complete, Board!Carry, Board!Ready, BoardNow, UsedNow, CarryNow, ReadyNow, Row

LEMMA BoardReleases ==
  ASSUME NEW t \in Tasks, BoardNow[t].status \in BoardActive \cup {"blocked"},
         BoardNow' = [BoardNow EXCEPT ![t] =
                        [@ EXCEPT !.status = "planned", !.owner = None, !.area = {}]],
         UNCHANGED UsedNow
  PROVE  Board!Release(t)
BY DEF Board!Release, Board!Active, BoardNow, UsedNow, BoardActive, Row


\* A push that is accepted is one step of the board.
LEMMA BoardMoves ==
  ASSUME IInv, Good(register)', register' \in Register, AskedGrows,
         NEW q \in InFlight, Accepts(q), register' = q.content
  PROVE  [Board!Next]_<<BoardNow, UsedNow>>
<1>. DEFINE op == q.op
            t == On(op)
            task == register.tasks[t]
            n == q.content.tasks[t]
<1>1. Types /\ q \in Push /\ op \in DOMAIN asked /\ Follows(register, q)
  BY TypesHold DEF IInv, Flying, Accepts
<1>2. /\ t \in Tasks /\ What(op) \in Actions /\ By(op) \in Workers /\ op \in 1 .. MaxOps
      /\ AllScopes(asked[op].ask) \in SUBSET Scopes
  BY <1>1, AskedTypes DEF Ops
<1>3. /\ ~Applied(register, op) /\ q.content.tasks = [register.tasks EXCEPT ![t] = n]
      /\ q.content.events = Append(register.events, EventOf(op, n))
      /\ Turns(op, task, n)
      /\ What(op) \in {"claim", "review", "complete"} => DependenciesDone(register.tasks, t)
  BY <1>1 DEF Follows
<1>4. /\ task \in Task /\ n \in Task /\ register.tasks \in [Tasks -> Task]
      /\ register.events \in Seq(Event) /\ EventOf(op, n) \in Event
  <2>1. register \in Register /\ q.content \in Register
    BY <1>1 DEF Types, Push
  <2>2. task \in Task /\ n \in Task /\ register.tasks \in [Tasks -> Task]
        /\ register.events \in Seq(Event)
    BY <1>2, <2>1 DEF Register
  <2>3. n.branch \in Branches \cup {None} /\ n.claim \in Ops
    BY <2>2 DEF Task
  <2>. QED BY <1>1, <1>2, <2>2, <2>3, AskedTypes DEF EventOf, Event
<1>5. BoardNow \in [Tasks -> Rows] /\ \A u \in Tasks : BoardNow[u] = Row(register.tasks[u])
  BY <1>4, RowTypes DEF BoardNow
<1>6. BoardNow' = [BoardNow EXCEPT ![t] = Row(n)]
  BY <1>2, <1>3, <1>4 DEF BoardNow, Row
<1>7. UsedNow' = IF What(op) = "claim" THEN UsedNow \cup {op} ELSE UsedNow
  <2>1. Events' = Events \cup {EventOf(op, n)}
    <3>. DEFINE len == Len(register.events)
    <3>1. /\ len \in Nat /\ Len(register'.events) = len + 1
          /\ register'.events[len + 1] = EventOf(op, n)
          /\ \A i \in 1 .. len : register'.events[i] = register.events[i]
      BY <1>3, <1>4, Appended
    <3>2. DOMAIN register.events = 1 .. len /\ DOMAIN register'.events = 1 .. len + 1
      BY <1>3, <1>4, <3>1, Appended
    <3>. HIDE DEF len
    <3>3. 1 .. len + 1 = (1 .. len) \cup {len + 1}
      BY <3>1
    <3>. QED BY <3>1, <3>2, <3>3 DEF Events
  <2>2. EventOf(op, n).action = What(op) /\ EventOf(op, n).op = op
    BY DEF EventOf
  <2>. QED BY <2>1, <2>2 DEF UsedNow
<1>8. What(op) = "claim" => op \notin UsedNow
  BY <1>3 DEF UsedNow, Events, Applied
<1>9. What(op) \in {"claim", "review", "complete"} => ReadyNow(t)
  <2>. SUFFICES ASSUME What(op) \in {"claim", "review", "complete"}, NEW d \in Dependencies[t]
                PROVE  BoardNow[d].status = "done"
    BY DEF ReadyNow
  <2>1. d \in Tasks /\ register.tasks[d].status = "done"
    BY <1>2, <1>3, RegistryAssumptions DEF DependenciesDone
  <2>. QED BY <1>5, <2>1 DEF Row
<1>10. n.status \in Active => FreeNow(t, Area(n.scopes))
  <2>. SUFFICES ASSUME n.status \in Active, NEW u \in Tasks \ {t},
                       BoardNow[u].status \in BoardActive
                PROVE  /\ BoardNow[u].area \cap Area(n.scopes) = {}
                       /\ Resources[u] \cap Resources[t] = {}
    BY DEF FreeNow
  <2>1. /\ register'.tasks[u] = register.tasks[u] /\ register'.tasks[t] = n
        /\ register.tasks[u].status \in Active
        /\ BoardNow[u].area = Area(register.tasks[u].scopes)
    BY <1>2, <1>3, <1>4, <1>5 DEF Row, BoardActive, Active
  <2>2. PICK s \in Register : s = register'
    OBVIOUS
  <2>3. ValidState(s.tasks) /\ s.tasks[u] = register.tasks[u] /\ s.tasks[t] = n
    BY <2>1, <2>2 DEF Good, ValidState, CheckLocks
  <2>. QED BY <1>2, <2>1, <2>3, Disjoint
<1>. HIDE DEF n
<1>11. CASE What(op) = "claim"
  <2>1. task.status = "planned" /\ n.status = "claimed" /\ n.owner = By(op) /\ n.claim = op
        /\ n.scopes # {}
    BY <1>3, <1>11 DEF Turns
  <2>2. Area(n.scopes) # {} /\ Area(n.scopes) \in SUBSET Scopes
    BY <1>4, <2>1, AreaNotEmpty DEF Task
  <2>3. Row(n) = [status |-> "claimed", owner |-> By(op), claim |-> op, area |-> Area(n.scopes)]
    BY <2>1 DEF Row
  <2>4. ClaimNow(t)
    <3>1. BoardNow[t].status = "planned"
      BY <1>2, <1>5, <2>1 DEF Row
    <3>2. ReadyNow(t) /\ FreeNow(t, Area(n.scopes))
      BY <1>9, <1>10, <1>11, <2>1 DEF Active
    <3>. HIDE DEF op, t
    <3>. QED BY <1>2, <1>6, <1>7, <1>8, <1>11, <2>2, <2>3, <3>1, <3>2 DEF ClaimNow
  <2>. QED BY <1>2, <2>4, BoardClaims DEF Board!Next
<1>12. CASE What(op) # "claim"
  <2>1. Keeps(op, task, n) /\ UNCHANGED UsedNow
    BY <1>3, <1>7, <1>12 DEF Turns
  <2>2. /\ n.claim = BoardNow[t].claim /\ task.owner = BoardNow[t].owner
        /\ task.status = BoardNow[t].status /\ Area(task.scopes) = BoardNow[t].area
    BY <1>2, <1>5, <2>1 DEF Keeps, Row
  <2>3. Area({}) = {}
    BY DEF Area
  <2>4. CASE What(op) = "heartbeat"
    <3>1. Row(n) = BoardNow[t]
      BY <1>2, <1>5, <2>1, <2>4 DEF Keeps
    <3>. QED BY <1>5, <1>6, <2>1, <3>1
  <2>5. CASE What(op) \in {"rescope", "block", "review", "complete"}
    <3>1. task.status \in BoardActive /\ n.owner = task.owner
      BY <2>1, <2>5 DEF Keeps, Active, BoardActive
    <3>2. /\ BoardNow' = [BoardNow EXCEPT ![t].status = n.status, ![t].area = Area(n.scopes)]
          /\ Area(n.scopes) \in SUBSET Scopes
      <4>1. Row(n) = RowOf(n.status, BoardNow[t].owner, BoardNow[t].claim, Area(n.scopes))
        BY <2>2, <3>1 DEF Row, RowOf
      <4>2. /\ Area(n.scopes) \in SUBSET Scopes /\ BoardNow[t] \in Rows
            /\ n.status \in {"planned", "claimed", "review", "blocked", "done"}
        BY <1>2, <1>4, <1>5 DEF Area, Task
      <4>3. Row(n) = CarriedRow(BoardNow[t], n.status, Area(n.scopes))
        BY <4>1, <4>2, RowCarried
      <4>. QED BY <1>2, <1>5, <1>6, <4>2, <4>3 DEF CarriedRow
    <3>3. CASE What(op) = "rescope"
      <4>1. n.status = task.status /\ n.scopes # {}
        BY <2>1, <3>3 DEF Keeps
      <4>2. Area(n.scopes) # {}
        BY <1>4, <4>1, AreaNotEmpty DEF Task
      <4>3. FreeNow(t, Area(n.scopes))
        BY <1>10, <3>1, <4>1 DEF Active, BoardActive
      <4>4. CarryNow(t, BoardActive, BoardNow[t].status, Area(n.scopes))
        BY <2>1, <2>2, <3>1, <3>2, <4>1 DEF CarryNow
      <4>5. RescopeNow(t)
        BY <3>2, <4>2, <4>3, <4>4 DEF RescopeNow
      <4>. QED BY <1>2, <4>5, BoardRescopes DEF Board!Next
    <3>4. CASE What(op) = "block"
      <4>1. n.status = "blocked" /\ n.scopes = {}
        BY <2>1, <3>4 DEF Keeps
      <4>2. CarryNow(t, BoardActive, "blocked", {})
        BY <2>1, <2>2, <2>3, <3>1, <3>2, <4>1 DEF CarryNow
      <4>. QED BY <1>2, <4>2, BoardBlocks DEF Board!Next
    <3>5. CASE What(op) = "review"
      <4>1. n.status = "review" /\ n.scopes = task.scopes
        BY <2>1, <3>5 DEF Keeps
      <4>2. CarryNow(t, BoardActive, "review", BoardNow[t].area)
        BY <2>1, <2>2, <3>1, <3>2, <4>1 DEF CarryNow
      <4>. QED BY <1>2, <1>9, <3>5, <4>2, BoardReviews DEF Board!Next
    <3>6. CASE What(op) = "complete"
      <4>1. task.status = "review" /\ n.status = "done" /\ n.scopes = {}
        BY <2>1, <3>6 DEF Keeps
      <4>2. CarryNow(t, {"review"}, "done", {})
        BY <2>1, <2>2, <2>3, <3>2, <4>1 DEF CarryNow
      <4>. QED BY <1>2, <1>9, <3>6, <4>2, BoardCompletes DEF Board!Next
    <3>. QED BY <2>5, <3>3, <3>4, <3>5, <3>6
  <2>6. CASE What(op) = "release"
    <3>1. /\ task.status \in BoardActive \cup {"blocked"}
          /\ n.status = "planned" /\ n.owner = None /\ n.scopes = {}
      BY <2>1, <2>6 DEF Keeps, Active, BoardActive
    <3>2. Row(n) = RowOf("planned", None, BoardNow[t].claim, {})
      BY <2>2, <2>3, <3>1 DEF Row, RowOf
    <3>3. Row(n) = [BoardNow[t] EXCEPT !.status = "planned", !.owner = None, !.area = {}]
      BY <1>2, <1>5, <3>2, RowFreed
    <3>4. BoardNow' = [BoardNow EXCEPT ![t] =
                         [@ EXCEPT !.status = "planned", !.owner = None, !.area = {}]]
      BY <1>2, <1>5, <1>6, <3>3
    <3>. QED BY <1>2, <2>1, <2>2, <3>1, <3>4, BoardReleases DEF Board!Next
  <2>. QED BY <1>2, <1>12, <2>4, <2>5, <2>6 DEF Actions
<1>. QED BY <1>11, <1>12


LEMMA BoardStep == IInv /\ [Next]_vars => [Board!Next]_<<BoardNow, UsedNow>>
<1>. SUFFICES ASSUME IInv, [Next]_vars PROVE [Board!Next]_<<BoardNow, UsedNow>>
  OBVIOUS
<1>1. IInv'
  BY Inductive
<1>2. Good(register)' /\ register' \in Register
  BY <1>1 DEF IInv, TypeOK
<1>3. CASE register' = register
  BY <1>3 DEF BoardNow, UsedNow, Events, Row
<1>4. ASSUME NEW c \in Clients, PushAccepted(c) PROVE [Board!Next]_<<BoardNow, UsedNow>>
  <2>1. /\ client[c].push \in InFlight /\ Accepts(client[c].push)
        /\ register' = client[c].push.content
    BY <1>4 DEF PushAccepted, InFlight
  <2>2. AskedGrows
    <3>1. client[c].pc \in Working /\ Return(c, "ok", client[c].push.content)
          /\ client[c].push.content \in Register /\ "ok" \in Answers
      BY <1>4, Known DEF PushAccepted, Working, Push, Answers
    <3>. QED BY <3>1, Returned
  <2>. QED BY <1>2, <2>1, <2>2, BoardMoves
<1>5. ASSUME NEW q \in late, LatePush(q) PROVE [Board!Next]_<<BoardNow, UsedNow>>
  <2>1. CASE Accepts(q)
    <3>1. q \in InFlight /\ register' = q.content /\ AskedGrows
      BY <1>5, <2>1 DEF LatePush, InFlight, AskedGrows
    <3>. QED BY <1>2, <2>1, <3>1, BoardMoves
  <2>2. CASE ~Accepts(q)
    BY <1>3, <1>5, <2>2 DEF LatePush
  <2>. QED BY <2>1, <2>2
<1>6. ASSUME Next, register' # register
      PROVE  (\E c \in Clients : PushAccepted(c)) \/ (\E q \in late : LatePush(q))
  BY <1>6 DEF Next, Start, FetchConfirmed, FetchRefused, FetchAndChange, GiveUp, PushRejected,
              PushUnanswered, SaveToken, Switched, SwitchFailed, Exit, OpenPull, AddCommit,
              MergePull, ClosePull, ReopenPull, SetPull
<1>. QED BY <1>3, <1>4, <1>5, <1>6 DEF vars

\* The processes, their retries and their lost answers together are a board on
\* which every command is a single step.
THEOREM Refinement == Spec => ImplementsBoard
<1>1. Init => Board!Init
  <2>. SUFFICES ASSUME Init PROVE Board!Init
    OBVIOUS
  <2>1. /\ register.tasks = [t \in Tasks |-> Unclaimed] /\ register.events = <<>>
    BY DEF Init
  <2>2. Area({}) = {} /\ Events = {}
    BY <2>1 DEF Area, Events
  <2>3. \A t \in Tasks : Row(register.tasks[t]) = RowOf("planned", None, 0, {})
    <3>1. \A t \in Tasks : register.tasks[t] = Unclaimed
      BY <2>1
    <3>2. /\ Unclaimed.status = "planned" /\ Unclaimed.owner = None /\ Unclaimed.claim = 0
          /\ Unclaimed.scopes = {}
      BY DEF Unclaimed
    <3>3. Row(Unclaimed) = RowOf("planned", None, 0, {})
      BY <2>2, <3>2 DEF Row, RowOf
    <3>. QED BY <3>1, <3>3
  <2>4. BoardNow = [t \in Tasks |-> RowOf("planned", None, 0, {})]
    BY <2>3 DEF BoardNow
  <2>5. UsedNow = {}
    BY <2>2 DEF UsedNow
  <2>. QED BY <2>4, <2>5 DEF Board!Init, BoardNow, UsedNow, Row, RowOf
<1>2. IInv /\ [Next]_vars => [Board!Next]_<<BoardNow, UsedNow>>
  BY BoardStep
<1>. QED BY <1>1, <1>2, Invariance, PTL DEF Spec, ImplementsBoard, Board!Spec, BoardNow, UsedNow, Row


=============================================================================
