-------------------------- MODULE ScopePlansProofs --------------------------
(***************************************************************************)
(* Proofs about ScopePlans, for any number of briefs, threads and          *)
(* commands.  Both properties rest on the write lock: what a transaction   *)
(* read when it began is still so when it writes.  The invariant says this *)
(* of the one thread that holds the lock, and the order of versions,       *)
(* commands and agreements follows from it.                                *)
(***************************************************************************)
EXTENDS ScopePlans, TLAPS

DataOK ==
  /\ briefs \in [Ideas -> Revisions]
  /\ plans \in [Ideas -> Seq(Version)]
  /\ commands \subseteq Commands \X Ideas \X Request
  /\ missions \subseteq Ideas /\ {i \in Ideas : briefs[i] > 0} \subseteq missions
  /\ compositions \subseteq Ideas \X Revisions \X Numbers

Serving == [pc : {"idle", "create", "intake"} \cup Waiting \cup Holding,
            idea : Ideas, command : Commands \cup {NoCommand}, asked : Request]

LocksOK ==
  /\ thread \in [Threads -> Serving]
  /\ writeLock \in Threads \cup {Nobody} /\ coreLock \in Threads \cup {Nobody}
  /\ \A t \in Threads : /\ thread[t].pc \in Holding <=> writeLock = t
                        /\ thread[t].pc \in {"intake", "record"} <=> coreLock = t

\* A create past Core has its mission; a plan request has a command and a content.
Content(asked) ==
  asked.kind # "none" /\ (asked.kind = "edit" => asked.scope \in Scopes)

Requested ==
  \A t \in Threads :
    /\ thread[t].pc = "record" => thread[t].idea \in missions
    /\ thread[t].pc \in {"write", "put"} =>
         thread[t].command \in Commands /\ Content(thread[t].asked)

\* The holder of the write lock finds the database as it was when it began.
Begun(t) ==
  /\ thread[t].pc = "put" => /\ BriefUnchanged(thread[t].idea, thread[t].asked)
                             /\ ~Known(thread[t].command)
  /\ thread[t].pc = "compose" => /\ SameSnapshot(thread[t].idea, thread[t].asked)
                                 /\ AgreedNow(thread[t].idea)

AsBegun == \A t \in Threads : Begun(t)

CommandsRecorded ==
  \A i \in Ideas : \A n \in DOMAIN plans[i] : Known(plans[i][n].command)

Inv == DataOK /\ LocksOK /\ Requested /\ AsBegun /\ CommandsRecorded /\ AgreedAsShown

-----------------------------------------------------------------------------
(* The threads and the locks. *)

LEMMA IdleTyped == Idle \in Serving /\ Idle.pc = "idle"
BY ScopeAssumptions DEF Idle, Serving, Request, NoRequest, NoCommand, NoScope, Revisions, Numbers

\* What the end of a request leaves of the threads and the locks.
LEMMA EndKeepsLocks ==
  ASSUME LocksOK, NEW t \in Threads, End(t)
  PROVE  LocksOK' /\ \A u \in Threads : thread'[u] = IF u = t THEN Idle ELSE thread[u]
<1>1. \A u \in Threads : thread'[u] = IF u = t THEN Idle ELSE thread[u]
  BY DEF End, LocksOK
<1>2. thread' \in [Threads -> Serving]
  BY IdleTyped DEF End, LocksOK
<1>3. /\ writeLock' \in Threads \cup {Nobody} /\ coreLock' \in Threads \cup {Nobody}
      /\ writeLock' # t /\ coreLock' # t
      /\ \A u \in Threads \ {t} : (writeLock' = u <=> writeLock = u) /\ (coreLock' = u <=> coreLock = u)
  BY ScopeAssumptions DEF End, LocksOK, Released, Nobody
<1>4. \A u \in Threads : /\ thread'[u].pc \in Holding <=> writeLock' = u
                         /\ thread'[u].pc \in {"intake", "record"} <=> coreLock' = u
  BY <1>1, <1>3, IdleTyped DEF LocksOK, Holding
<1>. QED BY <1>1, <1>2, <1>3, <1>4 DEF LocksOK

\* One thread at a time is in a transaction.
LEMMA OneHolder ==
  ASSUME LocksOK, NEW t \in Threads, NEW u \in Threads \ {t},
         writeLock = Nobody \/ thread[t].pc \in Holding
  PROVE  thread[u].pc \notin Holding
BY ScopeAssumptions DEF LocksOK, Nobody

\* A thread moves on within its request.
LEMMA GotoKeepsThreads ==
  ASSUME LocksOK, NEW t \in Threads, NEW pc \in {"intake", "record", "put", "compose", "close"},
         Goto(t, pc)
  PROVE  /\ thread' \in [Threads -> Serving]
         /\ thread'[t].pc = pc /\ thread'[t].idea = thread[t].idea
         /\ thread'[t].command = thread[t].command /\ thread'[t].asked = thread[t].asked
         /\ \A u \in Threads \ {t} : thread'[u] = thread[u]
<1>1. thread[t] \in Serving
  BY DEF LocksOK
<1>2. [thread[t] EXCEPT !.pc = pc] \in Serving
  BY <1>1 DEF Serving, Waiting, Holding
<1>3. thread' = [thread EXCEPT ![t] = [thread[t] EXCEPT !.pc = pc]]
  BY DEF Goto
<1>. QED BY <1>1, <1>2, <1>3 DEF LocksOK, Serving

-----------------------------------------------------------------------------
(* Steps that leave the database alone. *)

LEMMA SameDatabase ==
  ASSUME Inv, UNCHANGED <<briefs, plans, commands>>
  PROVE  CommandsRecorded' /\ AgreedAsShown'
BY DEF Inv, CommandsRecorded, AgreedAsShown, Known

\* A transaction is where it was when neither its thread nor the database changed.
LEMMA BegunKept ==
  ASSUME Inv, UNCHANGED <<briefs, plans, commands>>,
         NEW u \in Threads, thread'[u] = thread[u] \/ thread'[u].pc \notin Holding
  PROVE  Begun(u)'
BY DEF Inv, AsBegun, Begun, Holding, BriefUnchanged, Known, SameSnapshot, AgreedNow, Latest

\* A request that arrives holds no lock and has read nothing.
LEMMA ArriveStep ==
  ASSUME Inv, NEW t \in Threads, NEW i \in Ideas,
         NEW pc \in {"create", "save", "view", "write", "assess"},
         NEW command \in Commands \cup {NoCommand}, NEW asked \in Request,
         pc = "write" => command \in Commands /\ Content(asked),
         Arrive(t, i, pc, command, asked)
  PROVE  Inv'
<1>. DEFINE r == [pc |-> pc, idea |-> i, command |-> command, asked |-> asked]
<1>1. r \in Serving
  BY DEF Serving, Waiting
<1>2. /\ thread' = [thread EXCEPT ![t] = r] /\ thread[t].pc = "idle"
      /\ UNCHANGED <<briefs, plans, commands, missions, compositions, writeLock, coreLock>>
  BY DEF Arrive, core
<1>3. /\ thread' \in [Threads -> Serving]
      /\ \A u \in Threads : thread'[u] = IF u = t THEN r ELSE thread[u]
  BY <1>1, <1>2 DEF Inv, LocksOK
<1>. HIDE DEF r
<1>4. r.pc = pc /\ r.command = command /\ r.asked = asked
  BY DEF r
<1>5. LocksOK'
  BY <1>2, <1>3, <1>4 DEF Inv, LocksOK, Holding
<1>6. DataOK'
  BY <1>2 DEF Inv, DataOK
<1>7. Requested'
  BY <1>2, <1>3, <1>4 DEF Inv, Requested
<1>8. AsBegun'
  BY <1>2, <1>3, <1>4, BegunKept DEF AsBegun, Holding
<1>. QED BY <1>2, <1>5, <1>6, <1>7, <1>8, SameDatabase DEF Inv

\* A request that ends gives back what it held.
LEMMA EndStep ==
  ASSUME Inv, NEW t \in Threads, End(t),
         UNCHANGED <<briefs, plans, commands, missions, compositions>>
  PROVE  Inv'
<1>1. LocksOK' /\ \A u \in Threads : thread'[u] = IF u = t THEN Idle ELSE thread[u]
  BY EndKeepsLocks DEF Inv
<1>2. DataOK'
  BY DEF Inv, DataOK
<1>3. Requested'
  BY <1>1, IdleTyped DEF Inv, Requested
<1>4. AsBegun'
  BY <1>1, IdleTyped, BegunKept DEF AsBegun, Holding
<1>. QED BY <1>1, <1>2, <1>3, <1>4, SameDatabase DEF Inv

\* A request moves on and may take a lock on the way.
LEMMA GotoStep ==
  ASSUME Inv, NEW t \in Threads, NEW pc \in {"intake", "record", "put", "compose", "close"},
         Goto(t, pc), UNCHANGED <<briefs, plans, commands>>, DataOK', missions \subseteq missions',
         writeLock' \in Threads \cup {Nobody}, coreLock' \in Threads \cup {Nobody},
         \A u \in Threads \ {t} : (writeLock' = u <=> writeLock = u) /\ (coreLock' = u <=> coreLock = u),
         pc \in Holding <=> writeLock' = t,
         pc \in {"intake", "record"} <=> coreLock' = t,
         pc = "record" => thread[t].idea \in missions',
         pc = "put" => /\ thread[t].command \in Commands /\ Content(thread[t].asked)
                       /\ BriefUnchanged(thread[t].idea, thread[t].asked)
                       /\ ~Known(thread[t].command),
         pc = "compose" => /\ SameSnapshot(thread[t].idea, thread[t].asked)
                           /\ AgreedNow(thread[t].idea)
  PROVE  Inv'
<1>1. /\ thread' \in [Threads -> Serving]
      /\ thread'[t].pc = pc /\ thread'[t].idea = thread[t].idea
      /\ thread'[t].command = thread[t].command /\ thread'[t].asked = thread[t].asked
      /\ \A u \in Threads \ {t} : thread'[u] = thread[u]
  BY GotoKeepsThreads DEF Inv
<1>2. LocksOK'
  BY <1>1 DEF Inv, LocksOK
<1>3. Requested'
  BY <1>1 DEF Inv, Requested
<1>4. AsBegun'
  <2>1. \A u \in Threads \ {t} : Begun(u)'
    BY <1>1, BegunKept
  <2>2. Begun(t)'
    BY <1>1 DEF Begun, BriefUnchanged, Known, SameSnapshot, AgreedNow, Latest
  <2>. QED BY <2>1, <2>2 DEF AsBegun
<1>. QED BY <1>2, <1>3, <1>4, SameDatabase DEF Inv

-----------------------------------------------------------------------------
(* Steps that write. *)

\* A transaction that needed no lock before: nobody is in another one.
LEMMA FreeToWrite ==
  ASSUME Inv, NEW t \in Threads, End(t), writeLock = Nobody \/ thread[t].pc \in Holding
  PROVE  /\ LocksOK' /\ AsBegun'
         /\ \A u \in Threads : thread'[u] = IF u = t THEN Idle ELSE thread[u]
<1>1. LocksOK' /\ \A u \in Threads : thread'[u] = IF u = t THEN Idle ELSE thread[u]
  BY EndKeepsLocks DEF Inv
<1>2. \A u \in Threads : thread'[u].pc \notin Holding
  BY <1>1, OneHolder, IdleTyped DEF Inv, Holding
<1>. QED BY <1>1, <1>2 DEF AsBegun, Begun, Holding

\* A new brief has its mission and no plan.
LEMMA RecordStep ==
  ASSUME Inv, NEW t \in Threads, Record(t)
  PROVE  Inv'
<1>. DEFINE i == thread[t].idea
<1>1. i \in Ideas /\ i \in missions
  BY DEF Inv, LocksOK, Serving, Requested, Record
<1>2. LocksOK' /\ AsBegun' /\ \A u \in Threads : thread'[u] = IF u = t THEN Idle ELSE thread[u]
  BY FreeToWrite DEF Record
<1>3. UNCHANGED <<plans, commands, missions, compositions>> /\ briefs' = [briefs EXCEPT ![i] = 1]
  BY DEF Record, core
<1>. HIDE DEF i
<1>4. DataOK'
  BY <1>1, <1>3, ScopeAssumptions DEF Inv, DataOK, Revisions
<1>5. Requested'
  BY <1>2, <1>3, IdleTyped DEF Inv, Requested
<1>6. CommandsRecorded' /\ AgreedAsShown'
  BY <1>3 DEF Inv, CommandsRecorded, AgreedAsShown, Known
<1>. QED BY <1>2, <1>4, <1>5, <1>6 DEF Inv

\* A saved brief leaves plans alone, and no transaction is open.
LEMMA SaveStep ==
  ASSUME Inv, NEW t \in Threads, SaveBrief(t)
  PROVE  Inv'
<1>. DEFINE i == thread[t].idea
<1>1. i \in Ideas
  BY DEF Inv, LocksOK, Serving
<1>2. LocksOK' /\ AsBegun' /\ \A u \in Threads : thread'[u] = IF u = t THEN Idle ELSE thread[u]
  BY FreeToWrite DEF SaveBrief
<1>3. /\ UNCHANGED <<plans, commands, missions, compositions>>
      /\ \/ briefs' = briefs
         \/ briefs[i] \in 1 .. MaxRevision - 1 /\ briefs' = [briefs EXCEPT ![i] = briefs[i] + 1]
  <2>. HIDE DEF i
  <2>. QED BY Zenon DEF SaveBrief, core, i
<1>. HIDE DEF i
<1>4. DataOK'
  <2>1. CASE briefs' = briefs
    BY <2>1, <1>3 DEF Inv, DataOK
  <2>2. CASE briefs[i] \in 1 .. MaxRevision - 1 /\ briefs' = [briefs EXCEPT ![i] = briefs[i] + 1]
    <3>1. briefs[i] + 1 \in Revisions /\ i \in missions
      BY <2>2, <1>1, ScopeAssumptions DEF Inv, DataOK, Revisions
    <3>2. briefs' \in [Ideas -> Revisions] /\ \A j \in Ideas \ {i} : briefs'[j] = briefs[j]
      BY <2>2, <3>1, <1>1 DEF Inv, DataOK
    <3>. QED BY <3>1, <3>2, <1>3 DEF Inv, DataOK
  <2>. QED BY <2>1, <2>2, <1>3
<1>5. Requested'
  BY <1>2, <1>3, IdleTyped DEF Inv, Requested
<1>6. CommandsRecorded' /\ AgreedAsShown'
  BY <1>3 DEF Inv, CommandsRecorded, AgreedAsShown, Known
<1>. QED BY <1>2, <1>4, <1>5, <1>6 DEF Inv

\* A new version follows the displayed one under a command of its own.
LEMMA PutStep ==
  ASSUME Inv, NEW t \in Threads, Put(t)
  PROVE  Inv'
<1>. DEFINE i == thread[t].idea
            asked == thread[t].asked
            c == thread[t].command
<1>1. /\ i \in Ideas /\ asked \in Request /\ c \in Commands /\ asked.kind \in {"draft", "edit", "agree"}
      /\ Content(asked) /\ BriefUnchanged(i, asked) /\ ~Known(c)
  <2>1. thread[t].pc = "put" /\ thread[t] \in Serving
    BY DEF Inv, LocksOK, Put
  <2>2. i \in Ideas /\ asked \in Request
    BY <2>1 DEF Serving
  <2>3. c \in Commands /\ Content(asked) /\ BriefUnchanged(i, asked) /\ ~Known(c)
    BY <2>1 DEF Inv, Requested, AsBegun, Begun
  <2>. HIDE DEF i, asked, c
  <2>. QED BY <2>2, <2>3 DEF Request, Content
<1>2. LocksOK' /\ AsBegun' /\ \A u \in Threads : thread'[u] = IF u = t THEN Idle ELSE thread[u]
  BY FreeToWrite DEF Put, Holding
<1>3. PICK s \in NewScopes(i, asked) :
        plans' = [plans EXCEPT ![i] = Append(@,
          [state |-> IF asked.kind = "agree" THEN "scope_agreed" ELSE "draft",
           brief |-> briefs[i], scope |-> s, command |-> c, asked |-> asked])]
  BY DEF Put
<1>4. /\ commands' = commands \cup {<<c, i, asked>>} /\ Accepted(i, asked)
      /\ UNCHANGED <<briefs, missions, compositions>>
  BY DEF Put, core
<1>. HIDE DEF i, asked, c
<1>. DEFINE v == [state |-> IF asked.kind = "agree" THEN "scope_agreed" ELSE "draft",
                  brief |-> briefs[i], scope |-> s, command |-> c, asked |-> asked]
            n == Len(plans[i])
<1>5. /\ plans[i] \in Seq(Version) /\ n \in Nat /\ briefs[i] \in Revisions \ {0}
      /\ asked.kind # "draft" => n > 0 /\ asked.plan = n /\ plans[i][n] \in Version
                                 /\ plans[i][n].brief = asked.brief
  BY <1>1, <1>4 DEF Inv, DataOK, BriefUnchanged, Accepted, Displayed, Latest, Revisions, Request, Numbers
<1>6. /\ s \in Scopes
      /\ asked.kind = "agree" => s = plans[i][n].scope /\ s \in Agreeable
  <2>1. CASE asked.kind = "draft"
    BY <2>1, <1>3 DEF NewScopes
  <2>2. CASE asked.kind = "edit"
    BY <2>2, <1>1, <1>3 DEF NewScopes, Content
  <2>3. CASE asked.kind = "agree"
    BY <2>3, <1>3, <1>5 DEF NewScopes, Latest, Version
  <2>. QED BY <2>1, <2>2, <2>3, <1>1
<1>7. v \in Version
  BY <1>1, <1>5, <1>6 DEF Version
<1>. HIDE DEF v, n
<1>8. /\ plans' \in [Ideas -> Seq(Version)]
      /\ \A j \in Ideas \ {i} : plans'[j] = plans[j]
      /\ DOMAIN plans'[i] = 1 .. n + 1 /\ DOMAIN plans[i] = 1 .. n
      /\ plans'[i][n + 1] = v /\ \A m \in 1 .. n : plans'[i][m] = plans[i][m]
  <2>1. plans' = [plans EXCEPT ![i] = Append(plans[i], v)]
    BY <1>3 DEF v
  <2>2. Append(plans[i], v) \in Seq(Version) /\ Len(Append(plans[i], v)) = n + 1
    BY <1>5, <1>7 DEF n
  <2>3. plans'[i] = Append(plans[i], v)
    BY <2>1, <1>1 DEF Inv, DataOK
  <2>4. plans' \in [Ideas -> Seq(Version)] /\ \A j \in Ideas \ {i} : plans'[j] = plans[j]
    BY <2>1, <2>2, <1>1 DEF Inv, DataOK
  <2>5. DOMAIN plans'[i] = 1 .. n + 1 /\ DOMAIN plans[i] = 1 .. n
    BY <2>2, <2>3, <1>5 DEF n
  <2>6. plans'[i][n + 1] = v /\ \A m \in 1 .. n : plans'[i][m] = plans[i][m]
    BY <2>3, <1>5, <1>7 DEF n
  <2>. QED BY <2>4, <2>5, <2>6
<1>9. DataOK'
  <2>1. <<c, i, asked>> \in Commands \X Ideas \X Request
    BY <1>1
  <2>2. commands' \subseteq Commands \X Ideas \X Request
    BY <2>1, <1>4 DEF Inv, DataOK
  <2>. QED BY <2>2, <1>4, <1>8 DEF Inv, DataOK
<1>10. Requested'
  BY <1>2, <1>4, IdleTyped DEF Inv, Requested
<1>11. CommandsRecorded'
  <2>1. /\ \E k \in commands' : k[1] = c
        /\ \A d : Known(d) => \E k \in commands' : k[1] = d
    <3>1. <<c, i, asked>>[1] = c /\ <<c, i, asked>> \in commands'
      BY <1>4
    <3>. QED BY <3>1, <1>4 DEF Known
  <2>2. v.command = c
    BY DEF v
  <2>. SUFFICES ASSUME NEW j \in Ideas, NEW m \in DOMAIN plans'[j]
                PROVE  \E k \in commands' : k[1] = plans'[j][m].command
    BY DEF CommandsRecorded, Known
  <2>3. CASE j = i /\ m = n + 1
    BY <2>1, <2>2, <2>3, <1>8
  <2>4. CASE ~(j = i /\ m = n + 1)
    <3>1. m \in DOMAIN plans[j] /\ plans'[j][m] = plans[j][m]
      BY <2>4, <1>8, <1>5 DEF n
    <3>2. Known(plans[j][m].command)
      BY <3>1 DEF Inv, CommandsRecorded
    <3>. QED BY <3>1, <3>2, <2>1
  <2>. QED BY <2>3, <2>4
<1>12. AgreedAsShown'
  <2>. SUFFICES ASSUME NEW j \in Ideas, NEW m \in DOMAIN plans'[j],
                       plans'[j][m].state = "scope_agreed"
                PROVE  /\ m > 1 /\ plans'[j][m].asked.plan = m - 1
                       /\ plans'[j][m].asked.brief = plans'[j][m].brief
                       /\ plans'[j][m - 1].scope = plans'[j][m].scope
                       /\ plans'[j][m - 1].brief = plans'[j][m].brief
                       /\ plans'[j][m].scope \in Agreeable
                       /\ \A k \in Ideas : \A l \in DOMAIN plans'[k] :
                            plans'[k][l].command = plans'[j][m].command => <<k, l>> = <<j, m>>
    BY DEF AgreedAsShown
  <2>1. \A k \in Ideas : \A l \in DOMAIN plans[k] : plans[k][l].command # c
    BY <1>1 DEF Inv, CommandsRecorded
  <2>2. v.command = c
    BY DEF v
  <2>3. CASE j = i /\ m = n + 1
    <3>1. asked.kind = "agree"
      BY <2>3, <1>8 DEF v
    <3>2. /\ v.asked.plan = n /\ v.asked.brief = v.brief /\ v.scope = s /\ n > 0 /\ n \in Nat
          /\ plans[i][n].brief = v.brief
      BY <3>1, <1>1, <1>5 DEF v, BriefUnchanged, n
    <3>3. \A k \in Ideas : \A l \in DOMAIN plans'[k] :
            plans'[k][l].command = c => <<k, l>> = <<j, m>>
      <4>1. ASSUME NEW k \in Ideas, NEW l \in DOMAIN plans'[k], ~(k = i /\ l = n + 1)
            PROVE  plans'[k][l].command # c
        <5>1. l \in DOMAIN plans[k] /\ plans'[k][l] = plans[k][l]
          BY <4>1, <1>8, <1>5 DEF n
        <5>. QED BY <5>1, <2>1
      <4>. QED BY <4>1, <2>3
    <3>. QED BY <2>2, <2>3, <3>1, <3>2, <3>3, <1>6, <1>8 DEF n
  <2>4. CASE ~(j = i /\ m = n + 1)
    <3>1. /\ m \in DOMAIN plans[j] /\ plans'[j][m] = plans[j][m]
          /\ m > 1 => plans'[j][m - 1] = plans[j][m - 1]
      <4>1. CASE j = i
        BY <4>1, <2>4, <1>8, <1>5 DEF n
      <4>2. CASE j # i
        BY <4>2, <1>8
      <4>. QED BY <4>1, <4>2
    <3>2. /\ m > 1 /\ plans[j][m].asked.plan = m - 1 /\ plans[j][m].asked.brief = plans[j][m].brief
          /\ plans[j][m - 1].scope = plans[j][m].scope /\ plans[j][m - 1].brief = plans[j][m].brief
          /\ plans[j][m].scope \in Agreeable
          /\ \A k \in Ideas : \A l \in DOMAIN plans[k] :
               plans[k][l].command = plans[j][m].command => <<k, l>> = <<j, m>>
      BY <3>1 DEF Inv, AgreedAsShown
    <3>3. plans[j][m].command # c
      BY <3>1, <2>1
    <3>4. ASSUME NEW k \in Ideas, NEW l \in DOMAIN plans'[k], plans'[k][l].command = plans'[j][m].command
          PROVE  <<k, l>> = <<j, m>>
      <4>1. ~(k = i /\ l = n + 1)
        BY <3>1, <3>3, <3>4, <2>2, <1>8
      <4>2. l \in DOMAIN plans[k] /\ plans'[k][l] = plans[k][l]
        <5>1. CASE k = i
          BY <5>1, <4>1, <1>8, <1>5 DEF n
        <5>2. CASE k # i
          BY <5>2, <1>8
        <5>. QED BY <5>1, <5>2
      <4>. QED BY <4>2, <3>1, <3>2, <3>4
    <3>. QED BY <3>1, <3>2, <3>4
  <2>. QED BY <2>3, <2>4
<1>. QED BY <1>2, <1>9, <1>10, <1>11, <1>12 DEF Inv

-----------------------------------------------------------------------------
(* Every step. *)

LEMMA InitInv == Init => Inv
<1>. SUFFICES ASSUME Init PROVE Inv
  OBVIOUS
<1>1. PICK s \in Scopes :
        plans = [i \in Ideas |->
          IF i \in Saved THEN <<[state |-> "draft", brief |-> 1, scope |-> s,
                                command |-> FirstDraft[i], asked |-> DraftOf(1)]>>
          ELSE <<>>]
  BY DEF Init
<1>2. 1 \in Revisions \ {0} /\ 0 \in Revisions /\ DraftOf(1) \in Request
  BY ScopeAssumptions DEF Revisions, DraftOf, Request, Numbers
<1>3. \A i \in Saved : [state |-> "draft", brief |-> 1, scope |-> s,
                        command |-> FirstDraft[i], asked |-> DraftOf(1)] \in Version
  BY <1>2, ScopeAssumptions DEF Version
<1>4. DataOK
  <2>1. plans \in [Ideas -> Seq(Version)]
    BY <1>1, <1>3
  <2>2. commands \subseteq Commands \X Ideas \X Request
    BY <1>2, ScopeAssumptions DEF Init
  <2>3. briefs \in [Ideas -> Revisions] /\ {i \in Ideas : briefs[i] > 0} \subseteq missions
    BY <1>2 DEF Init
  <2>. QED BY <2>1, <2>2, <2>3, ScopeAssumptions DEF Init, DataOK
<1>5. LocksOK
  BY IdleTyped, ScopeAssumptions DEF Init, LocksOK, Nobody, Holding
<1>6. Requested /\ AsBegun
  BY IdleTyped DEF Init, Requested, AsBegun, Begun
<1>7. \A i \in Ideas : \A n \in DOMAIN plans[i] :
        i \in Saved /\ plans[i][n].state = "draft" /\ plans[i][n].command = FirstDraft[i]
  BY <1>1
<1>8. AgreedAsShown
  BY <1>7 DEF AgreedAsShown
<1>9. CommandsRecorded
  <2>1. ASSUME NEW i \in Saved PROVE Known(FirstDraft[i])
    <3>1. <<FirstDraft[i], i, DraftOf(1)>> \in commands
      BY DEF Init
    <3>. QED BY <3>1 DEF Known
  <2>. QED BY <2>1, <1>7 DEF CommandsRecorded
<1>. QED BY <1>4, <1>5, <1>6, <1>8, <1>9 DEF Inv

\* What clients may send are well-formed requests.
LEMMA SendStep ==
  ASSUME Inv, NEW t \in Threads, NEW i \in Ideas, Send(t, i)
  PROVE  Inv'
<1>1. /\ NoRequest \in Request /\ NoCommand \in Commands \cup {NoCommand}
      /\ \A b \in 1 .. MaxRevision :
           /\ [NoRequest EXCEPT !.brief = b] \in Request
           /\ DraftOf(b) \in Request /\ Content(DraftOf(b))
           /\ \A p \in Numbers :
                /\ [NoRequest EXCEPT !.brief = b, !.plan = p] \in Request
                /\ [kind |-> "agree", brief |-> b, plan |-> p, scope |-> NoScope] \in Request
                /\ \A s \in Scopes :
                     [kind |-> "edit", brief |-> b, plan |-> p, scope |-> s] \in Request
  <2>1. 0 \in Revisions /\ 0 \in Numbers /\ 1 .. MaxRevision \subseteq Revisions
    BY ScopeAssumptions DEF Revisions, Numbers
  <2>2. NoRequest \in Request
    BY <2>1 DEF NoRequest, Request
  <2>3. \A b \in 1 .. MaxRevision :
          [NoRequest EXCEPT !.brief = b] \in Request /\ DraftOf(b) \in Request /\ Content(DraftOf(b))
    BY <2>1 DEF NoRequest, Request, DraftOf, Content
  <2>4. \A b \in 1 .. MaxRevision, p \in Numbers :
          /\ [NoRequest EXCEPT !.brief = b, !.plan = p] \in Request
          /\ [kind |-> "agree", brief |-> b, plan |-> p, scope |-> NoScope] \in Request
    BY <2>1 DEF NoRequest, Request
  <2>5. \A b \in 1 .. MaxRevision, p \in Numbers, s \in Scopes :
          [kind |-> "edit", brief |-> b, plan |-> p, scope |-> s] \in Request
    BY <2>1 DEF Request
  <2>. QED BY <2>2, <2>3, <2>4, <2>5
<1>2. 1 .. MaxVersions \subseteq Numbers
  BY DEF Numbers
<1>3. CASE SendCreate(t, i) \/ SendView(t, i)
  BY <1>1, <1>3, ArriveStep DEF SendCreate, SendView
<1>4. ASSUME NEW b \in 1 .. MaxRevision, SendSave(t, i, b) PROVE Inv'
  BY <1>1, <1>4, ArriveStep DEF SendSave
<1>5. ASSUME NEW b \in 1 .. MaxRevision, NEW p \in Numbers, SendAssess(t, i, b, p) PROVE Inv'
  BY <1>1, <1>5, ArriveStep DEF SendAssess
<1>6. ASSUME NEW b \in 1 .. MaxRevision, NEW c \in Commands, SendDraft(t, i, c, b) PROVE Inv'
  BY <1>1, <1>6, ArriveStep DEF SendDraft
<1>7. ASSUME NEW b \in 1 .. MaxRevision, NEW c \in Commands, NEW p \in 1 .. MaxVersions,
             SendAgree(t, i, c, b, p)
      PROVE  Inv'
  <2>. DEFINE asked == [kind |-> "agree", brief |-> b, plan |-> p, scope |-> NoScope]
  <2>1. asked \in Request /\ Content(asked)
    BY <1>1, <1>2 DEF Content
  <2>2. Arrive(t, i, "write", c, asked)
    BY <1>7 DEF SendAgree
  <2>. QED BY <2>1, <2>2, ArriveStep
<1>8. ASSUME NEW b \in 1 .. MaxRevision, NEW c \in Commands, NEW p \in 1 .. MaxVersions,
             NEW s \in Scopes, SendEdit(t, i, c, b, p, s)
      PROVE  Inv'
  <2>. DEFINE asked == [kind |-> "edit", brief |-> b, plan |-> p, scope |-> s]
  <2>1. asked \in Request /\ Content(asked)
    BY <1>1, <1>2 DEF Content
  <2>2. Arrive(t, i, "write", c, asked)
    BY <1>8 DEF SendEdit
  <2>. QED BY <2>1, <2>2, ArriveStep
<1>. QED BY <1>3, <1>4, <1>5, <1>6, <1>7, <1>8 DEF Send

\* Each step of a request keeps the invariant.
LEMMA WorkStep ==
  ASSUME Inv, NEW t \in Threads, Work(t)
  PROVE  Inv'
<1>. USE DEF core, bounds
<1>1. CASE CreateLocked(t)
  <2>1. CASE End(t)
    BY <1>1, <2>1, EndStep DEF CreateLocked
  <2>2. CASE Goto(t, "intake") /\ coreLock' = t /\ UNCHANGED writeLock
    <3>1. DataOK' /\ UNCHANGED <<briefs, plans, commands, missions>>
      BY <1>1 DEF Inv, DataOK, CreateLocked
    <3>2. /\ thread[t].pc \notin Holding /\ coreLock = Nobody /\ "intake" \notin Holding
          /\ t # Nobody /\ "intake" # "put" /\ "intake" # "compose"
      BY <1>1, ScopeAssumptions DEF CreateLocked, Holding, Nobody
    <3>3. /\ writeLock' \in Threads \cup {Nobody} /\ coreLock' \in Threads \cup {Nobody}
          /\ \A u \in Threads \ {t} :
               (writeLock' = u <=> writeLock = u) /\ (coreLock' = u <=> coreLock = u)
      BY <2>2, <3>2, ScopeAssumptions DEF Inv, LocksOK, Nobody
    <3>4. /\ "intake" \in Holding <=> writeLock' = t
          /\ "intake" \in {"intake", "record"} <=> coreLock' = t
      BY <2>2, <3>2 DEF Inv, LocksOK
    <3>. QED BY <2>2, <3>1, <3>2, <3>3, <3>4, GotoStep
  <2>. QED BY <1>1, <2>1, <2>2 DEF CreateLocked
<1>2. CASE Intake(t)
  <2>1. thread[t].pc = "intake" /\ thread[t].idea \in Ideas
    BY <1>2 DEF Intake, Inv, LocksOK, Serving
  <2>2. DataOK' /\ thread[t].idea \in missions' /\ missions \subseteq missions'
    BY <1>2, <2>1 DEF Inv, DataOK, Intake
  <2>3. "record" \notin Holding /\ thread[t].pc \notin Holding
    BY <2>1 DEF Holding
  <2>. QED BY <1>2, <2>1, <2>2, <2>3, GotoStep DEF Intake, Inv, LocksOK
<1>3. CASE Record(t) \/ SaveBrief(t) \/ Put(t)
  BY <1>3, RecordStep, SaveStep, PutStep
<1>4. CASE WriteBegin(t)
  <2>1. CASE End(t)
    BY <1>4, <2>1, EndStep DEF WriteBegin
  <2>2. CASE /\ ~Known(thread[t].command) /\ BriefUnchanged(thread[t].idea, thread[t].asked)
             /\ Goto(t, "put") /\ writeLock' = t /\ UNCHANGED coreLock
    <3>1. DataOK' /\ UNCHANGED <<briefs, plans, commands, missions>>
      BY <1>4 DEF Inv, DataOK, WriteBegin
    <3>2. /\ "put" \in Holding /\ t # Nobody /\ writeLock = Nobody /\ coreLock # t
          /\ thread[t].command \in Commands /\ Content(thread[t].asked)
      BY <1>4, ScopeAssumptions DEF WriteBegin, Holding, Nobody, Inv, LocksOK, Requested
    <3>3. /\ writeLock' \in Threads \cup {Nobody} /\ coreLock' \in Threads \cup {Nobody}
          /\ \A u \in Threads \ {t} :
               (writeLock' = u <=> writeLock = u) /\ (coreLock' = u <=> coreLock = u)
      BY <2>2, <3>2, ScopeAssumptions DEF Inv, LocksOK, Nobody
    <3>4. /\ "put" \in Holding <=> writeLock' = t
          /\ "put" \in {"intake", "record"} <=> coreLock' = t
          /\ "put" # "record" /\ "put" # "compose"
      BY <2>2, <3>2
    <3>. QED BY <2>2, <3>1, <3>2, <3>3, <3>4, GotoStep
  <2>. QED BY <1>4, <2>1, <2>2 DEF WriteBegin
<1>5. CASE PutRefused(t) \/ View(t) \/ Close(t) \/ Timeout(t)
  BY <1>5, EndStep DEF PutRefused, View, Close, Timeout
<1>6. CASE AssessBegin(t)
  <2>1. CASE End(t)
    BY <1>6, <2>1, EndStep DEF AssessBegin
  <2>2. CASE /\ SameSnapshot(thread[t].idea, thread[t].asked) /\ AgreedNow(thread[t].idea)
             /\ Goto(t, "compose") /\ writeLock' = t /\ UNCHANGED coreLock
    <3>1. DataOK' /\ UNCHANGED <<briefs, plans, commands, missions>>
      BY <1>6 DEF Inv, DataOK, AssessBegin
    <3>2. "compose" \in Holding /\ t # Nobody /\ writeLock = Nobody /\ coreLock # t
      BY <1>6, ScopeAssumptions DEF AssessBegin, Holding, Nobody, Inv, LocksOK
    <3>3. /\ writeLock' \in Threads \cup {Nobody} /\ coreLock' \in Threads \cup {Nobody}
          /\ \A u \in Threads \ {t} :
               (writeLock' = u <=> writeLock = u) /\ (coreLock' = u <=> coreLock = u)
      BY <2>2, <3>2, ScopeAssumptions DEF Inv, LocksOK, Nobody
    <3>4. /\ "compose" \in Holding <=> writeLock' = t
          /\ "compose" \in {"intake", "record"} <=> coreLock' = t
          /\ "compose" # "record" /\ "compose" # "put"
      BY <2>2, <3>2
    <3>. QED BY <2>2, <3>1, <3>2, <3>3, <3>4, GotoStep
  <2>. QED BY <1>6, <2>1, <2>2 DEF AssessBegin, Immediate
<1>7. CASE Compose(t)
  <2>1. thread[t].idea \in Ideas /\ thread[t].asked \in Request /\ thread[t].pc = "compose"
    BY <1>7 DEF Compose, Inv, LocksOK, Serving
  <2>2. <<thread[t].idea, thread[t].asked.brief, thread[t].asked.plan>> \in Ideas \X Revisions \X Numbers
    BY <2>1 DEF Request
  <2>3. DataOK'
    BY <1>7, <2>2 DEF Compose, Inv, DataOK
  <2>4. "close" \in Holding /\ writeLock = t /\ coreLock # t
    BY <2>1 DEF Holding, Inv, LocksOK
  <2>. QED BY <1>7, <2>3, <2>4, GotoStep DEF Compose, Inv, LocksOK
<1>. QED BY <1>1, <1>2, <1>3, <1>4, <1>5, <1>6, <1>7 DEF Work

\* A restart frees the locks and keeps the database.
LEMMA RestartStep ==
  ASSUME Inv, Restart
  PROVE  Inv'
<1>1. /\ \A t \in Threads : thread'[t] = Idle
      /\ thread' \in [Threads -> Serving] /\ writeLock' = Nobody /\ coreLock' = Nobody
      /\ UNCHANGED <<briefs, plans, commands, missions, compositions>>
  BY IdleTyped DEF Restart, core
<1>2. LocksOK'
  BY <1>1, IdleTyped, ScopeAssumptions DEF LocksOK, Holding, Nobody
<1>3. DataOK'
  BY <1>1 DEF Inv, DataOK
<1>4. Requested' /\ AsBegun'
  BY <1>1, IdleTyped DEF Requested, AsBegun, Begun
<1>. QED BY <1>1, <1>2, <1>3, <1>4, SameDatabase DEF Inv

\* The invariant is inductive.
LEMMA NextInv == Inv /\ [Next]_vars => Inv'
<1>. SUFFICES ASSUME Inv, [Next]_vars PROVE Inv'
  OBVIOUS
<1>1. CASE UNCHANGED vars
  BY <1>1 DEF vars, core, bounds, Inv, DataOK, LocksOK, Requested, AsBegun, Begun, Known,
    BriefUnchanged, SameSnapshot, AgreedNow, Latest, CommandsRecorded, AgreedAsShown
<1>2. ASSUME NEW t \in Threads, Raise(t) PROVE Inv'
  BY <1>2, EndStep DEF Raise, core
<1>. QED BY <1>1, <1>2, WorkStep, SendStep, RestartStep DEF Next

\* Only compose records an assessment.
LEMMA OnlyCompose ==
  ASSUME [Next]_vars, compositions' # compositions
  PROVE  \E t \in Threads : Compose(t)
<1>. USE DEF core, bounds
<1>1. ASSUME NEW t \in Threads, Work(t) PROVE Compose(t) \/ compositions' = compositions
  <2>1. CASE CreateLocked(t) \/ Intake(t) \/ Record(t) \/ SaveBrief(t)
    BY <2>1 DEF CreateLocked, Intake, Record, SaveBrief
  <2>2. CASE WriteBegin(t) \/ Put(t) \/ PutRefused(t)
    BY <2>2 DEF WriteBegin, Put, PutRefused
  <2>3. CASE View(t) \/ AssessBegin(t) \/ Close(t) \/ Timeout(t)
    BY <2>3 DEF View, AssessBegin, Close, Timeout
  <2>. QED BY <1>1, <2>1, <2>2, <2>3 DEF Work
<1>2. ASSUME NEW t \in Threads, NEW i \in Ideas, Send(t, i) PROVE compositions' = compositions
  BY <1>2 DEF Send, SendCreate, SendView, SendSave, SendAssess, SendDraft, SendEdit, SendAgree, Arrive
<1>3. ASSUME NEW t \in Threads, Raise(t) PROVE compositions' = compositions
  BY <1>3 DEF Raise
<1>4. CASE Restart \/ UNCHANGED vars
  BY <1>4 DEF Restart, vars
<1>. QED BY <1>1, <1>2, <1>3, <1>4 DEF Next

\* The invariant holds throughout: in particular, what a transaction read when
\* it began is still so when it writes.
THEOREM Invariance == Spec => []Inv
BY InitInv, NextInv, PTL DEF Spec

\* Types, the locks' holders, and a mission in Core for every brief.
THEOREM TypeCorrect == Spec => []TypeOK
<1>1. Inv => TypeOK
  BY DEF Inv, DataOK, LocksOK, Serving, TypeOK
<1>. QED BY <1>1, Invariance, PTL

\* An agreement is to the version its sender was shown (ScopePlans.write).
THEOREM Agreements == Spec => []AgreedAsShown
<1>1. Inv => AgreedAsShown
  BY DEF Inv
<1>. QED BY <1>1, Invariance, PTL

\* Core's assessments are of what is agreed to and current (GameTeams.assess).
THEOREM Assessments == Spec => AssessedIsCurrent
<1>1. ASSUME Inv, [Next]_vars, NEW a \in compositions' \ compositions
      PROVE  AgreedNow(a[1]) /\ a[2] = briefs[a[1]] /\ a[3] = Len(plans[a[1]])
  <2>1. PICK t \in Threads : Compose(t)
    BY <1>1, OnlyCompose
  <2>2. a = <<thread[t].idea, thread[t].asked.brief, thread[t].asked.plan>>
    BY <1>1, <2>1 DEF Compose
  <2>3. SameSnapshot(thread[t].idea, thread[t].asked) /\ AgreedNow(thread[t].idea)
    BY <1>1, <2>1 DEF Compose, Inv, AsBegun, Begun
  <2>. QED BY <2>2, <2>3 DEF SameSnapshot
<1>2. Inv /\ [Next]_vars =>
        [\A a \in compositions' \ compositions :
           AgreedNow(a[1]) /\ a[2] = briefs[a[1]] /\ a[3] = Len(plans[a[1]])]_vars
  BY <1>1
<1>. QED BY <1>2, Invariance, PTL DEF Spec, AssessedIsCurrent

=============================================================================
