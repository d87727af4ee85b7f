----------------------------- MODULE ScopePlans -----------------------------
(***************************************************************************)
(* Scope plans and team assessments (scope_plans.py, game_team.py) over    *)
(* the briefs of game_briefs.py.  Request threads save versions of a       *)
(* brief, draft, edit and agree to versions of its plan, and have Core     *)
(* record an assessment of the agreed one.                                 *)
(*                                                                         *)
(* Two locks are at work.  Writers of the database begin IMMEDIATE: they   *)
(* hold its one write lock to the end of the transaction, and a connection *)
(* that waits for it gives up after its timeout.  core_lock guards Core's  *)
(* database and is waited for without end.  create takes core_lock first,  *)
(* assess the write lock first.                                            *)
(*                                                                         *)
(* One actor.  A scope is a value of Scopes, and Agreeable are those that  *)
(* evaluate has no limitation for.                                         *)
(***************************************************************************)
EXTENDS Naturals, Sequences

CONSTANTS
  Ideas,       \* briefs, by their create command
  Saved,       \* those in the database at the start, each with a plan's draft
  FirstDraft,  \* FirstDraft[i]: the command that made it
  Scopes, Agreeable,
  Commands,    \* command ids of plan requests
  Threads,
  MaxRevision, \* bound: revisions of a brief
  MaxVersions, \* bound: versions of a plan
  MaxRequests, \* bound: requests sent
  MaxFaults    \* bound: exceptions and kills

ASSUME ScopeAssumptions ==
  /\ Ideas # {} /\ "nobody" \notin Threads
  /\ Saved \subseteq Ideas /\ FirstDraft \in [Saved -> Commands] /\ Agreeable \subseteq Scopes
  /\ MaxRevision \in Nat \ {0} /\ MaxVersions \in Nat \ {0}
  /\ MaxRequests \in Nat /\ MaxFaults \in Nat

VARIABLES
  briefs,       \* briefs[i]: revision of the brief, 0 before its create
  plans,        \* plans[i]: versions of the brief's plan, in order
  commands,     \* scope_commands: the request saved under each id
  missions,     \* Core: mission drafts
  compositions, \* Core: assessments, by the snapshot in their key
  writeLock,    \* thread that holds the database's write lock
  coreLock,     \* thread that holds core_lock
  thread,       \* thread[t]: the request it serves and how far it got
  requests, faults \* counters of the bounds

vars == <<briefs, plans, commands, missions, compositions, writeLock, coreLock,
          thread, requests, faults>>
core   == <<missions, compositions>>
bounds == <<requests, faults>>

Nobody    == "nobody"
NoScope   == "none"
NoCommand == "none"
Revisions == 0 .. MaxRevision
Numbers   == 0 .. MaxVersions

\* A plan request, as its digest covers it.
Request == [kind : {"draft", "edit", "agree", "none"}, brief : Revisions, plan : Numbers,
            scope : Scopes \cup {NoScope}]
NoRequest == [kind |-> "none", brief |-> 0, plan |-> 0, scope |-> NoScope]

Version == [state : {"draft", "scope_agreed"}, brief : Revisions \ {0}, scope : Scopes,
            command : Commands, asked : Request]

DraftOf(b) == [kind |-> "draft", brief |-> b, plan |-> 0, scope |-> NoScope]

\* Steps that wait for the write lock, and steps that hold it.
Waiting == {"record", "save", "view", "write", "assess"}
Holding == {"put", "compose", "close"}

Idle == [pc |-> "idle", idea |-> CHOOSE i \in Ideas : TRUE, command |-> NoCommand,
         asked |-> NoRequest]

TypeOK ==
  /\ briefs \in [Ideas -> Revisions]
  /\ plans \in [Ideas -> Seq(Version)]
  /\ commands \subseteq Commands \X Ideas \X Request
  /\ missions \subseteq Ideas /\ {i \in Ideas : briefs[i] > 0} \subseteq missions
  /\ compositions \subseteq Ideas \X Revisions \X Numbers
  /\ thread \in [Threads -> [pc : {"idle", "create", "intake"} \cup Waiting \cup Holding,
                             idea : Ideas, command : Commands \cup {NoCommand}, asked : Request]]
  /\ writeLock \in Threads \cup {Nobody} /\ coreLock \in Threads \cup {Nobody}
  /\ \A t \in Threads : /\ thread[t].pc \in Holding <=> writeLock = t
                        /\ thread[t].pc \in {"intake", "record"} <=> coreLock = t

Init ==
  /\ briefs = [i \in Ideas |-> IF i \in Saved THEN 1 ELSE 0]
  /\ \E s \in Scopes :
       plans = [i \in Ideas |->
         IF i \in Saved THEN <<[state |-> "draft", brief |-> 1, scope |-> s,
                               command |-> FirstDraft[i], asked |-> DraftOf(1)]>>
         ELSE <<>>]
  /\ commands = {<<FirstDraft[i], i, DraftOf(1)>> : i \in Saved}
  /\ missions = Saved /\ compositions = {}
  /\ writeLock = Nobody /\ coreLock = Nobody
  /\ thread = [t \in Threads |-> Idle]
  /\ requests = 0 /\ faults = 0

-----------------------------------------------------------------------------
(* Requests arrive, naming versions that were once shown; any may be sent again. *)

Arrive(t, i, pc, command, asked) ==
  /\ thread[t].pc = "idle" /\ requests < MaxRequests
  /\ asked.brief <= briefs[i] /\ asked.plan <= Len(plans[i])
  /\ thread' = [thread EXCEPT ![t] = [pc |-> pc, idea |-> i, command |-> command, asked |-> asked]]
  /\ requests' = requests + 1
  /\ UNCHANGED <<briefs, plans, commands, core, writeLock, coreLock, faults>>

SendCreate(t, i) == Arrive(t, i, "create", NoCommand, NoRequest)
SendView(t, i)   == Arrive(t, i, "view", NoCommand, NoRequest)

SendSave(t, i, b) == Arrive(t, i, "save", NoCommand, [NoRequest EXCEPT !.brief = b])

\* The snapshot of a page: the brief's revision and the plan's, 0 without one.
SendAssess(t, i, b, p) ==
  Arrive(t, i, "assess", NoCommand, [NoRequest EXCEPT !.brief = b, !.plan = p])

SendDraft(t, i, c, b) ==
  Arrive(t, i, "write", c, DraftOf(b))

SendEdit(t, i, c, b, p, s) ==
  Arrive(t, i, "write", c, [kind |-> "edit", brief |-> b, plan |-> p, scope |-> s])

SendAgree(t, i, c, b, p) ==
  Arrive(t, i, "write", c, [kind |-> "agree", brief |-> b, plan |-> p, scope |-> NoScope])

\* Variant: an exception leaves a lock behind.
Kept(lock, t) == lock

Released(lock, t) == IF lock = t THEN Nobody ELSE lock

Goto(t, pc) == thread' = [thread EXCEPT ![t].pc = pc]

\* The request is over, and the locks of its with statements are let go.
End(t) ==
  /\ thread' = [thread EXCEPT ![t] = Idle]
  /\ writeLock' = Released(writeLock, t) /\ coreLock' = Released(coreLock, t)

-----------------------------------------------------------------------------
(* create: core_lock, Core's draft, then the write lock. *)

CreateLocked(t) ==
  /\ thread[t].pc = "create" /\ coreLock = Nobody
  /\ IF briefs[thread[t].idea] > 0 THEN End(t)
     ELSE Goto(t, "intake") /\ coreLock' = t /\ UNCHANGED writeLock
  /\ UNCHANGED <<briefs, plans, commands, core, bounds>>

Intake(t) ==
  /\ thread[t].pc = "intake" /\ Goto(t, "record")
  /\ missions' = missions \cup {thread[t].idea}
  /\ UNCHANGED <<briefs, plans, commands, compositions, writeLock, coreLock, bounds>>

Record(t) ==
  /\ thread[t].pc = "record" /\ writeLock = Nobody
  /\ briefs' = [briefs EXCEPT ![thread[t].idea] = 1]
  /\ End(t)
  /\ UNCHANGED <<plans, commands, core, bounds>>

\* A version of the brief, by a human or from a suggestion: one transaction.
SaveBrief(t) ==
  LET i == thread[t].idea
  IN  /\ thread[t].pc = "save" /\ writeLock = Nobody
      /\ briefs' = IF briefs[i] = thread[t].asked.brief /\ briefs[i] \in 1 .. MaxRevision - 1
                   THEN [briefs EXCEPT ![i] = @ + 1] ELSE briefs
      /\ End(t)
      /\ UNCHANGED <<plans, commands, core, bounds>>

-----------------------------------------------------------------------------
(* write: a version of the plan *)

Known(c) == \E k \in commands : k[1] = c

BriefUnchanged(i, asked) == asked.brief >= 1 /\ briefs[i] = asked.brief

\* The lock is taken; a command on record and a changed brief end the request.
WriteBegin(t) ==
  LET r == thread[t]
  IN  /\ r.pc = "write" /\ writeLock = Nobody
      /\ IF Known(r.command) \/ ~BriefUnchanged(r.idea, r.asked) THEN End(t)
         ELSE Goto(t, "put") /\ writeLock' = t /\ UNCHANGED coreLock
      /\ UNCHANGED <<briefs, plans, commands, core, bounds>>

Latest(i) == plans[i][Len(plans[i])]

\* Variant: the brief the displayed version was made for is not compared.
SameNumber(i, asked) == asked.plan >= 1 /\ asked.plan = Len(plans[i])

\* The latest version is the displayed one, made for the present brief.
Displayed(i, asked) ==
  asked.plan >= 1 /\ asked.plan = Len(plans[i]) /\ Latest(i).brief = asked.brief

\* What the new version holds; a draft's comes from the template.
NewScopes(i, asked) ==
  CASE asked.kind = "draft" -> Scopes
    [] asked.kind = "edit"  -> {asked.scope}
    [] asked.kind = "agree" -> {Latest(i).scope} \cap Agreeable

Accepted(i, asked) ==
  /\ Len(plans[i]) < MaxVersions
  /\ asked.kind = "draft" \/ Displayed(i, asked)

Put(t) ==
  LET i == thread[t].idea
      asked == thread[t].asked
  IN  /\ thread[t].pc = "put"
      /\ Accepted(i, asked)
      /\ \E s \in NewScopes(i, asked) :
           plans' = [plans EXCEPT ![i] = Append(@,
             [state |-> IF asked.kind = "agree" THEN "scope_agreed" ELSE "draft",
              brief |-> briefs[i], scope |-> s, command |-> thread[t].command, asked |-> asked])]
      /\ commands' = commands \cup {<<thread[t].command, i, asked>>}
      /\ End(t)
      /\ UNCHANGED <<briefs, core, bounds>>

PutRefused(t) ==
  LET i == thread[t].idea
      asked == thread[t].asked
  IN  /\ thread[t].pc = "put"
      /\ ~Accepted(i, asked) \/ NewScopes(i, asked) = {}
      /\ End(t)
      /\ UNCHANGED <<briefs, plans, commands, core, bounds>>

-----------------------------------------------------------------------------
(* view and assess: a snapshot of brief and plan *)

View(t) ==
  /\ thread[t].pc = "view" /\ writeLock = Nobody
  /\ End(t)
  /\ UNCHANGED <<briefs, plans, commands, core, bounds>>

\* The latest version is agreed to and not stale.
AgreedNow(i) ==
  /\ plans[i] # <<>>
  /\ Latest(i).state = "scope_agreed" /\ Latest(i).brief = briefs[i]

SameSnapshot(i, asked) == asked.brief = briefs[i] /\ asked.plan = Len(plans[i])

\* Variant: the transaction begins DEFERRED.
Deferred(t) == UNCHANGED writeLock

Immediate(t) == writeLock' = t

AssessBegin(t) ==
  LET r == thread[t]
  IN  /\ r.pc = "assess" /\ writeLock = Nobody
      /\ IF SameSnapshot(r.idea, r.asked) /\ AgreedNow(r.idea)
         THEN Goto(t, "compose") /\ Immediate(t) /\ UNCHANGED coreLock
         ELSE End(t)
      /\ UNCHANGED <<briefs, plans, commands, core, bounds>>

\* core_lock is taken with the write lock held; Core finds a composition by its key.
Compose(t) ==
  /\ thread[t].pc = "compose" /\ coreLock = Nobody
  /\ compositions' = compositions \cup
       {<<thread[t].idea, thread[t].asked.brief, thread[t].asked.plan>>}
  /\ Goto(t, "close")
  /\ UNCHANGED <<briefs, plans, commands, missions, writeLock, coreLock, bounds>>

\* The answer's view is read before the transaction is closed.
Close(t) ==
  /\ thread[t].pc = "close" /\ End(t)
  /\ UNCHANGED <<briefs, plans, commands, core, bounds>>

-----------------------------------------------------------------------------
(* Failures. *)

\* Variant: a connection waits for the lock as long as it takes.
Endless == FALSE

Busy == writeLock # Nobody

\* The connection's timeout ends the wait for the write lock.
Timeout(t) ==
  /\ thread[t].pc \in Waiting /\ Busy
  /\ End(t)
  /\ UNCHANGED <<briefs, plans, commands, core, bounds>>

Raise(t) ==
  /\ thread[t].pc # "idle" /\ faults < MaxFaults
  /\ faults' = faults + 1
  /\ End(t)
  /\ UNCHANGED <<briefs, plans, commands, core, requests>>

\* The process is killed and started again.
Restart ==
  /\ faults < MaxFaults
  /\ faults' = faults + 1
  /\ thread' = [t \in Threads |-> Idle]
  /\ writeLock' = Nobody /\ coreLock' = Nobody
  /\ UNCHANGED <<briefs, plans, commands, core, requests>>

-----------------------------------------------------------------------------

Send(t, i) ==
  \/ SendCreate(t, i) \/ SendView(t, i)
  \/ \E b \in 1 .. MaxRevision :
       \/ SendSave(t, i, b)
       \/ \E p \in Numbers : SendAssess(t, i, b, p)
       \/ \E c \in Commands :
            \/ SendDraft(t, i, c, b)
            \/ \E p \in 1 .. MaxVersions :
                 \/ SendAgree(t, i, c, b, p)
                 \/ \E s \in Scopes : SendEdit(t, i, c, b, p, s)

Work(t) ==
  \/ CreateLocked(t) \/ Intake(t) \/ Record(t) \/ SaveBrief(t)
  \/ WriteBegin(t) \/ Put(t) \/ PutRefused(t)
  \/ View(t) \/ AssessBegin(t) \/ Compose(t) \/ Close(t)
  \/ Timeout(t)

Next ==
  \/ \E t \in Threads : Work(t) \/ Raise(t) \/ \E i \in Ideas : Send(t, i)
  \/ Restart

Spec     == Init /\ [][Next]_vars
FairSpec == Spec /\ \A t \in Threads : WF_vars(Work(t))

-----------------------------------------------------------------------------
(* Properties. *)

\* An agreement is to the version its sender was shown: the one before it, with
\* the same scope, made for the same brief; and its command agreed to nothing
\* else, however often it was sent (previous and scope_commands in write).
AgreedAsShown ==
  \A i \in Ideas : \A n \in DOMAIN plans[i] :
    LET v == plans[i][n]
    IN  v.state = "scope_agreed" =>
          /\ n > 1 /\ v.asked.plan = n - 1 /\ v.asked.brief = v.brief
          /\ plans[i][n - 1].scope = v.scope /\ plans[i][n - 1].brief = v.brief
          /\ v.scope \in Agreeable
          /\ \A j \in Ideas : \A m \in DOMAIN plans[j] :
               plans[j][m].command = v.command => <<j, m>> = <<i, n>>

\* Core records an assessment only of the plan that is agreed to for the brief
\* as it is at that moment, whatever was saved since the page was shown and
\* however long core_lock was waited for (assess; docs/game-teams.md: edits are
\* serialized while the assessment is prepared).
AssessedIsCurrent ==
  [][\A a \in compositions' \ compositions :
       AgreedNow(a[1]) /\ a[2] = briefs[a[1]] /\ a[3] = Len(plans[a[1]])]_vars

\* Every request ends, although create and assess take the two locks in
\* opposite orders (assess, create and the timeout of connect).
EveryRequestEnds ==
  \A t \in Threads : thread[t].pc # "idle" ~> thread[t].pc = "idle"

=============================================================================
