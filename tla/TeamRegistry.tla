---------------------------- MODULE TeamRegistry ----------------------------
(***************************************************************************)
(* The shared task register of scripts/team.py: one JSON document on the   *)
(* branch team-state of a Git remote.  Every command of every process      *)
(* fetches it, changes its own copy and pushes a commit, which the remote  *)
(* accepts only on top of the commit that was fetched; a refused or        *)
(* unanswered push is followed by another attempt, and the operation id in *)
(* the register's events tells whether an earlier one got through.         *)
(*                                                                         *)
(* Each accepted commit appends one event, so the number of events names   *)
(* the commit a push is based on.  A command's operation id is its place   *)
(* in the order commands were started, and a claim's fresh claim token is  *)
(* that number too.  GitHub's pull requests are the environment.  The gh   *)
(* call is made while a command works on its copy; it reads the register   *)
(* and the pull request in one step here, since a push that is accepted    *)
(* finds the register still as it was fetched.                             *)
(***************************************************************************)
EXTENDS Integers, Sequences, FiniteSets, SequencesExt

CONSTANTS
  Tasks, Workers, Branches,
  Dependencies,  \* Dependencies[t]: tasks to be done before t
  Required,      \* Required[t]: required_scopes of the catalogue
  Resources,     \* Resources[t]: shared resources t locks while active
  Scopes,        \* repository-relative paths, the repository first: sequences
  Clients,       \* processes that run team.py
  WorkerOf,      \* the worker name each is configured with
  Menu,          \* Menu[c]: the commands process c may be given
  Pulls,         \* pull requests
  HeadBranch,    \* HeadBranch[p]: the branch a pull request comes from
  Attempts,      \* pushes one command tries
  MaxOps,        \* bound: commands started
  MaxLate,       \* bound: pushes on their way without a process that waits
  MaxHead,       \* bound: commits pushed to a pull request
  None

Actions == {"claim", "heartbeat", "rescope", "block", "release", "review", "complete"}

Ask == [action : Actions, task : Tasks, branch : Branches \cup {None},
        scopes : SUBSET Scopes, pr : Pulls \cup {None}]

ASSUME RegistryAssumptions ==
  /\ None \notin Workers /\ None \notin Branches /\ None \notin Pulls
  /\ Dependencies \in [Tasks -> SUBSET Tasks]
  /\ Scopes \subseteq Seq(STRING) /\ Required \in [Tasks -> SUBSET Scopes]
  /\ DOMAIN Resources = Tasks
  /\ WorkerOf \in [Clients -> Workers] /\ HeadBranch \in [Pulls -> Branches]
  /\ Menu \in [Clients -> SUBSET Ask]
  /\ Attempts \in Nat \ {0} /\ MaxOps \in Nat /\ MaxLate \in Nat /\ MaxHead \in Nat
  /\ Pulls # {} => MaxHead > 0

VARIABLES
  register,  \* team-state.json on the remote: tasks and events
  late,      \* pushes whose process gave up and that may still be accepted
  client,    \* client[c]: the command of a process and how far it got
  token,     \* token[c]: team.claimId of the process's clone, 0 without one
  asked,     \* every command started: who asked what, and the answer
  pull       \* pull[p]: state and head commit of a pull request

vars == <<register, late, client, token, asked, pull>>

Ops == 0 .. MaxOps

Task == [status : {"planned", "claimed", "review", "blocked", "done"},
         owner  : Workers \cup {None},
         branch : Branches \cup {None},
         scopes : SUBSET Scopes,
         claim  : Ops,                    \* claim_id, which a release leaves in place
         pr     : Pulls \cup {None},
         head   : 0 .. MaxHead]           \* review_head

Event == [op : Ops, action : Actions, task : Tasks, worker : Workers,
          branch : Branches \cup {None}, claim : Ops]

Register == [tasks : [Tasks -> Task], events : Seq(Event)]

Push == [base : Nat, op : Ops, content : Register]

Unclaimed == [status |-> "planned", owner |-> None, branch |-> None, scopes |-> {},
              claim |-> 0, pr |-> None, head |-> 0]

NoPush == [base |-> 0, op |-> 0, content |-> None]
Idle   == [pc |-> "idle", op |-> 0, tried |-> 0, push |-> NoPush, claim |-> 0]

Answers == {"none", "ok", "refused", "unconfirmed"}

TypeOK ==
  /\ register \in Register
  /\ late \subseteq Push
  /\ client \in [Clients -> [pc : {"idle", "fetching", "pushing", "saving", "switching"},
                             op : Ops, tried : 0 .. Attempts, push : Push \cup {NoPush},
                             claim : Ops]]
  /\ token \in [Clients -> Ops]
  /\ asked \in Seq([client : Clients, ask : Ask, claim : Ops, stored : BOOLEAN, answer : Answers])
  /\ Len(asked) <= MaxOps
  /\ pull \in [Pulls -> [state : {"none", "OPEN", "MERGED", "CLOSED"}, head : 0 .. MaxHead]]

Init ==
  /\ register = [tasks |-> [t \in Tasks |-> Unclaimed], events |-> <<>>]
  /\ late = {}
  /\ client = [c \in Clients |-> Idle]
  /\ token = [c \in Clients |-> 0]
  /\ asked = <<>>
  /\ pull = [p \in Pulls |-> [state |-> "none", head |-> 0]]

-----------------------------------------------------------------------------
(* The rules, on a copy of the register. *)

Active == {"claimed", "review"}

Covers(parent, child) == IsPrefix(parent, child)

\* Variant: scopes are compared as strings.
SameScope(left, right) == left = right

Overlap(left, right) == Covers(left, right) \/ Covers(right, left)

CheckLocks(tasks, t, scopes) ==
  \A u \in Tasks \ {t} : tasks[u].status \in Active =>
    /\ \A left \in scopes, right \in tasks[u].scopes : ~Overlap(left, right)
    /\ Resources[t] \cap Resources[u] = {}

\* Variant: a dependency under review counts.
DependenciesReviewed(tasks, t) ==
  \A d \in Dependencies[t] : tasks[d].status \in {"review", "done"}

DependenciesDone(tasks, t) == \A d \in Dependencies[t] : tasks[d].status = "done"

\* validate_state, run on every fetch and on every changed copy.
ValidState(tasks) ==
  \A t \in Tasks : tasks[t].status \in Active =>
    /\ tasks[t].owner # None /\ tasks[t].scopes # {}
    /\ CheckLocks(tasks, t, tasks[t].scopes)
    /\ \A u \in Tasks \ {t} : tasks[u].status \in Active => tasks[u].branch # tasks[t].branch

\* Scopes asked for, with the catalogue's.
AllScopes(x) == Required[x.task] \cup x.scopes

MayClaim(s, x) ==
  LET task == s.tasks[x.task]
  IN  /\ task.status = "planned" /\ task.owner = None
      /\ DependenciesDone(s.tasks, x.task)
      /\ AllScopes(x) # {} /\ CheckLocks(s.tasks, x.task, AllScopes(x))
      /\ \A u \in Tasks : s.tasks[u].status \in Active => s.tasks[u].branch # x.branch
      /\ \A i \in DOMAIN s.events :
           ~(s.events[i].action = "claim" /\ s.events[i].branch = x.branch)

Own(task, w, allowed) == task.owner = w /\ task.status \in allowed

\* Variant: the owner's name is enough.
AnyClaim(task, claim) == claim > 0 /\ task.claim > 0

SameClaim(task, claim) == claim > 0 /\ claim = task.claim

\* pr_details: the pull request comes from the claimed branch.
Evidence(task, p) == p # None /\ pull[p].state # "none" /\ HeadBranch[p] = task.branch

\* Variant: any merged head will do.
MergedAtAnyHead(task, p) == pull[p].state = "MERGED" /\ pull[p].head > 0

MergedAtReviewedHead(task, p) == pull[p].state = "MERGED" /\ pull[p].head = task.head

MayTransition(s, w, x, claim) ==
  LET task == s.tasks[x.task]
  IN  /\ Own(task, w, IF x.action = "release" THEN Active \cup {"blocked"} ELSE Active)
      /\ SameClaim(task, claim)
      /\ x.action = "rescope" =>
           AllScopes(x) # {} /\ CheckLocks(s.tasks, x.task, AllScopes(x))
      /\ x.action \in {"review", "complete"} =>
           DependenciesDone(s.tasks, x.task) /\ Evidence(task, x.pr)
      /\ x.action = "review" => pull[x.pr].state = "OPEN"
      /\ x.action = "complete" =>
           task.status = "review" /\ task.pr = x.pr /\ MergedAtReviewedHead(task, x.pr)

\* The task after the command.
Changed(task, w, x, op) ==
  CASE x.action = "claim"     -> [status |-> "claimed", owner |-> w, branch |-> x.branch,
                                  scopes |-> AllScopes(x), claim |-> op, pr |-> None,
                                  head |-> 0]
    [] x.action = "heartbeat" -> task
    [] x.action = "rescope"   -> [task EXCEPT !.scopes = AllScopes(x)]
    [] x.action = "block"     -> [task EXCEPT !.status = "blocked", !.scopes = {}]
    [] x.action = "release"   -> [Unclaimed EXCEPT !.claim = task.claim]
    [] x.action = "review"    -> [task EXCEPT !.status = "review", !.pr = x.pr,
                                              !.head = pull[x.pr].head]
    [] x.action = "complete"  -> [task EXCEPT !.status = "done", !.scopes = {}]

\* The copy of the register after operation op, with its event.
Mutated(s, op) ==
  LET c    == asked[op].client
      x    == asked[op].ask
      task == Changed(s.tasks[x.task], WorkerOf[c], x, op)
  IN  [tasks  |-> [s.tasks EXCEPT ![x.task] = task],
       events |-> Append(s.events, [op |-> op, action |-> x.action, task |-> x.task,
                                    worker |-> WorkerOf[c], branch |-> task.branch,
                                    claim |-> task.claim])]

Permitted(s, op) ==
  LET a == asked[op]
  IN  /\ IF a.ask.action = "claim" THEN MayClaim(s, a.ask)
         ELSE MayTransition(s, WorkerOf[a.client], a.ask, a.claim)
      /\ ValidState(Mutated(s, op).tasks)

Applied(s, op) == \E i \in DOMAIN s.events : s.events[i].op = op

-----------------------------------------------------------------------------
(* One command: fetch, change, push, and again until it is confirmed. *)

\* Process c starts x under a claim id: its clone's, or the one status shows.
Begin(c, x, claim, stored) ==
  /\ Len(asked) < MaxOps
  /\ asked' = Append(asked, [client |-> c, ask |-> x, claim |-> claim, stored |-> stored,
                             answer |-> "none"])
  /\ client' = [client EXCEPT ![c] = [Idle EXCEPT !.pc = "fetching", !.op = Len(asked) + 1]]

Start(c, x) ==
  /\ client[c].pc = "idle"
  /\ \E claim \in IF x.action = "claim" THEN {0}
                  ELSE {token[c], register.tasks[x.task].claim} \ {0} :
       Begin(c, x, claim, claim > 0 /\ claim = token[c])
  /\ UNCHANGED <<register, late, token, pull>>

\* The command returns; main keeps the claim id of the register it was given.
Return(c, answer, s) ==
  LET op == client[c].op
      x  == asked[op].ask
  IN  /\ asked' = [asked EXCEPT ![op].answer = answer]
      /\ client' = [client EXCEPT ![c] =
                      IF answer = "ok" /\ x.action = "claim"
                      THEN [Idle EXCEPT !.pc = "saving", !.op = op,
                                        !.claim = s.tasks[x.task].claim]
                      ELSE Idle]

\* Variant: the events are not searched for the operation.
NeverConfirmed(c) == client[c].op = 0

\* An earlier push was accepted and its answer lost.
Confirmed(c) == Applied(register, client[c].op)

FetchConfirmed(c) ==
  /\ client[c].pc = "fetching"
  /\ Confirmed(c)
  /\ Return(c, "ok", register)
  /\ UNCHANGED <<register, late, token, pull>>

AttemptLeft(c) == client[c].tried < Attempts

FetchRefused(c) ==
  /\ client[c].pc = "fetching" /\ AttemptLeft(c)
  /\ ~Confirmed(c) /\ ~Permitted(register, client[c].op)
  /\ Return(c, "refused", register)
  /\ UNCHANGED <<register, late, token, pull>>

FetchAndChange(c) ==
  LET op == client[c].op
  IN  /\ client[c].pc = "fetching" /\ AttemptLeft(c)
      /\ ~Confirmed(c) /\ Permitted(register, op)
      /\ client' = [client EXCEPT
                      ![c].pc = "pushing",
                      ![c].push = [base |-> Len(register.events), op |-> op,
                                   content |-> Mutated(register, op)]]
      /\ UNCHANGED <<register, late, token, asked, pull>>

\* The final read finds nothing.
GiveUp(c) ==
  /\ client[c].pc = "fetching" /\ ~AttemptLeft(c)
  /\ ~Confirmed(c)
  /\ Return(c, "unconfirmed", register)
  /\ UNCHANGED <<register, late, token, pull>>

\* Variant: a push replaces whatever the branch holds.
AcceptsAny(q) == q.base <= Len(register.events)

\* The remote takes a commit only on top of the one it was made from.
Accepts(q) == q.base = Len(register.events)

PushAccepted(c) ==
  LET q == client[c].push
  IN  /\ client[c].pc = "pushing"
      /\ Accepts(q)
      /\ register' = q.content
      /\ Return(c, "ok", q.content)
      /\ UNCHANGED <<late, token, pull>>

Retry(c) ==
  client' = [client EXCEPT ![c].pc = "fetching", ![c].tried = @ + 1, ![c].push = NoPush]

PushRejected(c) ==
  /\ client[c].pc = "pushing"
  /\ ~Accepts(client[c].push)
  /\ Retry(c)
  /\ UNCHANGED <<register, late, token, asked, pull>>

\* No answer within the timeout: the push may be accepted later, or was already.
PushUnanswered(c) ==
  /\ client[c].pc = "pushing" /\ Cardinality(late) < MaxLate
  /\ late' = late \cup {client[c].push}
  /\ Retry(c)
  /\ UNCHANGED <<register, token, asked, pull>>

LatePush(q) ==
  /\ register' = IF Accepts(q) THEN q.content ELSE register
  /\ late' = late \ {q}
  /\ UNCHANGED <<client, token, asked, pull>>

-----------------------------------------------------------------------------
(* After a claim: the clone's configuration and, for start, its branch. *)

SaveToken(c) ==
  /\ client[c].pc = "saving"
  /\ token' = [token EXCEPT ![c] = client[c].claim]
  /\ client' = [client EXCEPT ![c].pc = "switching"]
  /\ UNCHANGED <<register, late, asked, pull>>

\* claim ends here; start has created the branch.
Switched(c) ==
  /\ client[c].pc = "switching"
  /\ client' = [client EXCEPT ![c] = Idle]
  /\ UNCHANGED <<register, late, token, asked, pull>>

\* git switch fails: start releases the claim it was told of.
SwitchFailed(c) ==
  /\ client[c].pc = "switching"
  /\ Begin(c, [action |-> "release", task |-> asked[client[c].op].ask.task, branch |-> None,
               scopes |-> {}, pr |-> None],
           client[c].claim, TRUE)
  /\ UNCHANGED <<register, late, token, pull>>

\* The process is killed, a fetch fails, or its clone's configuration cannot
\* be written: the command ends without an answer.
Exit(c) ==
  /\ client[c].pc # "idle"
  /\ IF client[c].pc = "pushing"
     THEN Cardinality(late) < MaxLate /\ late' = late \cup {client[c].push}
     ELSE late' = late
  /\ client' = [client EXCEPT ![c] = Idle]
  /\ UNCHANGED <<register, token, asked, pull>>

-----------------------------------------------------------------------------
(* GitHub. *)

SetPull(p, state, head) ==
  /\ pull' = [pull EXCEPT ![p] = [state |-> state, head |-> head]]
  /\ UNCHANGED <<register, late, client, token, asked>>

OpenPull(p)   == pull[p].state = "none" /\ SetPull(p, "OPEN", 1)
AddCommit(p)  == pull[p].state = "OPEN" /\ pull[p].head < MaxHead
                   /\ SetPull(p, "OPEN", pull[p].head + 1)
MergePull(p)  == pull[p].state = "OPEN" /\ SetPull(p, "MERGED", pull[p].head)
ClosePull(p)  == pull[p].state = "OPEN" /\ SetPull(p, "CLOSED", pull[p].head)
ReopenPull(p) == pull[p].state = "CLOSED" /\ SetPull(p, "OPEN", pull[p].head)

-----------------------------------------------------------------------------
Next ==
  \/ \E c \in Clients :
       \/ \E x \in Menu[c] : Start(c, x)
       \/ FetchConfirmed(c) \/ FetchRefused(c) \/ FetchAndChange(c) \/ GiveUp(c)
       \/ PushAccepted(c) \/ PushRejected(c) \/ PushUnanswered(c)
       \/ SaveToken(c) \/ Switched(c) \/ SwitchFailed(c) \/ Exit(c)
  \/ \E q \in late : LatePush(q)
  \/ \E p \in Pulls :
       OpenPull(p) \/ AddCommit(p) \/ MergePull(p) \/ ClosePull(p) \/ ReopenPull(p)

Spec == Init /\ [][Next]_vars

-----------------------------------------------------------------------------
(* Properties. *)

Events == {register.events[i] : i \in DOMAIN register.events}

\* The paths a set of scopes reserves.
Area(scopes) == {path \in Scopes : \E s \in scopes : Covers(s, path)}

\* However claims and rescopes race, no path, shared resource or branch is held
\* by two active tasks (check_locks and the branch rules of claim).
Exclusive ==
  \A t, u \in Tasks :
    t # u /\ {register.tasks[t].status, register.tasks[u].status} \subseteq Active =>
      /\ Area(register.tasks[t].scopes) \cap Area(register.tasks[u].scopes) = {}
      /\ Resources[t] \cap Resources[u] = {}
      /\ register.tasks[t].branch # register.tasks[u].branch

\* A task that is worked on, or finished, rests on finished tasks only
\* (dependencies_done at the claim holds for good).
PrerequisitesDone ==
  \A t \in Tasks : register.tasks[t].status \in Active \cup {"done"} =>
    \A d \in Dependencies[t] : register.tasks[d].status = "done"

\* A command that was told yes is in the register, once; one that was told no is
\* not, and no push of it can still get there (change's retries under one
\* operation id).  Only a review may land after a refusal: its evidence is the
\* pull request, which can change between two attempts.
AnswersAreTrue ==
  /\ \A i, j \in DOMAIN register.events :
       register.events[i].op = register.events[j].op => i = j
  /\ \A op \in DOMAIN asked :
       /\ asked[op].answer = "ok" => Applied(register, op)
       /\ asked[op].answer = "refused" /\ asked[op].ask.action # "review" =>
            /\ ~Applied(register, op)
            /\ \A q \in late : q.op = op => q.base < Len(register.events)

\* Every change of a claimed task was asked for under the claim it was made
\* under: the task's latest, by the same worker, and not released since
\* (transition's token against delayed pushes and old processes).
UnderItsClaim ==
  \A i \in DOMAIN register.events :
    LET e == register.events[i]
    IN  e.action # "claim" =>
          /\ e.claim = asked[e.op].claim
          /\ \E j \in 1 .. i - 1 :
               /\ register.events[j].action = "claim" /\ register.events[j].op = e.claim
               /\ register.events[j].task = e.task /\ register.events[j].worker = e.worker
               /\ \A k \in j + 1 .. i - 1 :
                    register.events[k].task = e.task =>
                      register.events[k].action \notin {"claim", "release", "complete"}

\* A finished task's pull request is merged, from the claimed branch, at the
\* very commit that was reviewed (review_head in transition).
MergedAsReviewed ==
  \A t \in Tasks : register.tasks[t].status = "done" =>
    LET task == register.tasks[t]
    IN  /\ task.pr # None /\ HeadBranch[task.pr] = task.branch
        /\ pull[task.pr] = [state |-> "MERGED", head |-> task.head]

Board == INSTANCE TaskBoard WITH
  Claims <- 1 .. MaxOps, Paths <- Scopes,
  board <- [t \in Tasks |->
              [status |-> register.tasks[t].status, owner |-> register.tasks[t].owner,
               claim |-> register.tasks[t].claim, area |-> Area(register.tasks[t].scopes)]],
  used <- {e.op : e \in {e \in Events : e.action = "claim"}}

\* The processes, retries and lost answers together behave as one board on
\* which every command is a single step.
ImplementsBoard == Board!Spec

\* docs/team-workflow.md:73: an old process cannot release or complete a newer
\* claim merely by using the same worker name.  Commands under the token a
\* process keeps only touch claims that process made.
OldProcessFenced ==
  \A e \in Events : e.action \in {"release", "complete"} /\ asked[e.op].stored =>
    asked[e.claim].client = asked[e.op].client

=============================================================================
