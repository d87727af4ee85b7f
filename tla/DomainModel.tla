---------------------------- MODULE DomainModel ----------------------------
(* The reference model of the domain contract: one tenant's project with its *)
(* Run, Build, Release and Listing, the state commands of transitions.json,   *)
(* and the evidence, rights and inputs that other services change meanwhile.  *)
(* execute is sequential, so a command is one step; what is concurrent is the *)
(* world around it: reports that arrive for an attempt that is over, evidence *)
(* and receipts that expire, sources that are quarantined, repeated commands. *)
EXTENDS Integers, Sequences, FiniteSets

CONSTANTS
  Actors, Grants, Session,  \* who asks, the scopes and the end of the session of each
  Keys,                     \* idempotency keys, 1 .. n
  Required,                 \* group of checks -> names, all of which must have passed
  Price,                    \* of the listing: a sale needs rights to sell
  Lifetime, Retention,      \* of a proof and of a receipt
  MaxNow, MaxAttempt,
  Bounds,                   \* what is asked and what changes in one behaviour
  None

Inputs  == {"tenant", "source", "blueprint", "brief", "team"}
Groups  == {"readiness", "execution", "build_evidence"}
States  == [Project |-> {"draft", "active", "archived", "deleted"},
            Run     |-> {"draft", "ready", "running", "blocked", "failed", "cancelled",
                         "succeeded"},
            Build   |-> {"pending", "ready", "blocked", "failed", "cancelled"},
            Release |-> {"candidate", "approved", "blocked", "withdrawn"},
            Listing |-> {"draft", "published", "blocked", "withdrawn"}]
Entities == DOMAIN States

ASSUME DomainAssumption ==
  /\ Grants \in [Actors -> SUBSET STRING]
  /\ Session \in [Actors -> Nat]
  /\ Keys \subseteq Nat \ {0}
  /\ DOMAIN Required = Groups
  /\ {Price, Lifetime, Retention, MaxNow} \subseteq Nat /\ MaxAttempt \in Nat \ {0}

\* ---- The operations, as data ---------------------------------------------

Transition(entity, scope, from, to, guards) ==
  [entity |-> entity, scope |-> scope, from |-> from, to |-> to, guards |-> guards]

\* Variant: a run that succeeded may be tried again, too.
RevivedEnded == {"failed", "blocked", "cancelled", "succeeded"}

\* A run that ended without success, or was stopped, may be tried again.
Revived == {"failed", "blocked", "cancelled"}

Operations == [
  run_qualify |-> Transition("Run", "runs:write", {"draft", "blocked"}, "ready", {"readiness"}),
  run_start   |-> Transition("Run", "runs:execute", {"ready"}, "running", {"readiness"}),
  run_block   |-> Transition("Run", "runs:write", {"draft", "ready", "running"}, "blocked", {}),
  run_fail    |-> Transition("Run", "runs:write", {"running"}, "failed", {}),
  run_cancel  |-> Transition("Run", "runs:cancel", {"draft", "ready", "running", "blocked"},
                             "cancelled", {}),
  run_succeed |-> Transition("Run", "runs:write", {"running"}, "succeeded", {"execution"}),
  run_retry   |-> Transition("Run", "runs:execute", Revived, "draft", {}),
  build_qualify |-> Transition("Build", "builds:qualify", {"pending", "blocked"}, "ready",
                               {"build_evidence", "rights"}),
  build_fail    |-> Transition("Build", "builds:write", {"pending"}, "failed", {}),
  build_block   |-> Transition("Build", "builds:write", {"pending", "ready"}, "blocked", {}),
  build_cancel  |-> Transition("Build", "builds:write", {"pending", "blocked"}, "cancelled", {}),
  release_approve  |-> Transition("Release", "releases:approve", {"candidate", "blocked"},
                                  "approved", {"release_evidence", "approval", "rights"}),
  release_block    |-> Transition("Release", "releases:write", {"candidate", "approved"},
                                  "blocked", {}),
  release_withdraw |-> Transition("Release", "releases:write", {"approved", "blocked"},
                                  "withdrawn", {}),
  listing_publish  |-> Transition("Listing", "listings:publish", {"draft", "blocked"},
                                  "published", {"release_approved", "moderation", "rights"}),
  listing_withdraw |-> Transition("Listing", "listings:write", {"published", "blocked"},
                                  "withdrawn", {}),
  project_delete   |-> Transition("Project", "projects:delete", {"draft", "active", "archived"},
                                  "deleted", {"no_public_listing"})]

\* No operation names a state its entity does not have.
KnownStates == \A o \in DOMAIN Operations :
                 Operations[o].from \cup {Operations[o].to} \subseteq States[Operations[o].entity]
ASSUME KnownStatesAssumption == KnownStates

\* Each behaviour has one of several bounds, so that an instance is the sum of
\* small ones and not their product: who sends which commands, how many change a
\* record, how many checks it has, the latest instant, and what may change.
Bound == [actors : SUBSET Actors, ops : SUBSET DOMAIN Operations, commands : [Entities -> Nat],
          checks : [{"Run", "Build"} -> Nat], now : 0..MaxNow, failures : BOOLEAN,
          fickle : SUBSET Inputs, rights : SUBSET SUBSET STRING]

ASSUME BoundsAssumption == \A b \in Bounds : b \in Bound

VARIABLES
  bound,
  state, revision,  \* of each record
  attempt,          \* of the Run
  checks,           \* the Run's and the Build's lists of proofs
  approval,         \* the Release's approval and the Listing's moderation, or None
  input, cleared,   \* what other services decide: inputs in order, uses with rights
  now, receipts

vars == <<bound, state, revision, attempt, checks, approval, input, cleared, now, receipts>>

\* A proof that failed, or that was simulated, never counts: it is until 0.
Names    == Entities \cup UNION {Required[g] : g \in Groups}
Proof    == [name : Names, attempt : 0..MaxAttempt, until : 0..MaxNow + Lifetime]
Commands == [actor : Actors, op : DOMAIN Operations, key : Keys, ifMatch : Nat]
Receipt  == [command : Commands, until : 0..MaxNow + Retention]

\* Every record has a state of its entity, a positive revision and proofs that are proofs.
ValidRecords ==
  /\ DOMAIN state = Entities /\ \A e \in Entities : state[e] \in States[e]
  /\ revision \in [Entities -> Nat \ {0}]
  /\ attempt \in 1..MaxAttempt
  /\ checks \in [{"Run", "Build"} -> Seq(Proof)]
  /\ approval \in [{"Release", "Listing"} -> Proof \cup {None}]

Init ==
  /\ bound \in Bounds
  /\ state = [Project |-> "active", Run |-> "draft", Build |-> "pending",
              Release |-> "candidate", Listing |-> "draft"]
  /\ revision = [e \in Entities |-> 1]
  /\ attempt = 1
  /\ checks = [e \in {"Run", "Build"} |-> <<>>]
  /\ approval = [e \in {"Release", "Listing"} |-> None]
  /\ input = [i \in Inputs |-> TRUE]
  /\ cleared = {"build", "publish", "sell"}
  /\ now = 0
  /\ receipts = {}

\* ---- What a record rests on ----------------------------------------------

\* A Listing names no project: it is found even when its project is deleted,
\* but whatever it is linked to is not.
Deleted    == state["Project"] = "deleted"
Visible(e) == e = "Listing" \/ ~Deleted

\* Variant: records are looked up without their project.
LinkedAny == TRUE

Linked == ~Deleted

\* The exact input a proof must be about. Of the Listing's terms none changes here.
Binding(e) == IF e = "Listing" THEN 0 ELSE attempt

\* Variant: a report counts whatever attempt it is about.
CurrentAnyBinding(p, e) == now < p.until

Current(p, e) == p.attempt = Binding(e) /\ now < p.until

CheckSet(e, group) ==
  \A n \in Required[group] :
    LET matching == {i \in DOMAIN checks[e] : checks[e][i].name = n}
    IN  Cardinality(matching) = 1 /\ \A i \in matching : Current(checks[e][i], e)

Approved(e) == approval[e] # None /\ Current(approval[e], e)

Readiness ==
  /\ input["source"] /\ input["blueprint"] /\ input["brief"] /\ input["team"]
  /\ CheckSet("Run", "readiness")

BuildEvidence ==
  /\ state["Run"] = "succeeded" /\ input["source"]
  /\ CheckSet("Build", "build_evidence")

ReleaseEvidence == state["Build"] = "ready" /\ BuildEvidence

Use(e) == IF e = "Build" THEN "build"
          ELSE IF e = "Listing" /\ Price > 0 THEN "sell" ELSE "publish"

Guard(name, e) ==
  CASE name = "readiness"        -> Linked /\ Readiness
    [] name = "execution"        -> Linked /\ CheckSet(e, "execution")
    [] name = "build_evidence"   -> Linked /\ BuildEvidence
    [] name = "release_evidence" -> Linked /\ ReleaseEvidence
    [] name = "rights"           -> Linked /\ Use(e) \in cleared
    [] name = "approval"         -> Linked /\ Approved(e)
    [] name = "moderation"       -> Approved(e)
    [] name = "release_approved" -> /\ Linked /\ state["Release"] = "approved"
                                    /\ ReleaseEvidence /\ Approved("Release")
    [] name = "no_public_listing" -> state["Listing"] # "published"

\* ---- A command -----------------------------------------------------------

Op(c) == Operations[c.op]

SameKey(c, d) == c.actor = d.actor /\ c.op = d.op /\ c.key = d.key

\* Variant: an expired receipt is forgotten.
ReceiptsKept(c) == {r \in receipts : SameKey(r.command, c) /\ now < r.until}

\* The receipts under a command's key.
Receipts(c) == {r \in receipts : SameKey(r.command, c)}

\* Who may ask at all; a repeated command is checked again.
Denial(c) ==
  IF now >= Session[c.actor] THEN "authentication_required"
  ELSE IF ~input["tenant"] THEN "tenant_inactive"
  ELSE IF Op(c).scope \notin Grants[c.actor] THEN "permission_denied"
  ELSE "none"

Replayed(c) ==
  IF \E r \in Receipts(c) : r.command # c THEN "idempotency_conflict"
  ELSE IF \E r \in Receipts(c) : now >= r.until THEN "idempotency_expired"
  ELSE "replayed"

Fresh(c) ==
  LET e == Op(c).entity
  IN  IF ~Visible(e) THEN "resource_not_found"
      ELSE IF c.ifMatch = 0 THEN "precondition_required"
      ELSE IF c.ifMatch # revision[e] THEN "revision_conflict"
      ELSE IF state[e] \notin Op(c).from THEN "invalid_transition"
      ELSE IF \E g \in Op(c).guards : ~Guard(g, e) THEN "guard_failed"
      ELSE "applied"

\* The code of the answer; "applied" when the command takes effect now.
Outcome(c) ==
  IF Denial(c) # "none" THEN Denial(c)
  ELSE IF Receipts(c) # {} THEN Replayed(c)
  ELSE Fresh(c)

\* Bounds: the number of effects and of attempts, and keys taken in turn.
InTurn(c) ==
  /\ revision[Op(c).entity] <= bound.commands[Op(c).entity]
  /\ c.op = "run_retry" => attempt < MaxAttempt
  /\ \A k \in Keys : k < c.key => Receipts([c EXCEPT !.key = k]) # {}

Execute(c) ==
  LET e == Op(c).entity
  IN  /\ InTurn(c)
      /\ Outcome(c) = "applied"
      /\ state' = [state EXCEPT ![e] = Op(c).to]
      /\ revision' = [revision EXCEPT ![e] = @ + 1]
      /\ attempt' = IF c.op = "run_retry" THEN attempt + 1 ELSE attempt
      /\ checks' = IF c.op = "run_retry" THEN [checks EXCEPT !["Run"] = <<>>] ELSE checks
      /\ receipts' = receipts \cup {[command |-> c, until |-> now + Retention]}
      /\ UNCHANGED <<bound, approval, input, cleared, now>>

\* ---- The services around it ----------------------------------------------

CheckNames(e) == IF e = "Run" THEN Required["readiness"] \cup Required["execution"]
                 ELSE Required["build_evidence"]

Expiries == {now + Lifetime} \cup (IF bound.failures THEN {0} ELSE {})

\* A report for attempt a, possibly one that is over, is added to a record.
AddCheck(e, n, a, until) ==
  /\ Len(checks[e]) < bound.checks[e]
  /\ checks' = [checks EXCEPT ![e] =
                  Append(@, [name |-> n, attempt |-> a, until |-> until])]
  /\ UNCHANGED <<bound, state, revision, attempt, approval, input, cleared, now, receipts>>

\* A person approves the release, or a moderator the listing, as it is now.
Approve(e) ==
  /\ bound.commands[e] > 0 /\ ~Approved(e)
  /\ approval' = [approval EXCEPT ![e] = [name |-> e, attempt |-> Binding(e),
                                          until |-> now + Lifetime]]
  /\ UNCHANGED <<bound, state, revision, attempt, checks, input, cleared, now, receipts>>

\* A source is quarantined or released, a team paused, a tenant suspended, ...
SetInput(i) ==
  /\ input' = [input EXCEPT ![i] = ~@]
  /\ UNCHANGED <<bound, state, revision, attempt, checks, approval, cleared, now, receipts>>

SetRights(u) ==
  /\ u # cleared
  /\ cleared' = u
  /\ UNCHANGED <<bound, state, revision, attempt, checks, approval, input, now, receipts>>

Tick ==
  /\ now < bound.now
  /\ now' = now + 1
  /\ UNCHANGED <<bound, state, revision, attempt, checks, approval, input, cleared, receipts>>

\* Commands on a record, with the present revision or the one before.
Requests(e) == [actor : bound.actors, op : {o \in bound.ops : Operations[o].entity = e},
                key : Keys, ifMatch : {revision[e] - 1, revision[e]}]

Next ==
  \/ \E e \in Entities : \E c \in Requests(e) : Execute(c)
  \/ \E e \in {"Run", "Build"}, a \in 1..attempt, until \in Expiries :
       \E n \in CheckNames(e) : AddCheck(e, n, a, until)
  \/ \E e \in {"Release", "Listing"} : Approve(e)
  \/ \E i \in bound.fickle : SetInput(i)
  \/ \E u \in bound.rights : SetRights(u)
  \/ Tick

Spec == Init /\ [][Next]_vars

\* ---- Properties ----------------------------------------------------------

\* Records stay valid, and receipts are receipts.
TypeOK ==
  /\ ValidRecords
  /\ input \in [Inputs -> BOOLEAN]
  /\ now \in 0..MaxNow
  /\ receipts \subseteq Receipt

\* A key takes effect once, even when its receipt has expired, and a revision
\* is the basis of one effect: no command overwrites what it has not seen. And
\* a command that took effect is never answered as if it had not: asked again
\* it replays or has expired, whatever became of its record since.
AppliedOnce ==
  \A r \in receipts :
    /\ Denial(r.command) = "none" => Outcome(r.command) \in {"replayed", "idempotency_expired"}
    /\ \A s \in receipts \ {r} :
         /\ ~SameKey(r.command, s.command)
         /\ \/ Op(r.command).entity # Op(s.command).entity
            \/ r.command.ifMatch # s.command.ifMatch

\* What was released rests on a run that succeeded, and the run has not been
\* reopened since: neither retries nor blocks under it are possible.
RestsOnSuccess ==
  (state["Build"] = "ready" \/ state["Release"] = "approved" \/ state["Listing"] = "published")
    => state["Run"] = "succeeded"

\* A run is under way, and a build is ready, only on reports that passed for the
\* present attempt: those of an attempt that is over, which may arrive late,
\* count for nothing.
EvidenceOfThisAttempt ==
  LET Reported(e, group) ==
        \A n \in Required[group] : \E i \in DOMAIN checks[e] :
          /\ checks[e][i].name = n /\ checks[e][i].until > 0 /\ checks[e][i].attempt = attempt
  IN  /\ state["Run"] \in {"ready", "running", "succeeded"} => Reported("Run", "readiness")
      /\ state["Run"] = "succeeded" => Reported("Run", "execution")
      /\ state["Build"] = "ready" => Reported("Build", "build_evidence")

\* A published listing never outlives its project: were there one, its project
\* could not be looked up and no project of the tenant could be deleted any more.
NoOrphanListing == state["Listing"] = "published" => ~Deleted

=============================================================================
