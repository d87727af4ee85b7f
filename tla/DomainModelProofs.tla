------------------------- MODULE DomainModelProofs -------------------------
(* Theorems about DomainModel, for any actors, sessions, required checks and  *)
(* bounds, however long the world around a project keeps changing. They rest  *)
(* on the table of operations, whose facts come first.                         *)
EXTENDS DomainModel, FiniteSetTheorems, TLAPS

\* ---- The table of operations ---------------------------------------------

LEMMA Known == Entities = {"Project", "Run", "Build", "Release", "Listing"}
BY DEF Entities, States

\* What leads to the states that the properties are about, and from where.
LEMMA Table ==
  ASSUME NEW o \in DOMAIN Operations
  PROVE  LET t == Operations[o] IN
         /\ t.entity \in Entities
         /\ t.entity = "Project" => t.to = "deleted" /\ "no_public_listing" \in t.guards
         /\ t.entity = "Run" =>
              /\ "succeeded" \notin t.from
              /\ t.to = "ready" => "readiness" \in t.guards
              /\ t.to = "running" => t.from = {"ready"}
              /\ t.to = "succeeded" => t.from = {"running"} /\ "execution" \in t.guards
              /\ t.to \in {"draft", "ready", "running", "blocked", "failed", "cancelled", "succeeded"}
              /\ o = "run_retry" <=> t.to = "draft"
         /\ t.entity = "Build" /\ t.to = "ready" => "build_evidence" \in t.guards
         /\ t.entity = "Release" /\ t.to = "approved" => "release_evidence" \in t.guards
         /\ t.entity = "Listing" /\ t.to = "published" => "release_approved" \in t.guards
         /\ o = "run_retry" => t.entity = "Run" /\ t.to = "draft"
BY Known DEF Operations, Transition, Revived

LEMMA Guards ==
  ASSUME NEW e
  PROVE  /\ Guard("readiness", e) = (Linked /\ Readiness)
         /\ Guard("execution", e) = (Linked /\ CheckSet(e, "execution"))
         /\ Guard("build_evidence", e) = (Linked /\ BuildEvidence)
         /\ Guard("release_evidence", e) = (Linked /\ ReleaseEvidence)
         /\ Guard("no_public_listing", e) = (state["Listing"] # "published")
         /\ Guard("release_approved", e) => Linked /\ ReleaseEvidence
BY DEF Guard

\* ---- The inductive invariant ---------------------------------------------

Reports == [name : UNION {Required[g] : g \in Groups}, attempt : Nat, until : Nat]

Shape ==
  /\ bound \in Bounds
  /\ DOMAIN state = Entities /\ revision \in [Entities -> Nat]
  /\ attempt \in Nat /\ now \in Nat
  /\ checks \in [{"Run", "Build"} -> Seq(Reports)]

\* Every receipt is of an operation, on a revision that is past.
ReceiptsPast ==
  \A r \in receipts : /\ r.command.op \in DOMAIN Operations /\ r.command.ifMatch \in Nat
                       /\ r.command.ifMatch < revision[Op(r.command).entity]

OneEffect ==
  \A r, s \in receipts : r # s =>
    /\ ~SameKey(r.command, s.command)
    /\ Op(r.command).entity = Op(s.command).entity => r.command.ifMatch # s.command.ifMatch

IInv == /\ Shape /\ ReceiptsPast /\ OneEffect
        /\ RestsOnSuccess /\ EvidenceOfThisAttempt /\ NoOrphanListing

\* ---- A command ------------------------------------------------------------

LEMMA Effect ==
  ASSUME Shape, NEW e \in Entities, NEW c \in Requests(e), Execute(c)
  PROVE  /\ c.op \in DOMAIN Operations /\ Op(c).entity = e
         /\ c.ifMatch = revision[e] /\ Receipts(c) = {}
         /\ state[e] \in Op(c).from /\ \A g \in Op(c).guards : Guard(g, e)
         /\ DOMAIN state' = Entities /\ state'[e] = Op(c).to
         /\ \A d \in Entities \ {e} : state'[d] = state[d]
         /\ revision' = [revision EXCEPT ![e] = @ + 1]
         /\ receipts' = receipts \cup {[command |-> c, until |-> now + Retention]}
         /\ attempt' = IF c.op = "run_retry" THEN attempt + 1 ELSE attempt
         /\ checks' = IF c.op = "run_retry" THEN [checks EXCEPT !["Run"] = <<>>] ELSE checks
         /\ UNCHANGED <<bound, now>>
<1>1. c.op \in DOMAIN Operations /\ Op(c).entity = e
  <2>1. bound.ops \in SUBSET DOMAIN Operations
    BY BoundsAssumption DEF Shape, Bound
  <2>. QED BY <2>1 DEF Requests, Op
<1>2. Denial(c) = "none" /\ Receipts(c) = {} /\ Fresh(c) = "applied"
  BY DEF Execute, Outcome, Replayed, Denial
<1>3. /\ c.ifMatch = revision[e] /\ state[e] \in Op(c).from
      /\ \A g \in Op(c).guards : Guard(g, e)
  BY <1>1, <1>2 DEF Fresh
<1>4. /\ state' = [state EXCEPT ![e] = Op(c).to]
      /\ revision' = [revision EXCEPT ![e] = @ + 1]
      /\ receipts' = receipts \cup {[command |-> c, until |-> now + Retention]}
      /\ attempt' = IF c.op = "run_retry" THEN attempt + 1 ELSE attempt
      /\ checks' = IF c.op = "run_retry" THEN [checks EXCEPT !["Run"] = <<>>] ELSE checks
      /\ UNCHANGED <<bound, now>>
  BY <1>1 DEF Execute
<1>. QED BY <1>1, <1>2, <1>3, <1>4 DEF Shape

\* Each receipt stays the only one of its key and the only one on its revision.
LEMMA CommandReceipts ==
  ASSUME IInv, NEW e \in Entities, NEW c \in Requests(e), Execute(c)
  PROVE  Shape' /\ ReceiptsPast' /\ OneEffect'
<1>. DEFINE new == [command |-> c, until |-> now + Retention]
<1>1. Shape /\ ReceiptsPast /\ OneEffect
  BY DEF IInv
<1>2. new.command = c /\ receipts' = receipts \cup {new}
  BY <1>1, Effect
<1>3. Shape'
  <2>1. /\ DOMAIN state' = Entities /\ UNCHANGED <<bound, now>>
        /\ revision' = [revision EXCEPT ![e] = @ + 1]
        /\ attempt' = IF c.op = "run_retry" THEN attempt + 1 ELSE attempt
        /\ checks' = IF c.op = "run_retry" THEN [checks EXCEPT !["Run"] = <<>>] ELSE checks
    BY <1>1, Effect
  <2>2. revision' \in [Entities -> Nat] /\ attempt' \in Nat
    BY <1>1, <2>1 DEF Shape
  <2>3. checks' \in [{"Run", "Build"} -> Seq(Reports)]
    BY <1>1, <2>1 DEF Shape
  <2>. QED BY <1>1, <2>1, <2>2, <2>3 DEF Shape
<1>. HIDE DEF new
<1>4. /\ Op(c).entity = e /\ c.op \in DOMAIN Operations /\ c.ifMatch = revision[e]
      /\ Receipts(c) = {} /\ revision' = [revision EXCEPT ![e] = @ + 1]
  BY <1>1, Effect
<1>5. ReceiptsPast'
  <2>1. \A d \in Entities : revision[d] \in Nat /\ revision'[d] \in Nat /\ revision[d] <= revision'[d]
    BY <1>1, <1>4 DEF Shape
  <2>2. \A o \in DOMAIN Operations : Operations[o].entity \in Entities
    BY Table
  <2>3. revision[e] < revision'[e]
    BY <1>1, <1>4 DEF Shape
  <2>4. ASSUME NEW r \in receipts
        PROVE  /\ r.command.op \in DOMAIN Operations /\ r.command.ifMatch \in Nat
               /\ r.command.ifMatch < revision'[Op(r.command).entity]
    BY <1>1, <2>1, <2>2 DEF ReceiptsPast, Op
  <2>. QED BY <1>2, <1>4, <2>1, <2>3, <2>4 DEF ReceiptsPast, Op
<1>6. \A r \in receipts : /\ ~SameKey(r.command, c) /\ ~SameKey(c, r.command)
                          /\ Op(r.command).entity = e => r.command.ifMatch # c.ifMatch
  BY <1>1, <1>4 DEF Receipts, SameKey, ReceiptsPast, Shape
<1>7. OneEffect'
  BY <1>1, <1>2, <1>4, <1>6 DEF OneEffect, Op, SameKey
<1>. QED BY <1>3, <1>5, <1>7

\* ---- Evidence -------------------------------------------------------------

Reported(e, group) ==
  \A n \in Required[group] : \E i \in DOMAIN checks[e] :
    checks[e][i].name = n /\ checks[e][i].until > 0 /\ checks[e][i].attempt = attempt

Evidence ==
  /\ state["Run"] \in {"ready", "running", "succeeded"} => Reported("Run", "readiness")
  /\ state["Run"] = "succeeded" => Reported("Run", "execution")
  /\ state["Build"] = "ready" => Reported("Build", "build_evidence")

LEMMA EvidenceIs == EvidenceOfThisAttempt <=> Evidence
BY DEF EvidenceOfThisAttempt, Evidence, Reported

\* A set of checks that holds now has been reported.
LEMMA CheckSetReported ==
  ASSUME Shape, NEW e \in {"Run", "Build"}, NEW group \in Groups, CheckSet(e, group)
  PROVE  Reported(e, group)
<1>. SUFFICES ASSUME NEW n \in Required[group]
              PROVE  \E i \in DOMAIN checks[e] :
                       checks[e][i].name = n /\ checks[e][i].until > 0 /\ checks[e][i].attempt = attempt
  BY DEF Reported
<1>. DEFINE matching == {i \in DOMAIN checks[e] : checks[e][i].name = n}
<1>1. Cardinality(matching) = 1 /\ \A i \in matching : Current(checks[e][i], e)
  BY DEF CheckSet
<1>2. PICK i \in matching : TRUE
  BY <1>1, FS_EmptySet
<1>3. checks[e][i].attempt = attempt /\ now < checks[e][i].until
  BY <1>1, <1>2 DEF Current, Binding
<1>4. checks[e][i].until \in Nat /\ now \in Nat
  <2>1. checks[e] \in Seq(Reports) /\ now \in Nat
    BY DEF Shape
  <2>2. checks[e][i] \in Reports
    BY <1>2, <2>1
  <2>. QED BY <2>1, <2>2 DEF Reports
<1>. QED BY <1>2, <1>3, <1>4

\* What has been reported stays so as long as reports are only added.
LEMMA ReportedStays ==
  ASSUME NEW e, NEW group, Reported(e, group), attempt' = attempt,
         DOMAIN checks[e] \subseteq DOMAIN checks'[e],
         \A i \in DOMAIN checks[e] : checks'[e][i] = checks[e][i]
  PROVE  Reported(e, group)'
BY DEF Reported

\* What the guards of a command establish.
LEMMA GuardsHold ==
  ASSUME IInv, NEW e \in Entities, NEW c \in Requests(e), Execute(c)
  PROVE  /\ e = "Project" => state["Listing"] # "published"
         /\ e = "Run" /\ state'["Run"] = "ready" => Reported("Run", "readiness")
         /\ e = "Run" /\ state'["Run"] = "succeeded" => Reported("Run", "execution")
         /\ e = "Build" /\ state'["Build"] = "ready" =>
              state["Run"] = "succeeded" /\ Reported("Build", "build_evidence")
         /\ e = "Release" /\ state'["Release"] = "approved" => state["Run"] = "succeeded"
         /\ e = "Listing" /\ state'["Listing"] = "published" => state["Run"] = "succeeded" /\ ~Deleted
<1>1. Shape
  BY DEF IInv
<1>2. /\ c.op \in DOMAIN Operations /\ Operations[c.op].entity = e
      /\ state'[e] = Operations[c.op].to /\ \A g \in Operations[c.op].guards : Guard(g, e)
  BY <1>1, Effect DEF Op
<1>3. ASSUME e = "Project" PROVE state["Listing"] # "published"
  BY <1>2, <1>3, Table, Guards
<1>4. ASSUME e = "Run", state'["Run"] = "ready" PROVE Reported("Run", "readiness")
  <2>1. Guard("readiness", e)
    BY <1>2, <1>4, Table
  <2>. QED BY <1>1, <2>1, Guards, CheckSetReported DEF Readiness, Groups
<1>5. ASSUME e = "Run", state'["Run"] = "succeeded" PROVE Reported("Run", "execution")
  <2>1. Guard("execution", e)
    BY <1>2, <1>5, Table
  <2>. QED BY <1>1, <1>5, <2>1, Guards, CheckSetReported DEF Groups
<1>6. ASSUME e = "Build", state'["Build"] = "ready"
      PROVE  state["Run"] = "succeeded" /\ Reported("Build", "build_evidence")
  <2>1. Guard("build_evidence", e)
    BY <1>2, <1>6, Table
  <2>. QED BY <1>1, <2>1, Guards, CheckSetReported DEF BuildEvidence, Groups
<1>7. ASSUME e = "Release", state'["Release"] = "approved" PROVE state["Run"] = "succeeded"
  <2>1. Guard("release_evidence", e)
    BY <1>2, <1>7, Table
  <2>. QED BY <2>1, Guards DEF ReleaseEvidence, BuildEvidence
<1>8. ASSUME e = "Listing", state'["Listing"] = "published" PROVE state["Run"] = "succeeded" /\ ~Deleted
  <2>1. Guard("release_approved", e)
    BY <1>2, <1>8, Table
  <2>. QED BY <2>1, Guards DEF ReleaseEvidence, BuildEvidence, Linked
<1>. QED BY <1>3, <1>4, <1>5, <1>6, <1>7, <1>8

\* A command on the run starts from a state in which nothing rests on it; one on
\* another record leaves the run and its reports alone.
LEMMA CommandStates ==
  ASSUME IInv, NEW e \in Entities, NEW c \in Requests(e), Execute(c)
  PROVE  RestsOnSuccess' /\ Evidence' /\ NoOrphanListing'
<1>1. Shape /\ RestsOnSuccess /\ Evidence /\ NoOrphanListing
  BY EvidenceIs DEF IInv
<1>2. /\ c.op \in DOMAIN Operations /\ Operations[c.op].entity = e
      /\ state'[e] = Operations[c.op].to /\ state[e] \in Operations[c.op].from
      /\ \A d \in Entities \ {e} : state'[d] = state[d]
      /\ c.op # "run_retry" => attempt' = attempt /\ checks' = checks
  BY <1>1, Effect DEF Op
<1>3. RestsOnSuccess'
  BY <1>1, <1>2, Known, Table, GuardsHold DEF RestsOnSuccess
<1>4. NoOrphanListing'
  BY <1>1, <1>2, Known, Table, GuardsHold DEF NoOrphanListing, Deleted
<1>5. Evidence'
  <2>1. CASE c.op = "run_retry"
    <3>1. e = "Run" /\ state'["Run"] = "draft" /\ state["Run"] # "succeeded"
      BY <1>2, <2>1, Table
    <3>. QED BY <1>1, <1>2, <3>1, Known DEF Evidence, RestsOnSuccess
  <2>2. CASE c.op # "run_retry"
    <3>1. \A d, g : Reported(d, g)' <=> Reported(d, g)
      BY <1>2, <2>2 DEF Reported
    <3>2. CASE e = "Run"
      <4>1. state'["Run"] = "running" => state["Run"] = "ready"
        BY <1>2, <3>2, Table
      <4>2. state'["Run"] = "succeeded" => state["Run"] = "running"
        BY <1>2, <3>2, Table
      <4>3. state'["Build"] = state["Build"]
        BY <1>2, <3>2, Known
      <4>4. state'["Run"] \in {"ready", "running", "succeeded"} => Reported("Run", "readiness")
        BY <1>1, <3>2, <4>1, <4>2, GuardsHold DEF Evidence
      <4>5. state'["Run"] = "succeeded" => Reported("Run", "execution")
        BY <3>2, GuardsHold
      <4>. QED BY <1>1, <3>1, <4>3, <4>4, <4>5 DEF Evidence
    <3>3. CASE e # "Run"
      <4>1. state'["Run"] = state["Run"]
        BY <1>2, <3>3, Known
      <4>2. state'["Build"] = "ready" => Reported("Build", "build_evidence")
        BY <1>1, <1>2, Known, GuardsHold DEF Evidence
      <4>. QED BY <1>1, <3>1, <4>1, <4>2 DEF Evidence
    <3>. QED BY <3>2, <3>3
  <2>. QED BY <2>1, <2>2
<1>. QED BY <1>3, <1>4, <1>5

\* ---- The services around it ----------------------------------------------

\* A late report is added at the end and changes none of those before it.
LEMMA ReportAdded ==
  ASSUME IInv, NEW e \in {"Run", "Build"}, NEW a \in 1..attempt, NEW until \in Expiries,
         NEW n \in CheckNames(e), AddCheck(e, n, a, until)
  PROVE  IInv'
<1>. DEFINE new == [name |-> n, attempt |-> a, until |-> until]
<1>1. Shape /\ Evidence
  BY EvidenceIs DEF IInv
<1>2. new \in Reports
  <2>1. n \in UNION {Required[g] : g \in Groups}
    BY DEF CheckNames, Groups
  <2>2. until \in Nat /\ a \in Nat
    BY <1>1, DomainAssumption DEF Expiries, Shape
  <2>. QED BY <2>1, <2>2 DEF Reports
<1>. HIDE DEF new
<1>3. /\ checks' = [checks EXCEPT ![e] = Append(@, new)]
      /\ UNCHANGED <<bound, state, revision, attempt, receipts, now>>
  BY DEF AddCheck, new
<1>4. checks' \in [{"Run", "Build"} -> Seq(Reports)]
  BY <1>1, <1>2, <1>3 DEF Shape
<1>5. \A d \in {"Run", "Build"} : /\ DOMAIN checks[d] \subseteq DOMAIN checks'[d]
                                  /\ \A i \in DOMAIN checks[d] : checks'[d][i] = checks[d][i]
  <2>. SUFFICES ASSUME NEW d \in {"Run", "Build"}
                PROVE  /\ DOMAIN checks[d] \subseteq DOMAIN checks'[d]
                       /\ \A i \in DOMAIN checks[d] : checks'[d][i] = checks[d][i]
    OBVIOUS
  <2>1. checks[d] \in Seq(Reports)
    BY <1>1 DEF Shape
  <2>2. checks'[d] = IF d = e THEN Append(checks[d], new) ELSE checks[d]
    BY <1>1, <1>3 DEF Shape
  <2>. QED BY <1>2, <2>1, <2>2
<1>6. \A d \in {"Run", "Build"} : \A g \in Groups : Reported(d, g) => Reported(d, g)'
  BY <1>3, <1>5, ReportedStays
<1>7. Evidence'
  BY <1>1, <1>3, <1>6 DEF Evidence, Groups
<1>8. Shape'
  BY <1>1, <1>3, <1>4 DEF Shape
<1>9. (ReceiptsPast /\ OneEffect /\ RestsOnSuccess /\ NoOrphanListing)'
  BY <1>3 DEF IInv, ReceiptsPast, OneEffect, RestsOnSuccess, NoOrphanListing, Deleted
<1>10. EvidenceOfThisAttempt'
  BY <1>7, EvidenceIs DEF EvidenceOfThisAttempt, Evidence, Reported
<1>. QED BY <1>8, <1>9, <1>10 DEF IInv

\* What only changes approvals, inputs, rights or the time.
LEMMA WorldChanges ==
  ASSUME IInv, UNCHANGED <<bound, state, revision, attempt, checks, receipts>>, now' \in Nat
  PROVE  IInv'
BY DEF IInv, Shape, ReceiptsPast, OneEffect, RestsOnSuccess, EvidenceOfThisAttempt, NoOrphanListing, Deleted

\* ---- Theorems -------------------------------------------------------------

LEMMA InitOK == Init => IInv
<1>. SUFFICES ASSUME Init PROVE IInv
  OBVIOUS
<1>1. Shape
  BY Known DEF Init, Shape, Entities
<1>2. ReceiptsPast /\ OneEffect
  BY DEF Init, ReceiptsPast, OneEffect
<1>3. RestsOnSuccess /\ EvidenceOfThisAttempt /\ NoOrphanListing
  BY DEF Init, RestsOnSuccess, EvidenceOfThisAttempt, NoOrphanListing
<1>. QED BY <1>1, <1>2, <1>3 DEF IInv

\* The inductive invariant: shapes, one effect for each key and each revision, and
\* what a released record rests on.
THEOREM Invariance == Spec => []IInv
<1>1. IInv /\ [Next]_vars => IInv'
  <2>. SUFFICES ASSUME IInv, [Next]_vars PROVE IInv'
    OBVIOUS
  <2>1. CASE \E e \in Entities : \E c \in Requests(e) : Execute(c)
    <3>0. PICK e \in Entities : \E c \in Requests(e) : Execute(c)
      BY <2>1
    <3>1. PICK c \in Requests(e) : Execute(c)
      BY <3>0
    <3>2. EvidenceOfThisAttempt'
      BY <3>1, CommandStates, EvidenceIs DEF EvidenceOfThisAttempt, Evidence, Reported
    <3>. QED BY <3>1, <3>2, CommandReceipts, CommandStates DEF IInv
  <2>2. CASE \E e \in {"Run", "Build"}, a \in 1..attempt, until \in Expiries :
               \E n \in CheckNames(e) : AddCheck(e, n, a, until)
    BY <2>2, ReportAdded
  <2>3. CASE \/ \E e \in {"Release", "Listing"} : Approve(e)
             \/ \E i \in bound.fickle : SetInput(i)
             \/ \E u \in bound.rights : SetRights(u)
             \/ Tick
    BY <2>3, WorldChanges DEF IInv, Shape, Approve, SetInput, SetRights, Tick
  <2>4. CASE UNCHANGED vars
    BY <2>4, WorldChanges DEF IInv, Shape, vars
  <2>. QED BY <2>1, <2>2, <2>3, <2>4 DEF Next
<1>. QED BY <1>1, InitOK, PTL DEF Spec

\* Records stay valid: each in a state of its own kind, with positive revisions and
\* proofs that are proofs; receipts are receipts.
THEOREM TypeCorrect == Spec => []TypeOK
<1>1. Init => TypeOK
  BY Known, DomainAssumption DEF Init, TypeOK, ValidRecords, States
<1>2. IInv /\ TypeOK /\ [Next]_vars => TypeOK'
  <2>. SUFFICES ASSUME IInv, TypeOK, [Next]_vars PROVE TypeOK'
    OBVIOUS
  <2>0. Shape
    BY DEF IInv
  <2>1. ASSUME NEW e \in Entities, NEW c \in Requests(e), Execute(c) PROVE TypeOK'
    <3>1. c \in Commands
      <4>1. bound.ops \in SUBSET DOMAIN Operations /\ bound.actors \in SUBSET Actors
        BY <2>0, BoundsAssumption DEF Shape, Bound
      <4>2. revision[e] \in Nat \ {0}
        BY DEF TypeOK, ValidRecords
      <4>. QED BY <2>1, <4>1, <4>2 DEF Requests, Commands
    <3>2. /\ c.op \in DOMAIN Operations /\ Op(c).entity = e
          /\ state' = [state EXCEPT ![e] = Op(c).to]
          /\ revision' = [revision EXCEPT ![e] = @ + 1]
          /\ receipts' = receipts \cup {[command |-> c, until |-> now + Retention]}
          /\ attempt' = IF c.op = "run_retry" THEN attempt + 1 ELSE attempt
          /\ checks' = IF c.op = "run_retry" THEN [checks EXCEPT !["Run"] = <<>>] ELSE checks
          /\ c.op = "run_retry" => attempt < MaxAttempt
          /\ UNCHANGED <<approval, input, now>>
      BY <2>0, <2>1, Effect DEF Execute, InTurn
    <3>3. DOMAIN state' = Entities /\ \A d \in Entities : state'[d] \in States[d]
      BY <3>2, KnownStatesAssumption DEF KnownStates, Op, TypeOK, ValidRecords
    <3>4. revision' \in [Entities -> Nat \ {0}]
      BY <3>2 DEF TypeOK, ValidRecords
    <3>5. attempt' \in 1..MaxAttempt
      BY <3>2, DomainAssumption DEF TypeOK, ValidRecords
    <3>6. checks' \in [{"Run", "Build"} -> Seq(Proof)]
      BY <3>2 DEF TypeOK, ValidRecords
    <3>7. receipts' \subseteq Receipt
      <4>1. now + Retention \in 0..MaxNow + Retention
        BY DomainAssumption DEF TypeOK
      <4>. QED BY <3>1, <3>2, <4>1 DEF TypeOK, Receipt
    <3>. QED BY <3>2, <3>3, <3>4, <3>5, <3>6, <3>7 DEF TypeOK, ValidRecords
  <2>2. ASSUME NEW e \in {"Run", "Build"}, NEW a \in 1..attempt, NEW until \in Expiries,
               NEW n \in CheckNames(e), AddCheck(e, n, a, until)
        PROVE  TypeOK'
    <3>. DEFINE new == [name |-> n, attempt |-> a, until |-> until]
    <3>1. new \in Proof
      <4>1. n \in Names
        BY DEF CheckNames, Groups, Names
      <4>2. a \in 0..MaxAttempt
        BY DomainAssumption DEF TypeOK, ValidRecords
      <4>3. until \in 0..MaxNow + Lifetime
        BY DomainAssumption DEF Expiries, TypeOK
      <4>. QED BY <4>1, <4>2, <4>3 DEF Proof
    <3>. HIDE DEF new
    <3>2. /\ checks' = [checks EXCEPT ![e] = Append(@, new)]
          /\ UNCHANGED <<state, revision, attempt, approval, input, receipts, now>>
      BY <2>2 DEF AddCheck, new
    <3>3. checks' \in [{"Run", "Build"} -> Seq(Proof)]
      BY <3>1, <3>2 DEF TypeOK, ValidRecords
    <3>. QED BY <3>2, <3>3 DEF TypeOK, ValidRecords
  <2>3. ASSUME NEW e \in {"Release", "Listing"}, Approve(e) PROVE TypeOK'
    <3>. DEFINE new == [name |-> e, attempt |-> Binding(e), until |-> now + Lifetime]
    <3>1. new \in Proof
      <4>1. Binding(e) \in 0..MaxAttempt
        BY DomainAssumption DEF Binding, TypeOK, ValidRecords
      <4>2. now + Lifetime \in 0..MaxNow + Lifetime
        BY DomainAssumption DEF TypeOK
      <4>3. e \in Names
        BY Known DEF Names
      <4>. QED BY <4>1, <4>2, <4>3 DEF Proof
    <3>. HIDE DEF new
    <3>2. /\ approval' = [approval EXCEPT ![e] = new]
          /\ UNCHANGED <<state, revision, attempt, checks, input, receipts, now>>
      BY <2>3 DEF Approve, new
    <3>. QED BY <3>1, <3>2 DEF TypeOK, ValidRecords
  <2>4. ASSUME NEW i \in bound.fickle, SetInput(i) PROVE TypeOK'
    <3>1. input' \in [Inputs -> BOOLEAN]
      BY <2>4 DEF SetInput, TypeOK
    <3>. QED BY <2>4, <3>1 DEF SetInput, TypeOK, ValidRecords
  <2>5. ASSUME NEW u \in bound.rights, SetRights(u) PROVE TypeOK'
    BY <2>5 DEF SetRights, TypeOK, ValidRecords
  <2>6. CASE Tick
    <3>1. bound.now \in 0..MaxNow
      BY <2>0, BoundsAssumption DEF Shape, Bound
    <3>2. now' \in 0..MaxNow
      BY <2>6, <3>1, DomainAssumption DEF Tick, TypeOK
    <3>. QED BY <2>6, <3>2 DEF Tick, TypeOK, ValidRecords
  <2>7. CASE UNCHANGED vars
    BY <2>7 DEF vars, TypeOK, ValidRecords
  <2>. QED BY <2>1, <2>2, <2>3, <2>4, <2>5, <2>6, <2>7 DEF Next
<1>. QED BY <1>1, <1>2, Invariance, PTL DEF Spec

\* A key takes effect once and a revision is the basis of one effect, although
\* receipts expire, and a command that took effect is never denied as new.
THEOREM Once == Spec => []AppliedOnce
<1>1. IInv => AppliedOnce
  <2>. SUFFICES ASSUME IInv, NEW r \in receipts
                PROVE  /\ Denial(r.command) = "none" =>
                            Outcome(r.command) \in {"replayed", "idempotency_expired"}
                       /\ \A s \in receipts \ {r} :
                            /\ ~SameKey(r.command, s.command)
                            /\ \/ Op(r.command).entity # Op(s.command).entity
                               \/ r.command.ifMatch # s.command.ifMatch
    BY DEF AppliedOnce
  <2>1. OneEffect
    BY DEF IInv
  <2>2. Receipts(r.command) = {r}
    BY <2>1 DEF OneEffect, Receipts, SameKey
  <2>3. Replayed(r.command) \in {"replayed", "idempotency_expired"}
    BY <2>2 DEF Replayed
  <2>. QED BY <2>1, <2>2, <2>3 DEF OneEffect, Outcome
<1>. QED BY <1>1, Invariance, PTL

\* What is ready, approved or published rests on a run that succeeded.
THEOREM ReleasedRests == Spec => []RestsOnSuccess
<1>1. IInv => RestsOnSuccess
  BY DEF IInv
<1>. QED BY <1>1, Invariance, PTL

\* Reports of an attempt that is over count for nothing.
THEOREM FreshEvidence == Spec => []EvidenceOfThisAttempt
<1>1. IInv => EvidenceOfThisAttempt
  BY DEF IInv
<1>. QED BY <1>1, Invariance, PTL

\* No published listing is left without its project.
THEOREM ListingsKept == Spec => []NoOrphanListing
<1>1. IInv => NoOrphanListing
  BY DEF IInv
<1>. QED BY <1>1, Invariance, PTL

====
