-------------------------- MODULE PushGateProofs --------------------------
(* Theorems about PushGate, for any history of commits that is a partial      *)
(* order, any scopes and any number of concurrent test runs and pushes.        *)
(* HEAD, the branch and the claim are read in different steps; the invariant   *)
(* says of each process what it still knows of them when it has read them.     *)
EXTENDS PushGate, TLAPS

\* ---- The inductive invariant ---------------------------------------------

Tested(c, ran) == ran = [head |-> c, dirty |-> FALSE] /\ c \in Passing

\* HEAD only grows during a test run, so that a worktree that is clean and at the
\* commit of the first snapshot has never left it.
CheckOK(r) ==
  /\ r.pc # "idle" => r.head \in Commits /\ r.base \in Commits
  /\ r.pc = "tests" => Includes(head, r.head)
  /\ r.pc = "compare" => /\ r.ran \in Seen
                         /\ Includes(r.ran.head, r.head) /\ Includes(head, r.ran.head)
                         /\ r.ran.dirty => dirty \/ head # r.ran.head
                         /\ ~r.ran.dirty => r.ran.head \in Passing
  /\ r.pc = "write" => r.ran \in Seen /\ Tested(r.head, r.ran)

Attested == attestation # None => Tested(attestation.head, attestation.ran)

\* What the hook has established by each step. HEAD may be compared with what is
\* sent only as long as it has not moved.
PushOK(r) ==
  /\ r.pc # "idle" => r.sha \in Commits
  /\ r.pc = "claim" => r.began \/ ~Owns
  /\ r.pc \in {"main", "remote", "verify", "send"} => r.began
  /\ r.pc \in {"claim", "main", "remote"} /\ ~r.moved => head = r.sha
  /\ r.pc = "remote" => r.head \in Commits
  /\ r.pc \in {"verify", "send"} =>
       /\ r.advertised # None => Includes(r.sha, r.advertised)
       /\ ~r.moved => head = r.sha /\ Paths[r.sha] \subseteq r.held
  /\ r.pc = "send" /\ ~r.moved => Tested(r.sha, r.ran)

IInv ==
  /\ TypeOK /\ Attested
  /\ \A k \in Checkers : CheckOK(checker[k])
  /\ \A p \in Pushers : PushOK(push[p])

\* ---- The processes' records ----------------------------------------------

LEMMA IdleOK == /\ NoCheck \in Checker /\ NoCheck.pc = "idle" /\ CheckOK(NoCheck)
                /\ NoPush \in Push /\ NoPush.pc = "idle" /\ PushOK(NoPush)
BY DEF Checker, NoCheck, CheckOK, Push, NoPush, PushOK

\* What the steps that go on leave of the record of their process.
AfterTests(r, seen) == [r EXCEPT !.pc = "compare", !.ran = seen]
AfterCompare(r) == [r EXCEPT !.pc = "write"]
AtBegin(c, a) == [NoPush EXCEPT !.pc = "claim", !.sha = c, !.advertised = a,
                                !.began = active /\ token]
AfterClaim(r, held) == [r EXCEPT !.pc = "main", !.held = held]
AfterMain(r, c) == [r EXCEPT !.pc = "remote", !.head = c]
AfterRemote(r) == [r EXCEPT !.pc = "verify"]
AfterVerify(r, ran) == [r EXCEPT !.pc = "send", !.ran = ran]
AfterMove(r) == [r EXCEPT !.moved = TRUE]

LEMMA RanTests ==
  ASSUME NEW r \in Checker, NEW seen \in Seen
  PROVE  LET n == AfterTests(r, seen) IN
         n \in Checker /\ n.pc = "compare" /\ n.head = r.head /\ n.base = r.base /\ n.ran = seen
BY DEF Checker, AfterTests

LEMMA Compared ==
  ASSUME NEW r \in Checker
  PROVE  LET n == AfterCompare(r) IN
         n \in Checker /\ n.pc = "write" /\ n.head = r.head /\ n.base = r.base /\ n.ran = r.ran
BY DEF Checker, AfterCompare

LEMMA Began ==
  ASSUME NEW c \in Commits, NEW a \in Commits \cup {None}
  PROVE  LET n == AtBegin(c, a) IN
         /\ n \in Push /\ n.pc = "claim" /\ n.sha = c /\ n.moved = FALSE
         /\ Owns => n.began
BY IdleOK DEF Push, NoPush, AtBegin, Owns

LEMMA ReadClaim ==
  ASSUME NEW r \in Push, NEW held \in SUBSET UNION Scopes
  PROVE  LET n == AfterClaim(r, held) IN
         /\ n \in Push /\ n.pc = "main" /\ n.held = held
         /\ n.sha = r.sha /\ n.began = r.began /\ n.moved = r.moved
BY DEF Push, AfterClaim

LEMMA ReadHead ==
  ASSUME NEW r \in Push, NEW c \in Commits
  PROVE  LET n == AfterMain(r, c) IN
         /\ n \in Push /\ n.pc = "remote" /\ n.head = c
         /\ n.sha = r.sha /\ n.began = r.began /\ n.moved = r.moved
BY DEF Push, AfterMain

LEMMA Allowed ==
  ASSUME NEW r \in Push
  PROVE  LET n == AfterRemote(r) IN
         /\ n \in Push /\ n.pc = "verify" /\ n.sha = r.sha /\ n.held = r.held
         /\ n.began = r.began /\ n.moved = r.moved /\ n.advertised = r.advertised
BY DEF Push, AfterRemote

LEMMA Verified ==
  ASSUME NEW r \in Push, NEW ran \in Seen
  PROVE  LET n == AfterVerify(r, ran) IN
         /\ n \in Push /\ n.pc = "send" /\ n.sha = r.sha /\ n.held = r.held /\ n.ran = ran
         /\ n.began = r.began /\ n.moved = r.moved /\ n.advertised = r.advertised
BY DEF Push, AfterVerify

LEMMA HeadMoved ==
  ASSUME NEW r \in Push
  PROVE  LET n == AfterMove(r) IN
         /\ n \in Push /\ n.pc = r.pc /\ n.sha = r.sha /\ n.held = r.held /\ n.head = r.head
         /\ n.began = r.began /\ n.advertised = r.advertised /\ n.moved = TRUE
BY DEF Push, AfterMove

\* ---- Test runs ------------------------------------------------------------

LEMMA Reads ==
  ASSUME IInv
  PROVE  /\ \A k \in Checkers : checker[k] \in Checker /\ CheckOK(checker[k])
         /\ \A p \in Pushers : push[p] \in Push /\ PushOK(push[p])
         /\ head \in Commits /\ [head |-> head, dirty |-> dirty] \in Seen
         /\ scopes \in SUBSET UNION Scopes /\ branch \in Commits \cup {None}
BY DEF IInv, TypeOK, Seen

\* The steps of a test run, and those of a push after its first.
CheckStep(k) == \/ BeginChecks(k) \/ RunTests(k) \/ CompareSnapshots(k)
                \/ WriteAttestation(k) \/ StopChecks(k)

LEMMA CheckNext ==
  ASSUME IInv, NEW k \in Checkers, CheckStep(k)
  PROVE  \E n \in Checker : StepCheck(k, n) /\ CheckOK(n)
<1>. DEFINE r == checker[k]
<1>0. r \in Checker /\ CheckOK(r)
  BY Reads
<1>1. CASE BeginChecks(k)
  <2>1. CASE dirty
    BY <1>0, <1>1, <2>1 DEF BeginChecks, StepCheck, IInv, TypeOK
  <2>2. CASE ~dirty
    <3>. DEFINE n == [pc |-> "tests", head |-> head, base |-> base, ran |-> None]
    <3>1. n \in Checker /\ CheckOK(n)
      BY GateAssumption DEF IInv, TypeOK, Checker, CheckOK, Includes
    <3>. QED BY <1>1, <2>2, <3>1 DEF BeginChecks, StepCheck
  <2>. QED BY <2>1, <2>2
<1>2. CASE RunTests(k)
  <2>. DEFINE seen == [head |-> head, dirty |-> dirty]
  <2>0. seen \in Seen /\ seen.head = head /\ seen.dirty = dirty
    BY Reads
  <2>. HIDE DEF seen
  <2>. DEFINE n == AfterTests(r, seen)
  <2>2. CASE StepCheck(k, n) /\ (~dirty => head \in Passing)
    <3>1. n \in Checker /\ n.pc = "compare" /\ n.head = r.head /\ n.base = r.base /\ n.ran = seen
      BY <1>0, <2>0, RanTests
    <3>2. r.pc = "tests"
      BY <1>2 DEF RunTests
    <3>3. CheckOK(n)
      BY <1>0, <2>0, <2>2, <3>1, <3>2, Reads, GateAssumption DEF CheckOK, Includes
    <3>. QED BY <2>2, <3>1, <3>3
  <2>3. CASE StepCheck(k, NoCheck)
    BY <2>3, IdleOK
  <2>. QED BY <1>2, <2>2, <2>3 DEF RunTests, AfterTests, seen
<1>3. CASE CompareSnapshots(k)
  <2>. DEFINE n == AfterCompare(r)
  <2>2. CASE StepCheck(k, n) /\ SameSnapshot(r.head, r.base)
    <3>1. n \in Checker /\ n.pc = "write" /\ n.head = r.head /\ n.base = r.base /\ n.ran = r.ran
      BY <1>0, Compared
    <3>2. r.pc = "compare"
      BY <1>3 DEF CompareSnapshots
    <3>3. r.ran \in Seen /\ r.ran.head = head /\ ~r.ran.dirty
      BY <1>0, <2>2, <3>2, Reads, GateAssumption DEF CheckOK, Includes, SameSnapshot, Seen
    <3>4. Tested(r.head, r.ran)
      BY <1>0, <2>2, <3>2, <3>3 DEF CheckOK, SameSnapshot, Seen, Tested
    <3>. QED BY <1>0, <2>2, <3>1, <3>2, <3>3, <3>4 DEF CheckOK
  <2>3. CASE StepCheck(k, NoCheck)
    BY <2>3, IdleOK
  <2>. QED BY <1>3, <2>2, <2>3 DEF CompareSnapshots, AfterCompare
<1>4. CASE WriteAttestation(k) \/ StopChecks(k)
  BY <1>4, IdleOK DEF WriteAttestation, StopChecks
<1>. QED BY <1>1, <1>2, <1>3, <1>4 DEF CheckStep

\* A test run leaves the pushes alone, and attests only what was tested.
LEMMA CheckStepOK ==
  ASSUME IInv, NEW k \in Checkers, CheckStep(k)
  PROVE  IInv'
<1>. USE DEF BeginChecks, RunTests, CompareSnapshots, WriteAttestation, StopChecks, CheckStep
<1>1. PICK n \in Checker : StepCheck(k, n) /\ CheckOK(n)
  BY CheckNext
<1>2. UNCHANGED <<main, branch, active, scopes, token, head, dirty, base, push>>
  BY DEF remote, claim, worktree
<1>3. attestation' \in Attestation \cup {None} /\ Attested'
  <2>1. CASE WriteAttestation(k)
    BY <2>1, Reads DEF CheckOK, Attestation, Attested, Tested
  <2>2. CASE ~WriteAttestation(k)
    BY <2>2 DEF IInv, TypeOK, Attested
  <2>. QED BY <2>1, <2>2
<1>4. TypeOK'
  BY <1>1, <1>2, <1>3 DEF StepCheck, IInv, TypeOK
<1>5. \A j \in Checkers : CheckOK(checker[j])'
  BY <1>1, <1>2 DEF StepCheck, IInv, TypeOK, CheckOK
<1>6. \A p \in Pushers : PushOK(push[p])'
  BY <1>2 DEF IInv, PushOK, Owns
<1>. QED BY <1>3, <1>4, <1>5, <1>6 DEF IInv

\* ---- Pushes ---------------------------------------------------------------

HookStep(p) == \/ PreflightClaim(p) \/ PreflightMain(p) \/ PreflightRemote(p)
               \/ Verify(p) \/ Send(p) \/ StopPush(p)

LEMMA PushNext ==
  ASSUME IInv, NEW p \in Pushers,
         HookStep(p) \/ \E forced \in BOOLEAN : BeginPush(p, forced)
  PROVE  \E n \in Push : StepPush(p, n) /\ PushOK(n)
<1>. DEFINE r == push[p]
<1>0. r \in Push /\ PushOK(r) /\ head \in Commits /\ scopes \in SUBSET UNION Scopes
  BY Reads
<1>1. CASE \E forced \in BOOLEAN : BeginPush(p, forced)
  <2>. DEFINE n == AtBegin(head, branch)
  <2>1. StepPush(p, n)
    BY <1>1 DEF BeginPush, AtBegin
  <2>2. branch \in Commits \cup {None}
    BY Reads
  <2>3. n \in Push /\ n.pc = "claim" /\ n.sha = head /\ n.moved = FALSE /\ (Owns => n.began)
    BY <1>0, <2>2, Began
  <2>. HIDE DEF n
  <2>4. PushOK(n)
    BY <1>0, <2>3 DEF PushOK
  <2>. QED BY <2>1, <2>3, <2>4
<1>2. CASE PreflightClaim(p)
  <2>. DEFINE n == AfterClaim(r, scopes)
  <2>2. CASE StepPush(p, n) /\ Owns
    <3>1. /\ n \in Push /\ n.pc = "main" /\ n.held = scopes
          /\ n.sha = r.sha /\ n.began = r.began /\ n.moved = r.moved
      BY <1>0, ReadClaim
    <3>2. r.pc = "claim"
      BY <1>2 DEF PreflightClaim
    <3>. QED BY <1>0, <2>2, <3>1, <3>2 DEF PushOK
  <2>3. CASE StepPush(p, NoPush)
    BY <2>3, IdleOK
  <2>. QED BY <1>2, <2>2, <2>3 DEF PreflightClaim, AfterClaim
<1>3. CASE PreflightMain(p)
  <2>. DEFINE n == AfterMain(r, head)
  <2>2. CASE StepPush(p, n)
    <3>1. /\ n \in Push /\ n.pc = "remote" /\ n.head = head
          /\ n.sha = r.sha /\ n.began = r.began /\ n.moved = r.moved
      BY <1>0, ReadHead
    <3>2. r.pc = "main"
      BY <1>3 DEF PreflightMain
    <3>. QED BY <1>0, <2>2, <3>1, <3>2 DEF PushOK
  <2>3. CASE StepPush(p, NoPush)
    BY <2>3, IdleOK
  <2>. QED BY <1>3, <2>2, <2>3 DEF PreflightMain, AfterMain
<1>4. CASE PreflightRemote(p)
  <2>. DEFINE n == AfterRemote(r)
  <2>2. CASE StepPush(p, n) /\ r.sha = r.head /\ FastForward(p) /\ Paths[head] \subseteq r.held
    <3>1. /\ n \in Push /\ n.pc = "verify" /\ n.sha = r.sha /\ n.held = r.held
          /\ n.began = r.began /\ n.moved = r.moved /\ n.advertised = r.advertised
      BY <1>0, Allowed
    <3>2. r.pc = "remote"
      BY <1>4 DEF PreflightRemote
    <3>3. r.advertised # None => Includes(r.sha, r.advertised)
      BY <2>2 DEF FastForward
    <3>4. PushOK(n)
      BY <1>0, <2>2, <3>1, <3>2, <3>3 DEF PushOK
    <3>. QED BY <2>2, <3>1, <3>4
  <2>3. CASE StepPush(p, NoPush)
    BY <2>3, IdleOK
  <2>. QED BY <1>4, <2>2, <2>3 DEF PreflightRemote, AfterRemote
<1>5. CASE Verify(p)
  <2>. DEFINE n == AfterVerify(r, attestation.ran)
  <2>2. CASE StepPush(p, n) /\ attestation # None /\ SameSnapshot(attestation.head, attestation.base)
    <3>1. attestation.ran \in Seen /\ Tested(head, attestation.ran)
      BY <2>2 DEF IInv, TypeOK, Attestation, Attested, SameSnapshot
    <3>2. /\ n \in Push /\ n.pc = "send" /\ n.sha = r.sha /\ n.held = r.held /\ n.ran = attestation.ran
          /\ n.began = r.began /\ n.moved = r.moved /\ n.advertised = r.advertised
      BY <1>0, <3>1, Verified
    <3>3. r.pc = "verify"
      BY <1>5 DEF Verify
    <3>4. PushOK(n)
      BY <1>0, <3>1, <3>2, <3>3 DEF PushOK
    <3>. QED BY <2>2, <3>2, <3>4
  <2>3. CASE StepPush(p, NoPush)
    BY <2>3, IdleOK
  <2>. QED BY <1>5, <2>2, <2>3 DEF Verify, AfterVerify
<1>6. CASE Send(p) \/ StopPush(p)
  BY <1>6, IdleOK DEF Send, StopPush
<1>. QED BY <1>1, <1>2, <1>3, <1>4, <1>5, <1>6 DEF HookStep

\* A push leaves the test runs alone, and HEAD with them.
LEMMA PushStepOK ==
  ASSUME IInv, NEW p \in Pushers,
         HookStep(p) \/ \E forced \in BOOLEAN : BeginPush(p, forced)
  PROVE  IInv'
<1>. USE DEF BeginPush, PreflightClaim, PreflightMain, PreflightRemote, Verify, Send, StopPush, HookStep
<1>1. PICK n \in Push : StepPush(p, n) /\ PushOK(n)
  BY PushNext
<1>2. UNCHANGED <<main, active, scopes, token, head, dirty, attestation, checker>>
  BY DEF remote, claim, worktree
<1>3. base' \in Commits /\ branch' \in Commits \cup {None}
  <2>1. CASE Send(p)
    BY <2>1, Reads DEF PushOK, IInv, TypeOK
  <2>2. CASE ~Send(p)
    BY <2>2 DEF IInv, TypeOK, remote
  <2>. QED BY <2>1, <2>2
<1>4. TypeOK'
  BY <1>1, <1>2, <1>3 DEF StepPush, IInv, TypeOK
<1>5. \A q \in Pushers : PushOK(push[q])'
  BY <1>1, <1>2 DEF StepPush, IInv, TypeOK, PushOK, Owns
<1>6. Attested' /\ \A k \in Checkers : CheckOK(checker[k])'
  BY <1>2 DEF IInv, Attested, CheckOK
<1>. QED BY <1>4, <1>5, <1>6 DEF IInv

\* ---- Around them ----------------------------------------------------------

\* Moving HEAD ends what a push knew of it. During a test run it grows: it does
\* not come back to the commit that the tests read dirty or have left.
LEMMA MoveOK ==
  ASSUME IInv, NEW c \in Commits, Commit(c) \/ Rewrite(c)
  PROVE  IInv'
<1>1. MoveTo(c) /\ c # head
  BY DEF Commit, Rewrite
<1>2. /\ head' = c /\ dirty' = FALSE
      /\ UNCHANGED <<main, branch, active, scopes, token, base, attestation, checker>>
      /\ push' = [p \in Pushers |-> IF push[p] = NoPush THEN NoPush ELSE AfterMove(push[p])]
  BY <1>1 DEF MoveTo, AfterMove, remote, claim
<1>3. ASSUME NEW p \in Pushers
      PROVE  push'[p] \in Push /\ PushOK(push[p])'
  <2>. DEFINE r == push[p]  n == AfterMove(r)
  <2>0. r \in Push /\ PushOK(r)
    BY Reads
  <2>1. CASE r = NoPush
    <3>1. push'[p] = NoPush
      BY <1>2, <2>1
    <3>. QED BY <3>1, IdleOK DEF PushOK
  <2>2. CASE r # NoPush
    <3>1. push'[p] = n
      BY <1>2, <2>2
    <3>2. /\ n \in Push /\ n.pc = r.pc /\ n.sha = r.sha /\ n.held = r.held /\ n.head = r.head
          /\ n.began = r.began /\ n.advertised = r.advertised /\ n.moved = TRUE
      BY <2>0, HeadMoved
    <3>. HIDE DEF n
    <3>. QED BY <1>2, <2>0, <3>1, <3>2 DEF PushOK, Owns
  <2>. QED BY <2>1, <2>2
<1>4. ASSUME NEW k \in Checkers
      PROVE  CheckOK(checker[k])'
  <2>. DEFINE r == checker[k]
  <2>0. r \in Checker /\ CheckOK(r) /\ head \in Commits
    BY Reads
  <2>1. CASE r.pc \notin {"tests", "compare"}
    BY <1>2, <2>0, <2>1 DEF CheckOK
  <2>2. CASE r.pc \in {"tests", "compare"}
    <3>1. Includes(c, head)
      BY <2>2, IdleOK DEF Commit, Rewrite, Testing
    <3>. QED BY <1>1, <1>2, <2>0, <2>2, <3>1, GateAssumption DEF CheckOK, Includes, Seen
  <2>. QED BY <2>1, <2>2
<1>5. TypeOK'
  <2>1. push' \in [Pushers -> Push]
    BY <1>2, <1>3
  <2>. QED BY <1>2, <2>1 DEF IInv, TypeOK
<1>6. Attested'
  BY <1>2 DEF IInv, Attested
<1>. QED BY <1>3, <1>4, <1>5, <1>6 DEF IInv

\* What leaves the processes and HEAD alone.
Around == \/ \E c \in Commits : BranchUpdated(c)
          \/ \E c \in Mains : MainAdvances(c)
          \/ \E s \in Scopes : Rescope(s)
          \/ Edit \/ Undo \/ FetchMain \/ ClaimEnds \/ TokenReplaced

LEMMA AroundOK ==
  ASSUME IInv, Around
  PROVE  IInv'
<1>. USE DEF Around, BranchUpdated, MainAdvances, Rescope, Edit, Undo, FetchMain, ClaimEnds,
             TokenReplaced, remote, claim, worktree
<1>0. active' \in BOOLEAN /\ scopes' \in Scopes \cup {{}} /\ token' \in BOOLEAN /\ dirty' \in BOOLEAN
  BY DEF IInv, TypeOK
<1>1. /\ main' \in Commits /\ branch' \in Commits \cup {None} /\ base' \in Commits
      /\ UNCHANGED <<head, attestation, checker, push>>
  BY GateAssumption DEF IInv, TypeOK
<1>2. Owns' => Owns
  BY DEF Owns
<1>3. dirty' \/ ~dirty \/ ~Testing
  OBVIOUS
<1>4. TypeOK'
  BY <1>0, <1>1 DEF IInv, TypeOK
<1>5. \A p \in Pushers : PushOK(push[p])'
  BY <1>1, <1>2 DEF IInv, PushOK
<1>6. \A k \in Checkers : CheckOK(checker[k])'
  BY <1>1, <1>3, IdleOK DEF IInv, CheckOK, Testing
<1>7. Attested'
  BY <1>1 DEF IInv, Attested
<1>. QED BY <1>4, <1>5, <1>6, <1>7 DEF IInv

\* ---- Theorems -------------------------------------------------------------

LEMMA InitOK == Init => IInv
<1>. SUFFICES ASSUME Init PROVE IInv
  OBVIOUS
<1>1. TypeOK
  BY IdleOK, GateAssumption DEF Init, TypeOK
<1>2. Attested /\ \A k \in Checkers : CheckOK(checker[k])
  BY IdleOK DEF Init, Attested
<1>3. \A p \in Pushers : PushOK(push[p])
  BY IdleOK DEF Init
<1>. QED BY <1>1, <1>2, <1>3 DEF IInv

\* The inductive invariant: what each test run and each push still knows of HEAD,
\* of the remote branch and of the claim at its step.
THEOREM Invariance == Spec => []IInv
<1>1. IInv /\ [Next]_vars => IInv'
  <2>. SUFFICES ASSUME IInv, [Next]_vars PROVE IInv'
    OBVIOUS
  <2>1. CASE \E k \in Checkers : CheckStep(k)
    BY <2>1, CheckStepOK
  <2>2. CASE \E p \in Pushers : HookStep(p) \/ \E forced \in BOOLEAN : BeginPush(p, forced)
    BY <2>2, PushStepOK
  <2>3. CASE \E c \in Commits : Commit(c) \/ Rewrite(c)
    BY <2>3, MoveOK
  <2>4. CASE Around
    BY <2>4, AroundOK
  <2>5. CASE UNCHANGED vars
    BY <2>5 DEF vars, IInv, TypeOK, Attested, CheckOK, PushOK, Owns
  <2>. QED BY <2>1, <2>2, <2>3, <2>4, <2>5 DEF Next, CheckStep, HookStep, Around
<1>. QED BY <1>1, InitOK, PTL DEF Spec

\* Every variable keeps its type.
THEOREM TypeCorrect == Spec => []TypeOK
<1>1. IInv => TypeOK
  BY DEF IInv
<1>. QED BY <1>1, Invariance, PTL

\* Unless HEAD moved during the hook, what reaches the remote is a commit on which
\* the checks ran, clean and exactly, and passed: CompareSnapshots cannot be
\* passed by a run that read another tree, whatever was committed meanwhile.
THEOREM TestedBeforePush == Spec => PushedWasTested
<1>1. IInv => [\A p \in Pushers : Accepted(p) =>
                 \/ push[p].moved
                 \/ push[p].ran = [head |-> push[p].sha, dirty |-> FALSE] /\ push[p].sha \in Passing]_vars
  BY DEF IInv, PushOK, Tested, Accepted
<1>. QED BY <1>1, Invariance, PTL DEF PushedWasTested

\* The claim and its token were there when the push began, since neither comes
\* back, and the commit lies within the paths that were read.
THEOREM ClaimedBeforePush == Spec => PushedUnderClaim
<1>1. IInv => [\A p \in Pushers : Accepted(p) =>
                 push[p].began /\ (push[p].moved \/ Paths[push[p].sha] \subseteq push[p].held)]_vars
  BY DEF IInv, PushOK, Accepted
<1>. QED BY <1>1, Invariance, PTL DEF PushedUnderClaim

\* Nothing that was on the remote branch is lost, forced pushes included: what was
\* compared is what git advertised, and the remote compares that again.
THEOREM RemoteGrows == Spec => NeverRewritten
<1>1. IInv /\ [Next]_vars => [branch # None /\ branch' # branch => Includes(branch', branch)]_vars
  <2>. SUFFICES ASSUME IInv, Next, branch # None, branch' # branch
                PROVE  Includes(branch', branch)
    OBVIOUS
  <2>1. CASE \E p \in Pushers : Send(p)
    BY <2>1, Reads DEF Send, PushOK
  <2>2. CASE \E c \in Commits : BranchUpdated(c)
    BY <2>2 DEF BranchUpdated
  <2>. QED
    BY <2>1, <2>2
    DEF Next, BeginChecks, RunTests, CompareSnapshots, WriteAttestation, StopChecks, BeginPush,
        PreflightClaim, PreflightMain, PreflightRemote, Verify, StopPush, Commit, Rewrite, MoveTo,
        MainAdvances, Rescope, Edit, Undo, FetchMain, ClaimEnds, TokenReplaced, remote
<1>. QED BY <1>1, Invariance, PTL DEF Spec, NeverRewritten

====
