----------------------------- MODULE PushGate -----------------------------
(* One clone on a claimed branch: the test runs of team_checks.py that attest  *)
(* its commits, and the pushes that the pre-push hook lets through only after  *)
(* team.py preflight and team_checks.py --verify. Developers edit, commit and  *)
(* rewrite meanwhile; main moves, the claim ends, the remote branch moves.     *)
(* The register is a TaskBoard seen through one claim: a branch is claimed     *)
(* once, by one clone, and its claim ends for good.                            *)
EXTENDS Integers, FiniteSets

CONSTANTS
  Commits, Before,  \* Before[c] : c and the commits it includes
  Mains,            \* the commits main may be at
  Passing,          \* the commits whose checks pass
  Paths,            \* Paths[c] : what c changes since main
  Scopes,           \* the sets of paths that the claim may hold
  Checkers, Pushers, None

ASSUME GateAssumption ==
  /\ None \notin Commits /\ Mains \subseteq Commits /\ Passing \subseteq Commits
  /\ Before \in [Commits -> SUBSET Commits]
  /\ \A c \in Commits : c \in Before[c] /\ \A d \in Before[c] : Before[d] \subseteq Before[c]
  /\ \A c, d \in Commits : c \in Before[d] /\ d \in Before[c] => c = d

VARIABLES
  main, branch,      \* on the remote: main, and the claimed branch or None
  active, scopes,    \* in the register: the claim
  token,             \* does this clone hold the claim's token?
  head, dirty, base, \* the worktree, and the clone's origin/main
  attestation,       \* what team-checks.json says, or None
  checker, push      \* the processes

vars == <<main, branch, active, scopes, token, head, dirty, base, attestation, checker, push>>
remote   == <<main, branch>>
claim    == <<active, scopes, token>>
worktree == <<head, dirty>>

\* What a test run saw of the worktree when the tests read it.
Seen        == [head : Commits, dirty : BOOLEAN]
Attestation == [head : Commits, base : Commits, ran : Seen]

Checker == [pc : {"idle", "tests", "compare", "write"},
            head : Commits \cup {None}, base : Commits \cup {None}, ran : Seen \cup {None}]
NoCheck == [pc |-> "idle", head |-> None, base |-> None, ran |-> None]

\* began: the claim was active and its token here when the push began; moved:
\* HEAD has moved since; ran: what the attestation says was run.
Push   == [pc : {"idle", "claim", "main", "remote", "verify", "send"},
           sha : Commits \cup {None}, advertised : Commits \cup {None},
           head : Commits \cup {None}, held : SUBSET UNION Scopes,
           began : BOOLEAN, moved : BOOLEAN, ran : Seen \cup {None}]
NoPush == [pc |-> "idle", sha |-> None, advertised |-> None, head |-> None, held |-> {},
           began |-> FALSE, moved |-> FALSE, ran |-> None]

Includes(c, d) == d \in Before[c]

Init ==
  /\ main \in Mains /\ branch = None
  /\ active = TRUE /\ scopes \in Scopes
  /\ token \in BOOLEAN
  /\ head = main /\ base = main /\ dirty = FALSE
  /\ attestation = None
  /\ checker = [k \in Checkers |-> NoCheck]
  /\ push = [p \in Pushers |-> NoPush]

\* ---- team_checks.py: run_checks ------------------------------------------

StepCheck(k, r) == checker' = [checker EXCEPT ![k] = r]

\* An earlier success is forgotten before anything else; a dirty tree ends it.
BeginChecks(k) ==
  /\ checker[k] = NoCheck
  /\ attestation' = None
  /\ checker' = IF dirty THEN checker
                ELSE [checker EXCEPT ![k] = [pc |-> "tests", head |-> head, base |-> base,
                                             ran |-> None]]
  /\ UNCHANGED <<remote, claim, worktree, base, push>>

\* The checks read the worktree as it is now; on a dirty one they may do either.
RunTests(k) ==
  /\ checker[k].pc = "tests"
  /\ \E passed \in BOOLEAN :
       /\ ~dirty => (passed <=> head \in Passing)
       /\ StepCheck(k, IF passed
                       THEN [checker[k] EXCEPT !.pc = "compare",
                                               !.ran = [head |-> head, dirty |-> dirty]]
                       ELSE NoCheck)
  /\ UNCHANGED <<remote, claim, worktree, base, attestation, push>>

\* snapshot(root, base) = before
SameSnapshot(h, b) == ~dirty /\ head = h /\ base = b

\* Variant: only the cleanness is looked at again.
ComparisonSkipped(k) ==
  /\ checker[k].pc = "compare" /\ ~dirty
  /\ StepCheck(k, [checker[k] EXCEPT !.pc = "write"])
  /\ UNCHANGED <<remote, claim, worktree, base, attestation, push>>

CompareSnapshots(k) ==
  /\ checker[k].pc = "compare"
  /\ StepCheck(k, IF SameSnapshot(checker[k].head, checker[k].base)
                  THEN [checker[k] EXCEPT !.pc = "write"] ELSE NoCheck)
  /\ UNCHANGED <<remote, claim, worktree, base, attestation, push>>

\* The temporary file replaces the attestation, whoever wrote it.
WriteAttestation(k) ==
  /\ checker[k].pc = "write"
  /\ attestation' = [head |-> checker[k].head, base |-> checker[k].base, ran |-> checker[k].ran]
  /\ StepCheck(k, NoCheck)
  /\ UNCHANGED <<remote, claim, worktree, base, push>>

\* A test run that is killed, or fails in another way, leaves no attestation.
StopChecks(k) ==
  /\ checker[k] # NoCheck
  /\ StepCheck(k, NoCheck)
  /\ UNCHANGED <<remote, claim, worktree, base, attestation, push>>

\* ---- git push and its hook -----------------------------------------------

StepPush(p, r) == push' = [push EXCEPT ![p] = r]

\* Git fixes the commit it sends and learns what the remote has. Unless it is
\* forced it refuses what does not include that.
BeginPush(p, forced) ==
  /\ push[p] = NoPush
  /\ forced \/ branch = None \/ Includes(head, branch)
  /\ StepPush(p, [NoPush EXCEPT !.pc = "claim", !.sha = head, !.advertised = branch,
                                !.began = active /\ token])
  /\ UNCHANGED <<remote, claim, worktree, base, attestation, checker>>

\* Variant: the worker's name is enough.
OwnsByName == active

Owns == active /\ token

\* preflight on a clean tree reads the register: the claim is active and this clone's.
PreflightClaim(p) ==
  /\ push[p].pc = "claim"
  /\ StepPush(p, IF ~dirty /\ Owns THEN [push[p] EXCEPT !.pc = "main", !.held = scopes] ELSE NoPush)
  /\ UNCHANGED <<remote, claim, worktree, base, attestation, checker>>

\* It fetches main and reads HEAD, which must include it.
PreflightMain(p) ==
  /\ push[p].pc = "main"
  /\ base' = main
  /\ StepPush(p, IF Includes(head, main)
                 THEN [push[p] EXCEPT !.pc = "remote", !.head = head] ELSE NoPush)
  /\ UNCHANGED <<remote, claim, worktree, attestation, checker>>

\* Variant: it is enough that the remote has not moved.
FastForwardIfSame(p) == branch = push[p].advertised

FastForward(p) ==
  /\ branch = push[p].advertised
  /\ branch = None \/ Includes(push[p].head, branch)

\* The one update is of this branch to HEAD, from what the remote still has, and
\* includes that; and the diff stays within the scopes that were read.
PreflightRemote(p) ==
  /\ push[p].pc = "remote"
  /\ StepPush(p, IF push[p].sha = push[p].head /\ FastForward(p) /\ Paths[head] \subseteq push[p].held
                 THEN [push[p] EXCEPT !.pc = "verify"] ELSE NoPush)
  /\ UNCHANGED <<remote, claim, worktree, base, attestation, checker>>

\* team_checks.py --verify: the attestation is of the clean worktree as it is now.
Verify(p) ==
  /\ push[p].pc = "verify"
  /\ StepPush(p, IF attestation # None /\ SameSnapshot(attestation.head, attestation.base)
                 THEN [push[p] EXCEPT !.pc = "send", !.ran = attestation.ran] ELSE NoPush)
  /\ UNCHANGED <<remote, claim, worktree, base, attestation, checker>>

\* The remote updates the branch only from the commit it advertised.
Send(p) ==
  /\ push[p].pc = "send"
  /\ branch' = IF branch = push[p].advertised THEN push[p].sha ELSE branch
  /\ StepPush(p, NoPush)
  /\ UNCHANGED <<main, claim, worktree, base, attestation, checker>>

StopPush(p) ==
  /\ push[p] # NoPush
  /\ StepPush(p, NoPush)
  /\ UNCHANGED <<remote, claim, worktree, base, attestation, checker>>

\* ---- Around them ----------------------------------------------------------

\* HEAD moves: every push under way remembers it.
MoveTo(c) ==
  /\ head' = c /\ dirty' = FALSE
  /\ push' = [p \in Pushers |-> IF push[p] = NoPush THEN NoPush ELSE [push[p] EXCEPT !.moved = TRUE]]
  /\ UNCHANGED <<remote, claim, base, attestation, checker>>

Testing  == \E k \in Checkers : checker[k] # NoCheck

\* A commit, or a merge of the clone's main.
Commit(c)  == Includes(c, head) /\ c # head /\ MoveTo(c)
\* A rebase, an amended commit or a switch, and an edit taken back. Two equal
\* snapshots cannot see what was undone between them, so nobody does it during a
\* test run: ASSUMED of the developers.
Rewrite(c) == ~Testing /\ c # head /\ MoveTo(c)
Undo       == /\ ~Testing /\ dirty /\ dirty' = FALSE
              /\ UNCHANGED <<remote, claim, head, base, attestation, checker, push>>
Edit       == /\ ~dirty /\ dirty' = TRUE
              /\ UNCHANGED <<remote, claim, head, base, attestation, checker, push>>
FetchMain  == /\ base # main /\ base' = main
              /\ UNCHANGED <<remote, claim, worktree, attestation, checker, push>>

\* Pull requests are merged into main, and GitHub merges main into the branch.
MainAdvances(c) ==
  /\ c # main /\ Includes(c, main) /\ main' = c
  /\ UNCHANGED <<branch, claim, worktree, base, attestation, checker, push>>
BranchUpdated(c) ==
  /\ branch # None /\ c # branch /\ Includes(c, branch) /\ branch' = c
  /\ UNCHANGED <<main, claim, worktree, base, attestation, checker, push>>

\* In the register: the claim ends or is rescoped; this clone starts another task.
ClaimEnds  == /\ active /\ active' = FALSE /\ scopes' = {}
              /\ UNCHANGED <<remote, token, worktree, base, attestation, checker, push>>
Rescope(s) == /\ active /\ s # scopes /\ scopes' = s
              /\ UNCHANGED <<remote, active, token, worktree, base, attestation, checker, push>>
TokenReplaced == /\ token /\ token' = FALSE
                 /\ UNCHANGED <<remote, active, scopes, worktree, base, attestation, checker, push>>

Next ==
  \/ \E k \in Checkers : \/ BeginChecks(k) \/ RunTests(k) \/ CompareSnapshots(k)
                         \/ WriteAttestation(k) \/ StopChecks(k)
  \/ \E p \in Pushers : \/ \E forced \in BOOLEAN : BeginPush(p, forced)
                        \/ PreflightClaim(p) \/ PreflightMain(p) \/ PreflightRemote(p)
                        \/ Verify(p) \/ Send(p) \/ StopPush(p)
  \/ \E c \in Commits : Commit(c) \/ Rewrite(c) \/ BranchUpdated(c)
  \/ \E c \in Mains : MainAdvances(c)
  \/ \E s \in Scopes : Rescope(s)
  \/ Edit \/ Undo \/ FetchMain \/ ClaimEnds \/ TokenReplaced

Spec == Init /\ [][Next]_vars

\* ---- Properties ----------------------------------------------------------

\* The processes' records are of their step, and the clone is at commits.
TypeOK ==
  /\ main \in Commits /\ branch \in Commits \cup {None}
  /\ active \in BOOLEAN /\ scopes \in Scopes \cup {{}} /\ token \in BOOLEAN
  /\ head \in Commits /\ dirty \in BOOLEAN /\ base \in Commits
  /\ attestation \in Attestation \cup {None}
  /\ checker \in [Checkers -> Checker]
  /\ push \in [Pushers -> Push]

Accepted(p) == push[p].pc = "send" /\ branch' = push[p].sha /\ push'[p] = NoPush

\* Unless HEAD moves during its own hook, a push brings to the remote only a
\* commit on which, clean and exactly, the checks ran and passed.
PushedWasTested ==
  [][\A p \in Pushers : Accepted(p) =>
       \/ push[p].moved
       \/ push[p].ran = [head |-> push[p].sha, dirty |-> FALSE] /\ push[p].sha \in Passing]_vars

\* The remote branch only ever moves to a commit that includes it, forced or not,
\* and whatever moved it meanwhile.
NeverRewritten == [][branch # None /\ branch' # branch => Includes(branch', branch)]_vars

\* A push that begins after its claim has ended, or in a clone that does not
\* hold its token, brings nothing to the remote; nor does one outside the
\* paths the claim held when it was read.
PushedUnderClaim ==
  [][\A p \in Pushers : Accepted(p) =>
       push[p].began /\ (push[p].moved \/ Paths[push[p].sha] \subseteq push[p].held)]_vars

=============================================================================
