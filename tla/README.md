# Formal models of AgentFactory-Cloud

AgentFactory-Cloud is the product side of AgentFactory: game creators describe
an idea, agree to a first playable scope and follow its making, on top of the
separate Core. The repository holds the hosted stores, the identity service, the
local creator application, and the tool with which the developers of the two
repositories share their work. This directory models the parts in which state,
several actors and failures meet, in TLA+, with TLC instances and TLAPS proofs.

## The system

| Component | State it keeps | Operations | What is hard | What makes it correct |
|---|---|---|---|---|
| Protected objects (`protected_objects.py`, `object_migrations.py`) | PostgreSQL rows, references, quota, events; S3 keys | `configure_quota`, `upload`, `download`, `reference`, `delete`, `cleanup` | two stores without a common transaction, an advisory lock that dies with its session, PUTs that arrive after their sender gave up | no byte without a charged row, ready is readable, referenced is kept, erasure is final, events tell the life |
| Hosted record store (`hosted_store.py`, `storage_migrations`) | records, request table, audit, outbox | `put`, `import_sqlite_snapshot`, `lease`, `acknowledge` | retried commands after lost answers, leases that run out under a slow consumer | gapless history, durable answers, exclusive leases, no lost event |
| Brief store (`game_briefs.py`, `brief_web.py`) | briefs and immutable versions, command rows, suggestion attempts; Core's mission drafts in a second database | `create`, `save` (the edit route), `suggest` | two databases, a version read long before it is written, an inference between two commits | versions build on each other, human choices stay, one inference per command |
| Scope plans (`scope_plans.py`) | plans and immutable versions, bound to brief versions | `write` (draft, edit, agree), `get`, `latest` | a brief that moves on while its plan is read or agreed to | an agreement names the version that was shown |
| Game teams (`game_team.py`) | Core roles and compositions | `view`, `assess` | `core_lock` and SQLite's write lock taken in two orders | one assessment per agreed snapshot, nobody waits for ever |
| Identity (`identity*.py`, `access.py`) | accounts, generations, sessions, memberships, rate counters, deletion jobs, audit | `provision`, `membership`, `login`, `authenticate`, `authorize`, `logout`, `recover`, `request_deletion`, `finish_deletion` | a principal used after a recovery; an eraser between two transactions | an old generation acts no more, guesses are counted, deletion ends |
| Worker gateway (`worker_gateway*.py`) | none of its own: Core's admissions and leases | `claim`, `renew` | a fence that is checked before the admission is read again | a stale fence renews nothing |
| Team task register (`scripts/team.py`) | `team-state.json` on a Git branch; tokens in clones | `claim`, `start`, `heartbeat`, `rescope`, `block`, `release`, `review`, `complete`, the migration | optimistic pushes that are refused, unanswered or late; stale tokens; pull requests that move | claims exclude each other, an answer is true, done means merged as reviewed |
| Test attestation and push gate (`scripts/team_checks.py`, `.githooks/pre-push`, `preflight` of `team.py`) | an attestation file, refs | `run_checks`, `verify`, `preflight --push` | the tree changes while tests run; main, the branch and the claim move between the steps of the hook | what is pushed was tested, includes what was there and is claimed |
| Domain reference model (`scripts/validate_domain_contracts.py`, `contracts/v1`) | records and receipts in memory | `execute` | retries after an answer was lost or a receipt expired, stale revisions, reports of attempts that are over, rights and inputs that are withdrawn | one effect per command, no old evidence, nothing published that rests on nothing |
| Contract validators, upload inspection, server inventory, connection guidance, browser pages, qualification scripts, prototype | none | checks and views | parsing and rendering | not modelled, see the end |

The components meet in few places. Cloud services call Core in process (missions,
roles, admissions) through its SQLite store. Game teams and scope plans read the
brief store and share its databases and `core_lock`. The product resources an
identity owns are erased by a callback that nothing in this repository provides
yet. The hosted stores share PostgreSQL's per-tenant advisory lock but no table.
The task register is used by people and their tools only.

## Modules

| Module | Models | State and actions against the code |
|---|---|---|
| `ProtectedObjects` | protected objects | `state`, `manifest`, `refs`, `quota`, `evidence` are the tables; `bucket` and `late` are S3; `lock` is the advisory lock; `job[c]` is what a thread remembers between two remote steps. A transaction that takes the lock first and does no remote I/O is one action; `upload`, `download` and `delete` are cut where they talk to S3 |
| `ObjectLifecycle` | what that store promises, without threads or locks | refined by `ProtectedObjects` |
| `HostedStore` | records, audit, outbox | `put` and `import_sqlite_snapshot` run under the tenant's lock and are one action (a snapshot is a set of entries, applied in any order: its source is read without an ORDER BY); `lease` selects (`Select`) and stamps (`Stamp`) in two statements; `HandOver` is the consumer's own work |
| `BriefStore` | briefs and suggestions | `thread[t]` is a request with what it read; each SQLite transaction is one action, and between them anything may raise (`Raise`) or the process be killed (`Restart`) |
| `ScopePlans` | scope plans and the team assessment, over the briefs | `writeLock` is the one write lock of the SQLite database, `coreLock` is `core_lock`; `write` is cut after the statements that read under the lock (`WriteBegin`, `Put`), `assess` where it waits for `core_lock` and for Core (`AssessBegin`, `Compose`, `Close`); of `BriefStore` only the revision and the locks of `create` and `save` are kept. A snapshot digest is the pair of revisions it is computed from |
| `Identity` | accounts and sessions | every transaction of `IdentityStore` is one action; a request is up to three of them, `Resolve` (`authenticate`), `Limit` (`limited`) and its act, and `thread[t]` is the principal it carries between them; `Begin`, `Erase`, `Complete` are `finish_deletion` around the eraser. A factor is the generation it was made in, a token the login it came from; `revoked` and `admitted` are kept for the properties |
| `TeamRegistry` | the task register | `register` is the file on the remote; a command fetches and changes a copy (`FetchAndChange`), then pushes it; a push is accepted only on the commit it was made from (`Accepts`), or times out and may land later (`late`) |
| `TaskBoard` | what the register promises, one command at a time | refined by `TeamRegistry` |
| `DomainModel` | the domain contract | `execute` is sequential, so a command is one step (`Execute`), its checks in the order of the code (`Denial`, `Replayed`, `Fresh`); `Operations` is `transitions.json`; the other actions are the services around it, which report checks, approve, take rights and inputs back, and the clock. One record of each kind, whose present version is what a proof is bound to |
| `PushGate` | one clone's test runs and pushes | `run_checks` is cut where it reads the worktree (`BeginChecks`, `RunTests`, `CompareSnapshots`, `WriteAttestation`), the hook where it reads the register, main, the remote branch and the attestation (`PreflightClaim`, `PreflightMain`, `PreflightRemote`, `Verify`), and git before and after it (`BeginPush`, `Send`). The register is one claim: a branch is claimed once, and its claim ends for good |
| `MC...` | instances for TLC | model values, small data, fairness where a run needs it |
| `<module>Proofs` | theorems about each of the eight modules above that model code | the invariant each needs is defined there (`IInv`) and TLC checked it on the module's instances first |

Definitions that a comment marks as *Variant* are deliberate faults: each is the
code with one guard dropped or weakened, used to confirm that a property can
fail. No specification uses them.

### Abstractions shared by the modules

A payload, document, text or commit is a model value, a digest is equality of
what it is computed from, and a fresh random id is the position of the command
that drew it. A database transaction is atomic; so is a read of one. Serialised
access that a lock gives is used to merge steps only while the lock cannot be
lost (`HostedStore`, `BriefStore`); where it can (`ProtectedObjects`), and where two
locks meet (`ScopePlans`), it is modelled.

## Runs

| Run | Question | Instance |
|---|---|---|
| `protected_objects` | do bytes, rows, references and events stay consistent whatever three threads and S3 do | 1 object, 3 threads, 1 reference; the interesting conflicts are between threads on one key, since keys share only the quota |
| `object_cleanup` | is every overdue or started erasure confirmed; is the quota kept when two objects compete for it | 2 objects, 2 threads, batches of one row, at most one failure |
| `hosted_history` | do audit, records and answers tell one story under retries and imports | 2 records, 3 commands, 2 snapshots (one that conflicts halfway), 3 revisions |
| `outbox_delivery` | are leases exclusive and all events delivered | 2 events, 2 consumers, 2 attempts each: one that fails anywhere and one that is spared |
| `brief_store` | do versions, suggestions and answers survive repeated, stale and interrupted requests | 1 idea, 1 edit and 2 suggestion commands, 4 requests on 2 threads, 1 fault; 4 requests are create, edit and two suggestions, or a create and one command sent three times |
| `scope_plans` | are agreements to what was shown and assessments of what is current; does every request end although two locks are taken in opposite orders | 1 brief on record with a draft, 1 to be created, 2 further plan commands, 3 requests on 2 threads, 1 fault; agree, assess and a create are enough for the two locks to meet, agree, assess and a save for a stale snapshot, and a save and an agreement for a stale version |
| `identity` | does a revoked principal do nothing more; are guesses counted whatever fails; does a deletion end with nothing left | 1 account, 2 peers, 2 threads, 2 workers, 3 requests, 2 logins, 1 recovery, 1 fault; 3 requests are a login, a request with its token, and what revokes it in between. One attempt per account and two per peer in a window, four counter rows, and a login that ends the session before it: small enough for three requests to meet each limit |
| `team_claims` | do overlapping claims exclude each other although pushes race, fail or land late | 2 processes, 2 tasks, nested paths, 3 commands of 2 attempts, 1 late push |
| `team_reviews` | is a task finished only as reviewed, and is a dependent started only then; can a stale token change a newer claim | claim, review, complete, release and claims anew, of a task and of one that waits for it; a pull request with 2 heads that can be closed, reopened and merged |
| `team_same_name` | does `docs/team-workflow.md:73` hold; it fails, see below | 2 clones of one worker, 1 task, 4 commands: claim, release, claim, and one by the clone that was left behind |
| `domain_model` | does a key take effect once; does what is released rest on a run that succeeded, on reports of the present attempt and on a project that exists | 2 actors, 2 keys, 2 attempts, 3 instants; the sum of four bounds (`Bounds`): every command with nothing that expires, retries of a run with late and failed reports, repeated commands while receipts and a session expire, and a publication while rights and a source are withdrawn. The four meet in the records they share, one at a time; their product would not finish |
| `push_gate` | was what reaches the remote tested clean, does it include what was there, was it pushed under its claim | 1 test run and 1 push at a time; 5 commits: main, main moved on, a commit, its merge with main and a commit that rewrites it; the merge changes a path that one of 2 scopes does not have |

Every count that bounds a run is a constant or a guard named in its module
(`MaxReads`, `MaxFaults`, `MaxRevision`, `MaxAttempts`, `MaxRequests`, `MaxOps`,
`MaxLate`, `MaxHead`, `MaxTokens`, `MaxGeneration`, `MaxNow`, `MaxAttempt`, `Bounds`);
`PushGate` needs none, its commits are finitely many. Runs switch the deadlock check off because the systems
really may stop: everything is delivered, all requests are answered or a bound
is reached.

Symmetry is used in `brief_store` for its two threads, which no property names.

### Fairness

Four runs state liveness.

`object_cleanup`: a thread that started an operation goes on (strong fairness of
`Progress`, since it competes for the advisory lock, which PostgreSQL grants in
the order of arrival), and the host calls `cleanup` again and again
(`docs/protected-objects.md` asks for it). Uploads, references and failures are
not fair, and `MaxFaults` ends the failures.

`outbox_delivery`: consumers poll and finish what they do unless they die
(strong fairness per step, since two consumers compete for a row), and the clock
passes the end of every lease (weak fairness of `Expire`). The last of
`MaxAttempts` attempts is spared: with failures for ever nothing could be
delivered.

`scope_plans`: a thread that serves a request goes on (weak fairness of `Work`).
That is all that is needed: a thread that waits for the write lock can at any
time either take it or run into the timeout of its connection
(`game_briefs.py:174`, 10 seconds), which SQLite counts over the whole wait; and
`core_lock` is free again once the create that holds it has ended. Without the
timeout `EveryRequestEnds` fails, which is what its mutant shows: a create that
holds `core_lock` and an assessment that holds the write lock wait for each
other. In the program the create is then answered with an error after its ten
seconds, and the request can be sent again.

`identity`: the worker that finishes deletions goes on and takes a pending job
again (weak fairness of `Work`): `docs/identity-access.md` has a trusted worker
that replays after a crash, which is not in this repository. The eraser is
external; it may fail or give no clear answer `MaxFaults` times, and as the same
document demands it says `True` only when everything is gone. Nothing else is
fair: requests may stop anywhere.

### What the runs found

`team_same_name` disagrees with the documentation. When `Registry.change`
finds its own operation among the events of a register it fetched again, it
returns that register, and `main` takes the claim id from there (`team.py:602`).
By then the claim may have been released and the task claimed anew by another
clone of the same worker. The old process then stores the token of the newer
claim, and when its `git switch` fails it releases that claim, contrary to
`docs/team-workflow.md:73`. Returning the id that `claim` generated would do.

Observations on the way, which contradict no property:

- A new draft names no version of the plan (`scope_plans.py:169`), so that one tab's
  draft silently takes the place of another tab's agreement; the agreed version stays
  in the history, and `AgreedAsShown` speaks of agreements only.
- `check_locks` need not compare scopes in both directions for a claim to be safe:
  `validate_state` runs it again from the other task's side on the changed copy, so
  `Exclusive` fails only when the comparison is wrong both ways.
- One refusal is stronger than it need be: the copy of an edit that was saved is
  refused as a different change once a suggestion changed the questions in between
  (`brief_web.py:178`).
- Two workers can both read a deletion as pending, and the slower then calls the
  eraser of an account whose deletion is complete, so that "a completed job is not
  executed again" holds for one worker at a time only; the eraser has to be
  idempotent anyway, and `DeletionEnds` holds with two.
- `docs/team-workflow.md:90` has the hook check "the exact checked commit". `preflight`
  compares HEAD with the commit git sends, and `verify`, a process of its own, compares
  HEAD with the attestation; neither is given the other's commit. If HEAD moves between
  the two, the commit that is sent is not the one that was verified. `PushedWasTested`
  therefore speaks of pushes during which HEAD did not move. Passing the commit from one
  to the other would do.
- Two equal snapshots cannot see what was undone between them: an edit that is made
  after the first and taken back before the second (or a switch there and back) is
  tested and not noticed. `PushGate` assumes that nobody does this during a test run
  (`Rewrite`, `Undo`); commits and lasting edits are free.
- A Listing names no project. It can be withdrawn when its project is deleted, and
  `release_withdraw` leaves the listing of that release published: serving it no more is
  left to a later check by `docs/domain-model.md`.
- `check_set` refuses duplicates, and nothing removes a report from a Build: a report
  that arrives twice blocks that Build for good.

## Proofs

Every safety property and both refinements that a passing run checks are theorems,
for every value of the constants under the named assumptions of the module. Each is
derived from an inductive invariant, which says of every process what it still knows
at its step; the bounds of the runs appear in the proofs only as numbers.

`ProtectedObjectsProofs` holds for any set of clients, manifests and references,
any finite set of objects and any bounds, under the two assumptions of the
module: `Domains` (payload sizes are positive, limits are numbers, `Objects` is
finite) and `Distinct` (the sentinel values differ from the data).

The state predicates are not inductive. What makes an upload harmless after an
erasure is not the lock, which the thread may have lost, but what the thread
knows: a PUT is conditional on an absent key, and once a key was fenced with a
tombstone it is never absent again. The inductive invariant `IInv` says this for
every place where a request can be. `RowShape` relates a row's state to its key,
`JobShape` says for each point of a thread's program what state and key can be
there, and `SentFor` says the same for each request in flight. No part
mentions the lock, so the proof also covers every loss of it. `Monotone` collects
what steps never undo, and each shape is kept by any step that is monotone.

From `Invariance`, all of this about objects: `TypeCorrect`, `NoUnaccountedBytes`, `ReadyStaysReadable`,
`ProtectionHolds`. `Refinement` shows that initial states map to initial states
of `ObjectLifecycle` and every step to a step or a stutter, which is then used
the other way round: `LifecycleStep` derives the rows' part of the invariant from
the abstract step.

Two results need more. For `EvidenceTells` the lock does matter: `LockShape` says
that the row of the thread which holds it is as the thread read it, so that a
promotion or a confirmation that still has its connection finds "pending" or
"deleting" and writes the event that comes next; a thread without it fails at the
statement. `Counted` counts the hand-overs under way against the committed download
events. `QuotaIsHonoured`, an action property, is about a sum over the rows, a fold
in an order nobody knows. The prover has no induction over data; instead
`SumIsUnits` shows that the sum is the cardinality of a set, one element for each
byte of each row, because that cardinality satisfies the recursion of the fold and
a smallest set on which two solutions differ cannot exist. `SumGrows` and
`SumShrinks` are then facts about finite sets, and only `Reserve` adds to the sum.

`ScopePlansProofs` holds for any set of briefs, scopes, commands and threads and
any bounds, under `ScopeAssumptions` (`Ideas` is not empty, the value for a free
lock is not a thread, the bounds are numbers). Here the lock is the argument.
`AsBegun` says that the thread which holds the write lock finds the brief, the
plan and the commands as they were when its transaction began; it is kept
because only the holder writes, which `LocksOK` (who holds a lock is at a step
that holds it) gives for every other thread. `CommandsRecorded` adds that the
command of every version is on record, so that a command not on record makes a
version of its own. From there `Agreements` follows by one look at `Put`, and
`Assessments`, an action property, by one look at `Compose`.

`DomainModelProofs` holds for any actors, sessions, required checks, prices and
bounds, under `DomainAssumption`, `BoundsAssumption` and `KnownStatesAssumption`
(no operation names a state its entity does not have). What the argument needs of
the table of operations is one lemma, `Table`: which guard leads to each state that
a property is about, and from where. `RestsOnSuccess` and `NoOrphanListing` are then
inductive by themselves: a command on the run starts from a state in which nothing
rests on it. `EvidenceOfThisAttempt` needs `RestsOnSuccess`, since a retry empties the
reports of the run, and `AppliedOnce` needs that every receipt is on a revision that
is past (`ReceiptsPast`).

`PushGateProofs` holds for any history of commits that is a partial order, any
scopes and any number of test runs and pushes at a time, under `GateAssumption`. The
invariant says of each process what it still knows at its step. For a test run
(`CheckOK`) this is that HEAD only grows, so that a worktree that is clean and at the
commit of the first snapshot has never left it: the order being antisymmetric, HEAD
does not come back to where it was read dirty. For a push (`PushOK`) it is what the hook has
compared, and that a claim, or a token, that is gone does not come back. The three
properties follow; `NeverRewritten` also needs the remote's own comparison in `Send`.

`TeamRegistryProofs` holds for any tasks, paths, pull requests, processes and number
of retries, under `RegistryAssumptions` (scopes are sequences, every client has a
worker, every pull request a branch). The register only grows, so a push that is
accepted finds the register it was made from. The invariant therefore follows
the pushes: `Good` says what every copy satisfies on which a command was carried
out, `Follows` that the copy is the register with one command applied, if the
register is still the one that was fetched, and `Flying` says both of a push that
is under way or was given up and may land later. Without the last one the
invariant is not inductive, since nobody waits for a late push. Of paths the proof
needs that two prefixes of one path lie above each other (`Comparable`).
`Refinement` maps every action to one step of `TaskBoard` or to a stutter: fetches,
timeouts and retries stutter, an accepted push is the command.

`IdentityProofs` holds for any accounts, peers, requests, workers and limits, under
`IdentityAssumptions`. The order of a request's transactions plays no part: what a
request carries is believed by nobody, and every transaction looks again
(`RequestOK` says hardly more than which requests carry a token). `SessionsOK` gives
that a session belongs to the present generation of an active account and is not
revoked; the number of sessions an account keeps follows since trimming ends the one
with the least token, and there is a least one. `RatesOK` bounds what a window let
through by what it counted, in a table that never has more than `RateRows` rows.

`BriefStoreProofs` holds for any ideas, commands, fields, texts and threads, under
`BriefAssumptions`. A version never changes and a brief only grows, so what a request
read stays true of that version. `RequestOK` and `AttemptOK` say what a request knows
at its step, `HumanOK` strengthens `HumanChoicesKept` to every version since a human
last wrote (`human_fields`), and `OneEach` says that one request at most works on a
suggestion. `EditsOK` ties each answer to the version it speaks of. Of
the locks only `core_lock` around a create matters; `model_lock` serialises calls of
the model and no property rests on it.

`HostedStoreProofs` holds for any records, commands, snapshots and consumers, under
`StoreAssumptions` (a snapshot is finite and names a record once, which the import
checks). `Continues` is what new entries must satisfy, for a `put` and an import
alike, and `EntryOK` strengthens `HistoryComplete` by the identity of the record, with
which a further entry is compared. The audit grows and a stored request never
changes, so answers stay true. `LeasesOK` says that a row that was selected is
locked for others until it is stamped; `ExclusiveLease` and `HolderSettles`, action
properties, follow by one look at `Stamp` and `Acknowledge`.

Only model-checked: the liveness properties (`DeletionIsConfirmed`, `ExpiredIsErased`,
`EveryEventDelivered`, `EveryRequestEnds`, `DeletionEnds`), which rest on fairness and are
beyond the prover, and the violation `team_same_name` finds, which is a
counterexample.

## Not modelled

Each with its reason in `PROJECT.json`. Without state of their own: the contract
validators, upload inspection, server inventory, connection guidance, pages and
scripts. The worker gateway forwards to Core's admission service: its own part is two
reads and two calls, and whether a stale fence can renew anything is decided by what
`admit` and `renew_task_lease` do in Core, whose source is not here; a model would be
of guesses about it. In the identity service: the role matrix (any role in the
resource's tenant stands for a permission) and the audit; windows end in any order,
which allows more than the clock does, and tokens are used from one peer. Row-level
security and the separation of actors are a column in every query; the models take one
tenant and one actor. In the register: the version migration and `configure`. In the
brief store: the wording of questions and the shape checks of inputs. In the domain
model: entities that no operation touches, and references between several projects
and tenants. Of the push gate: what the single checks compute, which is the set
`Passing`, and `preflight` for CI, which pushes nothing.

## Plan

Done, in the order of what can go wrong most: `ProtectedObjects` with
`ObjectLifecycle`, `HostedStore`, `TeamRegistry` with `TaskBoard`, `BriefStore`, `Identity`,
`ScopePlans`, `DomainModel`, `PushGate`; proofs of all their safety properties.

Left:

1. Abstract specifications of `HostedStore` (a map of records with a history) and of
   `BriefStore` (a brief as a register of versions), shown to be implemented.
2. The migration of the register from version 1 to 2, a command of `TeamRegistry` that
   changes what every other one does.
3. The worker gateway, with Core's admission service beside it.
