------------------------------ MODULE Identity ------------------------------
(***************************************************************************)
(* The identity service (identity.py, identity_store.py, with the routes   *)
(* of identity_api.py): accounts with a login and a recovery factor,       *)
(* sessions, rate counters and the deletion of an account with what it     *)
(* owns.                                                                   *)
(*                                                                         *)
(* A transaction begins IMMEDIATE and is one step.  A request is several:  *)
(* it resolves its token to a principal, counts the attempt, and acts; in  *)
(* between others recover or delete the account.  A worker that finishes   *)
(* a deletion calls the eraser between two transactions.                   *)
(*                                                                         *)
(* The factors of an account are named by the generation they were made    *)
(* in, 0 for a secret that fits none; a token by the login it came from.   *)
(* Sessions last equally long, so they expire in the order of tokens. *)
(***************************************************************************)
EXTENDS Naturals, Sequences, FiniteSets

CONSTANTS
  Accounts, Peers, Tenants,
  Threads,       \* requests
  Workers,       \* workers that finish deletions
  AccountLimit,  \* attempts per account and action in a window
  PeerLimit,     \* and per peer
  RateRows,      \* rows of the rate table
  KeptSessions,  \* sessions that outlive a login
  MaxGeneration, \* bound: factors made for an account
  MaxTokens,     \* bound: logins
  MaxRequests,   \* bound: requests sent
  MaxFaults      \* bound: eraser failures, kills and changes of the policy

ASSUME IdentityAssumptions ==
  /\ AccountLimit \in Nat /\ PeerLimit \in Nat /\ RateRows \in Nat /\ KeptSessions \in Nat
  /\ MaxGeneration \in Nat \ {0} /\ MaxTokens \in Nat
  /\ MaxRequests \in Nat /\ MaxFaults \in Nat
  /\ Accounts # {} /\ Peers # {}

VARIABLES
  account,   \* account[a]: status, factors and generation
  grants,    \* grants[a]: tenants it holds a role in
  sessions,  \* session rows
  approved,  \* does the policy admit the route of the accounts
  rates,     \* rates[k]: attempts counted under key k, 0 without a row
  jobs,      \* jobs[a]: deletion job
  owned,     \* owned[a]: are there resources of a (outside)
  thread,    \* thread[t]: a request and how far it got
  worker,    \* worker[w]: the deletion it finishes and how far it got
  admitted,  \* attempts let through in the running window, for the property
  revoked,   \* tokens that were revoked, for the property
  tokens, requests, faults  \* counters of the bounds

vars == <<account, grants, sessions, approved, rates, jobs, owned, thread, worker,
          admitted, revoked, tokens, requests, faults>>
database == <<account, grants, sessions, rates, jobs>>
history  == <<admitted, revoked>>
bounds   == <<tokens, requests, faults>>

Guarded     == {"login", "recover", "logout", "delete"}
Actions     == Guarded \cup {"authorize"}
Generations == 0 .. MaxGeneration
Tokens      == 0 .. MaxTokens
NoAccount   == "none"
Keys == (Guarded \X {"peer"} \X Peers) \cup (Guarded \X {"account"} \X Accounts)

Session == [token : Tokens, account : Accounts, generation : Generations, live : BOOLEAN]

Idle == [pc |-> "idle", action |-> "authorize", account |-> CHOOSE a \in Accounts : TRUE,
         peer |-> CHOOSE p \in Peers : TRUE, token |-> 0, generation |-> 0, secret |-> 0]

\* Every variable is of its type; a token has one row, and the rate table does
\* not outgrow its rows, however many accounts and peers are named (limited).
TypeOK ==
  /\ account \in [Accounts -> [status : {"none", "active", "deletion_pending", "deleted"},
                               login : Generations, recovery : Generations,
                               generation : Generations \cup {MaxGeneration + 1}]]
  /\ grants \in [Accounts -> SUBSET Tenants] /\ approved \in BOOLEAN
  /\ sessions \subseteq Session /\ \A s, q \in sessions : s.token = q.token => s = q
  /\ rates \in [Keys -> Nat] /\ Cardinality({k \in Keys : rates[k] > 0}) <= RateRows
  /\ jobs \in [Accounts -> {"none", "pending", "complete"}] /\ owned \in [Accounts -> BOOLEAN]
  /\ thread \in [Threads -> [pc : {"idle", "resolve", "limit", "act", "allowed"}, action : Actions,
                             account : Accounts, peer : Peers, token : Tokens,
                             generation : Generations, secret : Generations]]
  /\ worker \in [Workers -> [pc : {"idle", "erase", "complete"}, account : Accounts \cup {NoAccount}]]
  /\ admitted \in [Guarded \X Accounts -> Nat]
  /\ revoked \subseteq Tokens
  /\ tokens \in Tokens /\ requests \in 0 .. MaxRequests /\ faults \in 0 .. MaxFaults

Init ==
  /\ account = [a \in Accounts |-> [status |-> "none", login |-> 0, recovery |-> 0, generation |-> 0]]
  /\ grants = [a \in Accounts |-> {}] /\ sessions = {} /\ approved = TRUE
  /\ rates = [k \in Keys |-> 0]
  /\ jobs = [a \in Accounts |-> "none"] /\ owned = [a \in Accounts |-> TRUE]
  /\ thread = [t \in Threads |-> Idle]
  /\ worker = [w \in Workers |-> [pc |-> "idle", account |-> NoAccount]]
  /\ admitted = [g \in Guarded \X Accounts |-> 0] /\ revoked = {}
  /\ tokens = 0 /\ requests = 0 /\ faults = 0

-----------------------------------------------------------------------------
(* Trusted administration, and time. *)

Provision(a) ==
  /\ account[a].status = "none" /\ approved
  /\ account' = [account EXCEPT ![a] = [status |-> "active", login |-> 1, recovery |-> 1,
                                        generation |-> 1]]
  /\ UNCHANGED <<grants, sessions, approved, rates, jobs, owned, thread, worker, history, bounds>>

Active(a) == account[a].status = "active"

\* Variant: roles are assigned to any account on record.
OnRecord(a) == account[a].status # "none"

MayHoldRoles(a) == Active(a)

Membership(a, granted) ==
  /\ MayHoldRoles(a) /\ granted # grants[a]
  /\ grants' = [grants EXCEPT ![a] = granted]
  /\ UNCHANGED <<account, sessions, approved, rates, jobs, owned, thread, worker, history, bounds>>

PolicyChanges ==
  /\ faults < MaxFaults /\ faults' = faults + 1
  /\ approved' = ~approved
  /\ UNCHANGED <<database, owned, thread, worker, history, tokens, requests>>

\* The oldest session that is still valid runs out; its row stays.
SessionExpires ==
  /\ \E s \in sessions :
       /\ s.live /\ \A q \in sessions : q.live => s.token <= q.token
       /\ sessions' = (sessions \ {s}) \cup {[s EXCEPT !.live = FALSE]}
  /\ UNCHANGED <<account, grants, approved, rates, jobs, owned, thread, worker, history, bounds>>

-----------------------------------------------------------------------------
(* Requests: with a secret, or with a token, and a secret to delete. *)

Arrive(t, r) ==
  /\ thread[t].pc \in {"idle", "allowed"} /\ requests < MaxRequests
  /\ thread' = [thread EXCEPT ![t] = r] /\ requests' = requests + 1
  /\ UNCHANGED <<database, approved, owned, worker, history, tokens, faults>>

SendSecret(t, action, a, p, n) ==
  /\ n <= account[a].generation
  /\ Arrive(t, [Idle EXCEPT !.pc = "limit", !.action = action, !.account = a, !.peer = p, !.secret = n])

\* Only a deletion asks for the secret once more.  Bound: tokens are used from
\* one peer, secrets guessed from all.
SendToken(t, action, token, n) ==
  /\ token <= tokens
  /\ n <= IF action = "delete" THEN MaxGeneration ELSE 0
  /\ Arrive(t, [Idle EXCEPT !.pc = "resolve", !.action = action, !.token = token, !.secret = n])

Goto(t, pc) == thread' = [thread EXCEPT ![t].pc = pc]
End(t)      == thread' = [thread EXCEPT ![t] = Idle]
Allow(t)    == thread' = [thread EXCEPT ![t] = [Idle EXCEPT !.pc = "allowed"]]

Rows(token) == {s \in sessions : s.token = token}

\* A session is good while it runs, for the generation of an active account.
Current(token) ==
  \E s \in Rows(token) :
    /\ s.live /\ Active(s.account) /\ approved
    /\ s.generation = account[s.account].generation

\* authenticate: the principal is what the rest of the request works with.
Resolve(t) ==
  LET token == thread[t].token
  IN  /\ thread[t].pc = "resolve"
      /\ IF Current(token)
         THEN LET row == CHOOSE s \in Rows(token) : TRUE
              IN  thread' = [thread EXCEPT
                    ![t].pc = IF thread[t].action = "authorize" THEN "act" ELSE "limit",
                    ![t].account = row.account, ![t].generation = row.generation]
         ELSE End(t)
      /\ UNCHANGED <<database, approved, owned, worker, history, bounds>>

\* Variant: an account's attempts are counted for each peer by itself.
PeerKeys(action, a, p) == <<<<action, "peer", p>>>>

RateKeys(action, a, p) == <<<<action, "peer", p>>, <<action, "account", a>>>>

LimitOf(k) == IF k[2] = "peer" THEN PeerLimit ELSE AccountLimit

\* Variant: a key without a row always gets one.
NeverFull(rows, keys, n) == FALSE

\* Key n has no row and finds the table full, with the rows of the keys before.
Full(rows, keys, n) ==
  /\ rows[keys[n]] = 0
  /\ Cardinality({k \in Keys : rows[k] > 0} \cup {keys[m] : m \in 1 .. n - 1}) >= RateRows

\* limited: the keys are counted one after the other, up to the first that has
\* no row and finds the table full, or is over its limit.
Counted(rows, keys) ==
  LET Over(n) == rows[keys[n]] >= LimitOf(keys[n])
      Reached(n) == \A m \in 1 .. n - 1 : ~Full(rows, keys, m) /\ ~Over(m)
  IN  [allowed |-> Reached(Len(keys) + 1),
       rates |-> [k \in Keys |->
         IF \E n \in DOMAIN keys : keys[n] = k /\ Reached(n) /\ ~Full(rows, keys, n) /\ rows[k] <= LimitOf(k)
         THEN rows[k] + 1 ELSE rows[k]]]

\* The rows of windows that ended go first; the counters are committed before
\* the attempt is made.
Limit(t, ended) ==
  LET r == thread[t]
      c == Counted([k \in Keys |-> IF k \in ended THEN 0 ELSE rates[k]],
                   RateKeys(r.action, r.account, r.peer))
      let == [g \in Guarded \X Accounts |->
                IF <<g[1], "account", g[2]>> \in ended THEN 0 ELSE admitted[g]]
  IN  /\ r.pc = "limit"
      /\ rates' = c.rates
      /\ IF c.allowed
         THEN Goto(t, "act") /\ admitted' = [let EXCEPT ![<<r.action, r.account>>] = @ + 1]
         ELSE End(t) /\ admitted' = let
      /\ UNCHANGED <<account, grants, sessions, approved, jobs, owned, worker, revoked, bounds>>

-----------------------------------------------------------------------------
(* What a request does in its last transaction. *)

Acting(t, action) == thread[t].pc = "act" /\ thread[t].action = action

\* Variant: the principal is believed as it was resolved.
Resolved(r) == Active(r.account) /\ approved

\* current_principal: the session is looked up once more.
Principal(r) ==
  /\ Current(r.token)
  /\ \E s \in Rows(r.token) : s.account = r.account /\ s.generation = r.generation

TokensOf(a) == {s.token : s \in {s \in sessions : s.account = a}}

Without(gone) == {s \in sessions : s.token \notin gone}

\* Expired rows go, and the oldest of the account beyond the kept ones.
Trimmed(a) ==
  LET rest == {s \in sessions : s.live}
      mine == {s \in rest : s.account = a}
      old  == {s \in mine : Cardinality({q \in mine : s.token <= q.token}) > KeptSessions}
  IN  [dropped |-> {s.token : s \in old}, rows |-> rest \ old]

Login(t) ==
  LET r == thread[t]
      a == r.account
  IN  /\ Acting(t, "login")
      /\ IF Active(a) /\ approved /\ r.secret > 0 /\ r.secret = account[a].login
         THEN /\ tokens < MaxTokens
              /\ tokens' = tokens + 1
              /\ sessions' = Trimmed(a).rows \cup
                   {[token |-> tokens + 1, account |-> a,
                     generation |-> account[a].generation, live |-> TRUE]}
              /\ revoked' = revoked \cup Trimmed(a).dropped
              /\ Allow(t)
         ELSE End(t) /\ UNCHANGED <<tokens, sessions, revoked>>
      /\ UNCHANGED <<account, grants, approved, rates, jobs, owned, worker, admitted,
                     requests, faults>>

\* For a resource of a tenant; any role there stands for a permission.
Authorize(t, tenant) ==
  LET r == thread[t]
  IN  /\ Acting(t, "authorize")
      /\ IF Principal(r) /\ tenant \in grants[r.account] THEN Allow(t) ELSE End(t)
      /\ UNCHANGED <<database, approved, owned, worker, history, bounds>>

Logout(t) ==
  LET r == thread[t]
  IN  /\ Acting(t, "logout")
      /\ IF Principal(r)
         THEN /\ sessions' = Without({r.token})
              /\ revoked' = revoked \cup {r.token}
              /\ Allow(t)
         ELSE End(t) /\ UNCHANGED <<sessions, revoked>>
      /\ UNCHANGED <<account, grants, approved, rates, jobs, owned, worker, admitted, bounds>>

\* Both factors are made anew, and every session of the old generation ends.
Recover(t) ==
  LET r == thread[t]
      a == r.account
      next == account[a].generation + 1
  IN  /\ Acting(t, "recover")
      /\ IF Active(a) /\ approved /\ r.secret > 0 /\ r.secret = account[a].recovery
         THEN /\ next <= MaxGeneration
              /\ account' = [account EXCEPT ![a] = [status |-> "active", login |-> next,
                                                    recovery |-> next, generation |-> next]]
              /\ sessions' = Without(TokensOf(a))
              /\ revoked' = revoked \cup TokensOf(a)
              /\ Allow(t)
         ELSE End(t) /\ UNCHANGED <<account, sessions, revoked>>
      /\ UNCHANGED <<grants, approved, rates, jobs, owned, worker, admitted, bounds>>

RequestDeletion(t) ==
  LET r == thread[t]
      a == r.account
  IN  /\ Acting(t, "delete")
      /\ IF Principal(r) /\ r.secret > 0 /\ r.secret = account[a].login
         THEN /\ account' = [account EXCEPT ![a] = [status |-> "deletion_pending", login |-> 0,
                               recovery |-> 0, generation |-> account[a].generation + 1]]
              /\ sessions' = Without(TokensOf(a))
              /\ grants' = [grants EXCEPT ![a] = {}]
              /\ jobs' = [jobs EXCEPT ![a] = "pending"]
              /\ revoked' = revoked \cup TokensOf(a)
              /\ Allow(t)
         ELSE End(t) /\ UNCHANGED <<account, sessions, grants, jobs, revoked>>
      /\ UNCHANGED <<approved, rates, owned, worker, admitted, bounds>>

-----------------------------------------------------------------------------
(* finish_deletion *)

WorkerAt(w, pc, a) == worker' = [worker EXCEPT ![w] = [pc |-> pc, account |-> a]]

Begin(w, a) ==
  /\ worker[w].pc = "idle" /\ jobs[a] = "pending"
  /\ WorkerAt(w, "erase", a)
  /\ UNCHANGED <<database, approved, owned, thread, history, bounds>>

\* Variant: any answer of the eraser will do.
AnyAnswer(answer) == answer \in BOOLEAN

Verified(answer) == answer = TRUE

\* The eraser says TRUE once everything is gone; otherwise the job stays.
Erase(w, answer, gone) ==
  LET a == worker[w].account
  IN  /\ worker[w].pc = "erase"
      /\ answer => gone
      /\ ~answer => faults < MaxFaults
      /\ faults' = IF answer THEN faults ELSE faults + 1
      /\ owned' = [owned EXCEPT ![a] = @ /\ ~gone]
      /\ IF Verified(answer) THEN WorkerAt(w, "complete", a) ELSE WorkerAt(w, "idle", NoAccount)
      /\ UNCHANGED <<database, approved, thread, history, tokens, requests>>

Complete(w) ==
  LET a == worker[w].account
  IN  /\ worker[w].pc = "complete"
      /\ account' = [account EXCEPT ![a].status = "deleted"]
      /\ jobs' = [jobs EXCEPT ![a] = "complete"]
      /\ WorkerAt(w, "idle", NoAccount)
      /\ UNCHANGED <<grants, sessions, approved, rates, owned, thread, history, bounds>>

\* The service and its workers are killed; the database stays.
Restart ==
  /\ faults < MaxFaults /\ faults' = faults + 1
  /\ thread' = [t \in Threads |-> Idle]
  /\ worker' = [w \in Workers |-> [pc |-> "idle", account |-> NoAccount]]
  /\ UNCHANGED <<database, approved, owned, history, tokens, requests>>

-----------------------------------------------------------------------------

Work(w) ==
  \/ \E a \in Accounts : Begin(w, a)
  \/ \E answer, gone \in BOOLEAN : Erase(w, answer, gone)
  \/ Complete(w)

Next ==
  \/ \E a \in Accounts :
       Provision(a) \/ \E granted \in SUBSET Tenants : Membership(a, granted)
  \/ PolicyChanges \/ SessionExpires
  \/ \E t \in Threads :
       \/ \E n \in Generations :
            \/ \E a \in Accounts, p \in Peers, action \in {"login", "recover"} :
                 SendSecret(t, action, a, p, n)
            \/ \E token \in 1 .. MaxTokens, action \in {"authorize", "logout", "delete"} :
                 SendToken(t, action, token, n)
       \/ Resolve(t) \/ \E ended \in SUBSET {k \in Keys : rates[k] > 0} : Limit(t, ended)
       \/ Login(t) \/ (\E tenant \in Tenants : Authorize(t, tenant)) \/ Logout(t) \/ Recover(t) \/ RequestDeletion(t)
  \/ \E w \in Workers : Work(w)
  \/ Restart

Spec     == Init /\ [][Next]_vars
FairSpec == Spec /\ \A w \in Workers : WF_vars(Work(w))

-----------------------------------------------------------------------------
(* Properties. *)

\* A principal that was resolved before a logout, a recovery, a deletion or a
\* login that pushed its session out does nothing more after it, not even in a
\* request that had passed its rate limit (current_principal).
RevokedActNoMore ==
  [][\A t \in Threads :
       thread[t].pc = "act" /\ thread'[t].pc = "allowed" => thread[t].token \notin revoked]_vars

\* Sessions belong to the present generation of an active account, and are not
\* more than its bound; an account on its way out has no factor, no session and
\* no role, and none comes back (recover, request_deletion, membership, login).
NothingOutlives ==
  /\ \A s \in sessions : Active(s.account) /\ s.generation = account[s.account].generation
  /\ \A a \in Accounts :
       /\ Cardinality(TokensOf(a)) <= KeptSessions + 1
       /\ account[a].status \in {"deletion_pending", "deleted"} =>
            account[a].login = 0 /\ account[a].recovery = 0 /\ grants[a] = {}

\* However an account is guessed at, from many peers, through failures and
\* restarts, a window lets no more attempts through than the limit (limited).
GuessesBounded ==
  \A g \in Guarded \X Accounts : admitted[g] <= AccountLimit

\* A requested deletion is completed, and then nothing that was owned is left,
\* whatever the eraser failed at before and however many workers ran
\* (finish_deletion).
DeletionEnds ==
  \A a \in Accounts :
    jobs[a] = "pending" ~> jobs[a] = "complete" /\ account[a].status = "deleted" /\ ~owned[a]

=============================================================================
