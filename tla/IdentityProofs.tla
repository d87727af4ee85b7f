---------------------------- MODULE IdentityProofs ----------------------------
(* Theorems about Identity: for any accounts, peers, requests, workers and    *)
(* limits, what was revoked does not act, nothing outlives its generation and *)
(* no window lets more guesses through than its limit.                        *)
(*                                                                            *)
(* The argument keeps no track of the order of a request's transactions: a    *)
(* principal that is resolved is believed by nobody, so all that counts is    *)
(* what the rows say when a request acts.                                     *)
EXTENDS Identity, FiniteSetTheorems, WellFoundedInduction, TLAPS

\* ---- Types, by the part of the state -----------------------------------------

Account == [status : {"none", "active", "deletion_pending", "deleted"},
            login : Generations, recovery : Generations,
            generation : Generations \cup {MaxGeneration + 1}]

Request == [pc : {"idle", "resolve", "limit", "act", "allowed"}, action : Actions,
            account : Accounts, peer : Peers, token : Tokens,
            generation : Generations, secret : Generations]

Job == [pc : {"idle", "erase", "complete"}, account : Accounts \cup {NoAccount}]

Counting(r) == {k \in Keys : r[k] > 0}

AccountTypes ==
  /\ account \in [Accounts -> Account]
  /\ grants \in [Accounts -> SUBSET Tenants] /\ approved \in BOOLEAN
  /\ jobs \in [Accounts -> {"none", "pending", "complete"}] /\ owned \in [Accounts -> BOOLEAN]

SessionTypes ==
  /\ sessions \subseteq Session /\ \A s, q \in sessions : s.token = q.token => s = q
  /\ tokens \in Tokens /\ revoked \subseteq Tokens

RateTypes ==
  /\ rates \in [Keys -> Nat] /\ Cardinality(Counting(rates)) <= RateRows
  /\ admitted \in [Guarded \X Accounts -> Nat]

ProcessTypes ==
  /\ thread \in [Threads -> Request] /\ worker \in [Workers -> Job]
  /\ requests \in 0 .. MaxRequests /\ faults \in 0 .. MaxFaults

LEMMA Types == TypeOK <=> AccountTypes /\ SessionTypes /\ RateTypes /\ ProcessTypes
BY DEF TypeOK, AccountTypes, SessionTypes, RateTypes, ProcessTypes, Account, Request, Job, Counting

\* ---- The inductive invariant --------------------------------------------------

\* An account on its way out has nothing left, and only such an account has a job.
AccountsOK ==
  \A a \in Accounts :
    /\ Active(a) => account[a].generation \in Generations
    /\ account[a].status \in {"deletion_pending", "deleted"} =>
         account[a].login = 0 /\ account[a].recovery = 0 /\ grants[a] = {}
    /\ jobs[a] # "none" => account[a].status \in {"deletion_pending", "deleted"}

\* A session is of the present generation of an active account, and not revoked.
SessionsOK ==
  /\ \A s \in sessions :
       /\ s.token \in 1 .. tokens /\ s.token \notin revoked
       /\ Active(s.account) /\ s.generation = account[s.account].generation
  /\ revoked \subseteq 1 .. tokens
  /\ \A a \in Accounts : Cardinality(TokensOf(a)) <= KeptSessions + 1

\* What a window let through was counted in it, in a table that is finite.
RatesOK ==
  /\ IsFiniteSet(Counting(rates))
  /\ \A action \in Guarded, a \in Accounts :
       /\ admitted[<<action, a>>] <= rates[<<action, "account", a>>]
       /\ admitted[<<action, a>>] <= AccountLimit

\* A request with a secret has no token; a worker finishes what was requested.
ProcessesOK ==
  /\ \A t \in Threads :
       /\ thread[t].action \in {"login", "recover"} => thread[t].token = 0
       /\ thread[t].pc = "limit" => thread[t].action \in Guarded
  /\ \A w \in Workers : worker[w].pc # "idle" =>
       worker[w].account \in Accounts /\ jobs[worker[w].account] # "none"

IInv == TypeOK /\ AccountsOK /\ SessionsOK /\ RatesOK /\ ProcessesOK

\* ---- Records --------------------------------------------------------------------

LEMMA IdleRequest ==
  Idle \in Request /\ Idle.pc = "idle" /\ Idle.action = "authorize" /\ Idle.token = 0
<1>1. (CHOOSE a \in Accounts : TRUE) \in Accounts /\ (CHOOSE p \in Peers : TRUE) \in Peers
  BY IdentityAssumptions
<1>. QED BY <1>1, IdentityAssumptions DEF Idle, Request, Actions, Tokens, Generations

LEMMA AllowedRequest ==
  LET r == [Idle EXCEPT !.pc = "allowed"]
  IN  r \in Request /\ r.pc = "allowed" /\ r.action = "authorize"
BY IdleRequest DEF Request

SecretRequest(action, a, p, n) ==
  [Idle EXCEPT !.pc = "limit", !.action = action, !.account = a, !.peer = p, !.secret = n]

LEMMA SentSecret ==
  ASSUME NEW action \in Guarded, NEW a \in Accounts, NEW p \in Peers, NEW n \in Generations
  PROVE  LET r == SecretRequest(action, a, p, n)
         IN  r \in Request /\ r.pc = "limit" /\ r.action = action /\ r.token = 0
BY IdleRequest DEF SecretRequest, Request, Actions

TokenRequest(action, token, n) ==
  [Idle EXCEPT !.pc = "resolve", !.action = action, !.token = token, !.secret = n]

LEMMA SentToken ==
  ASSUME NEW action \in Actions, NEW token \in Tokens, NEW n \in Generations
  PROVE  LET r == TokenRequest(action, token, n)
         IN  r \in Request /\ r.pc = "resolve" /\ r.action = action
BY IdleRequest DEF TokenRequest, Request

ResolvedRequest(r, pc, a, g) == [r EXCEPT !.pc = pc, !.account = a, !.generation = g]

LEMMA ResolvedTypes ==
  ASSUME NEW r \in Request, NEW pc \in {"act", "limit"}, NEW a \in Accounts, NEW g \in Generations
  PROVE  LET q == ResolvedRequest(r, pc, a, g)
         IN  q \in Request /\ q.pc = pc /\ q.action = r.action /\ q.token = r.token
BY DEF ResolvedRequest, Request

LEMMA MovedRequest ==
  ASSUME NEW r \in Request
  PROVE  LET q == [r EXCEPT !.pc = "act"]
         IN  q \in Request /\ q.pc = "act" /\ q.action = r.action /\ q.token = r.token
BY DEF Request

LEMMA ExpiredSession ==
  ASSUME NEW s \in Session
  PROVE  LET q == [s EXCEPT !.live = FALSE]
         IN  /\ q \in Session /\ q.token = s.token /\ q.account = s.account
             /\ q.generation = s.generation
BY DEF Session

\* ---- Rate counters ----------------------------------------------------------------

\* The two keys of an attempt.
PeerKey(action, p)    == <<action, "peer", p>>
AccountKey(action, a) == <<action, "account", a>>

Ended(ended) == [k \in Keys |-> IF k \in ended THEN 0 ELSE rates[k]]

LEMMA KeyTypes ==
  ASSUME NEW action \in Guarded, NEW a \in Accounts, NEW p \in Peers
  PROVE  /\ PeerKey(action, p) \in Keys /\ AccountKey(action, a) \in Keys
         /\ PeerKey(action, p) # AccountKey(action, a)
         /\ LimitOf(AccountKey(action, a)) = AccountLimit /\ LimitOf(PeerKey(action, p)) = PeerLimit
BY DEF PeerKey, AccountKey, Keys, LimitOf

\* Counting an attempt: at most the keys that found room get a row, and one that
\* is let through is counted under its account, below the limit.
LEMMA CountedFacts ==
  ASSUME NEW rows \in [Keys -> Nat], NEW action \in Guarded, NEW a \in Accounts, NEW p \in Peers,
         IsFiniteSet(Counting(rows)), Cardinality(Counting(rows)) <= RateRows
  PROVE  LET k == AccountKey(action, a)
             c == Counted(rows, RateKeys(action, a, p))
         IN  /\ c.rates \in [Keys -> Nat]
             /\ IsFiniteSet(Counting(c.rates)) /\ Cardinality(Counting(c.rates)) <= RateRows
             /\ \A key \in Keys : rows[key] <= c.rates[key]
             /\ c.allowed => rows[k] < AccountLimit /\ c.rates[k] = rows[k] + 1
<1>. DEFINE k1 == PeerKey(action, p)
            k2 == AccountKey(action, a)
            keys == <<k1, k2>>
            P == Counting(rows)
            Over(n) == rows[keys[n]] >= LimitOf(keys[n])
            Reached(n) == \A m \in 1 .. n - 1 : ~Full(rows, keys, m) /\ ~Over(m)
            c == Counted(rows, keys)
<1>1. RateKeys(action, a, p) = keys
  BY DEF RateKeys, PeerKey, AccountKey
<1>2. /\ k1 \in Keys /\ k2 \in Keys /\ k1 # k2
      /\ LimitOf(k2) = AccountLimit /\ LimitOf(k1) = PeerLimit
      /\ AccountLimit \in Nat /\ PeerLimit \in Nat /\ RateRows \in Nat
  BY KeyTypes, IdentityAssumptions
<1>3. keys[1] = k1 /\ keys[2] = k2 /\ Len(keys) = 2 /\ DOMAIN keys = {1, 2}
  OBVIOUS
<1>. HIDE DEF k1, k2
<1>4. /\ c.allowed = Reached(3)
      /\ c.rates = [k \in Keys |->
           IF \E n \in {1, 2} : keys[n] = k /\ Reached(n) /\ ~Full(rows, keys, n) /\ rows[k] <= LimitOf(k)
           THEN rows[k] + 1 ELSE rows[k]]
  BY <1>3 DEF Counted
<1>5. /\ Reached(1)
      /\ Reached(2) <=> ~Full(rows, keys, 1) /\ ~Over(1)
      /\ Reached(3) <=> Reached(2) /\ ~Full(rows, keys, 2) /\ ~Over(2)
  <2>1. 1 .. 1 - 1 = {} /\ 1 .. 2 - 1 = {1} /\ 1 .. 3 - 1 = {1, 2}
    OBVIOUS
  <2>. HIDE DEF keys, Over
  <2>. QED BY <2>1
<1>6. /\ Full(rows, keys, 1) <=> rows[k1] = 0 /\ Cardinality(P) >= RateRows
      /\ Full(rows, keys, 2) <=> rows[k2] = 0 /\ Cardinality(P \cup {k1}) >= RateRows
  <2>1. {keys[m] : m \in 1 .. 1 - 1} = {} /\ {keys[m] : m \in 1 .. 2 - 1} = {k1}
    BY <1>3
  <2>2. P \cup {} = P
    OBVIOUS
  <2>. QED BY <1>3, <2>1, <2>2 DEF Full, Counting
<1>7. (Over(1) <=> rows[k1] >= PeerLimit) /\ (Over(2) <=> rows[k2] >= AccountLimit)
  BY <1>2, <1>3
<1>8. c.rates = [k \in Keys |->
        IF \/ k = k1 /\ ~Full(rows, keys, 1) /\ rows[k1] <= PeerLimit
           \/ k = k2 /\ Reached(2) /\ ~Full(rows, keys, 2) /\ rows[k2] <= AccountLimit
        THEN rows[k] + 1 ELSE rows[k]]
  <2>. HIDE DEF keys, c, Reached
  <2>. QED BY <1>2, <1>3, <1>4, <1>5
<1>. HIDE DEF keys, c, Reached, Over, P
<1>9. c.rates \in [Keys -> Nat] /\ \A key \in Keys : rows[key] <= c.rates[key]
  BY <1>8
<1>10. c.allowed => rows[k2] < AccountLimit /\ c.rates[k2] = rows[k2] + 1
  BY <1>2, <1>4, <1>5, <1>7, <1>8
<1>11. IsFiniteSet(Counting(c.rates)) /\ Cardinality(Counting(c.rates)) <= RateRows
  <2>1. /\ Counting(c.rates) \subseteq P \cup {k1, k2}
        /\ k1 \in Counting(c.rates) => k1 \in P \/ ~Full(rows, keys, 1)
        /\ k2 \in Counting(c.rates) => k2 \in P \/ (~Full(rows, keys, 1) /\ ~Full(rows, keys, 2))
    BY <1>2, <1>5, <1>8 DEF Counting, P
  <2>2. IsFiniteSet(P) /\ Cardinality(P) \in Nat /\ Cardinality(P) <= RateRows
    BY FS_CardinalityType DEF P
  <2>3. PICK first \in {P, P \cup {k1}} :
          /\ Counting(c.rates) \subseteq first \cup {k2}
          /\ IsFiniteSet(first) /\ Cardinality(first) \in Nat /\ Cardinality(first) <= RateRows
          /\ k2 \in Counting(c.rates) => k2 \in first \/ Cardinality(first) < RateRows
    <3>1. CASE Full(rows, keys, 1)
      BY <2>1, <2>2, <3>1
    <3>2. CASE ~Full(rows, keys, 1) /\ k1 \in P
      <4>1. P \cup {k1} = P
        BY <3>2
      <4>2. k2 \in P <=> rows[k2] > 0
        BY <1>2 DEF P, Counting
      <4>. QED BY <1>2, <1>6, <2>1, <2>2, <3>2, <4>1, <4>2
    <3>3. CASE ~Full(rows, keys, 1) /\ k1 \notin P
      <4>1. rows[k1] = 0
        BY <1>2, <3>3 DEF P, Counting
      <4>2. IsFiniteSet(P \cup {k1}) /\ Cardinality(P \cup {k1}) = Cardinality(P) + 1
        BY <2>2, <3>3, FS_AddElement
      <4>3. Cardinality(P) < RateRows
        BY <1>2, <1>6, <2>2, <3>3, <4>1
      <4>4. Cardinality(P \cup {k1}) \in Nat /\ Cardinality(P \cup {k1}) <= RateRows
        BY <1>2, <2>2, <4>2, <4>3
      <4>5. k2 \in P <=> rows[k2] > 0
        BY <1>2 DEF P, Counting
      <4>. QED BY <1>2, <1>6, <2>1, <3>3, <4>2, <4>4, <4>5
    <3>. QED BY <3>1, <3>2, <3>3
  <2>4. PICK all \in {first, first \cup {k2}} :
          /\ Counting(c.rates) \subseteq all
          /\ IsFiniteSet(all) /\ Cardinality(all) \in Nat /\ Cardinality(all) <= RateRows
    <3>1. CASE k2 \in Counting(c.rates) /\ k2 \notin first
      <4>1. IsFiniteSet(first \cup {k2}) /\ Cardinality(first \cup {k2}) = Cardinality(first) + 1
        BY <2>3, <3>1, FS_AddElement
      <4>2. Cardinality(first \cup {k2}) \in Nat /\ Cardinality(first \cup {k2}) <= RateRows
        BY <1>2, <2>3, <3>1, <4>1
      <4>. QED BY <2>3, <4>1, <4>2
    <3>2. CASE k2 \notin Counting(c.rates) \/ k2 \in first
      BY <2>3, <3>2
    <3>. QED BY <3>1, <3>2
  <2>5. /\ IsFiniteSet(Counting(c.rates)) /\ Cardinality(Counting(c.rates)) <= Cardinality(all)
        /\ Cardinality(Counting(c.rates)) \in Nat
    BY <2>4, FS_Subset, FS_CardinalityType
  <2>. QED BY <1>2, <2>4, <2>5
<1>. QED BY <1>1, <1>9, <1>10, <1>11 DEF keys, c, k1, k2


\* ---- Sessions ----------------------------------------------------------------------

LEMMA Least ==
  ASSUME NEW T \in SUBSET Nat, T # {}
  PROVE  \E x \in T : \A y \in T : x <= y
<1>1. PICK x \in T : \A y \in T : ~(<<y, x>> \in OpToRel(<, Nat))
  BY WFMin, NatLessThanWellFounded
<1>2. \A y \in T : ~(y < x)
  BY <1>1 DEF OpToRel
<1>. QED BY <1>2

TokensIn(rows) == {s.token : s \in rows}

LEMMA FiniteSessions ==
  ASSUME SessionTypes
  PROVE  IsFiniteSet(sessions)
<1>. DEFINE f == [s \in sessions |-> s.token]
<1>1. IsFiniteSet(Tokens)
  BY IdentityAssumptions, FS_Interval DEF Tokens
<1>2. f \in Injection(sessions, Tokens)
  BY DEF SessionTypes, Session, Injection, IsInjective
<1>. QED BY <1>1, <1>2, FS_Injection

LEMMA FewTokens ==
  ASSUME NEW rows, IsFiniteSet(rows)
  PROVE  IsFiniteSet(TokensIn(rows)) /\ Cardinality(TokensIn(rows)) <= Cardinality(rows)
<1>. DEFINE f == [s \in rows |-> s.token]
<1>1. f \in Surjection(rows, TokensIn(rows))
  BY DEF TokensIn, Surjection
<1>. QED BY <1>1, FS_Surjection

\* Of the rows of an account, those with few enough rows from them on are few.
LEMMA FewKept ==
  ASSUME NEW mine \in SUBSET Session, IsFiniteSet(mine), NEW n \in Nat
  PROVE  LET keep == {s \in mine : ~(Cardinality({q \in mine : s.token <= q.token}) > n)}
         IN  IsFiniteSet(keep) /\ Cardinality(keep) \in Nat /\ Cardinality(keep) <= n
<1>. DEFINE From(s) == {q \in mine : s.token <= q.token}
            keep == {s \in mine : ~(Cardinality(From(s)) > n)}
<1>. SUFFICES IsFiniteSet(keep) /\ Cardinality(keep) \in Nat /\ Cardinality(keep) <= n
  OBVIOUS
<1>0. keep \subseteq mine /\ \A s \in keep : ~(Cardinality(From(s)) > n)
  OBVIOUS
<1>. HIDE DEF keep
<1>1. IsFiniteSet(keep) /\ Cardinality(keep) \in Nat
  BY <1>0, FS_Subset, FS_CardinalityType
<1>2. CASE keep = {}
  BY <1>2, FS_EmptySet
<1>3. CASE keep # {}
  <2>1. TokensIn(keep) \in SUBSET Nat /\ TokensIn(keep) # {}
    BY <1>0, <1>3 DEF TokensIn, Session, Tokens
  <2>2. PICK x \in TokensIn(keep) : \A y \in TokensIn(keep) : x <= y
    BY <2>1, Least
  <2>3. PICK s \in keep : s.token = x
    BY DEF TokensIn
  <2>4. keep \subseteq From(s)
    BY <1>0, <2>2, <2>3 DEF TokensIn
  <2>5. IsFiniteSet(From(s)) /\ Cardinality(From(s)) \in Nat
    BY FS_Subset, FS_CardinalityType
  <2>6. Cardinality(keep) <= Cardinality(From(s))
    BY <2>4, <2>5, FS_Subset
  <2>7. ~(Cardinality(From(s)) > n)
    BY <1>0
  <2>. QED BY <1>1, <2>5, <2>6, <2>7
<1>. QED BY <1>1, <1>2, <1>3


LEMMA OfAccount ==
  ASSUME SessionTypes, NEW a \in Accounts
  PROVE  IsFiniteSet(TokensOf(a)) /\ Cardinality(TokensOf(a)) \in Nat
<1>1. IsFiniteSet({s \in sessions : s.account = a})
  BY FiniteSessions, FS_Subset
<1>2. TokensOf(a) = TokensIn({s \in sessions : s.account = a})
  BY DEF TokensOf, TokensIn
<1>. QED BY <1>1, <1>2, FewTokens, FS_CardinalityType

\* Rows may go, if they are revoked and the accounts of the others stay.
LEMMA RowsGo ==
  ASSUME SessionTypes, SessionsOK, NEW gone \in SUBSET TokensIn(sessions),
         sessions' = Without(gone), revoked' = revoked \cup gone, tokens' = tokens,
         \A s \in sessions : s.token \notin gone => account'[s.account] = account[s.account]
  PROVE  SessionTypes' /\ SessionsOK'
<1>1. sessions' = {s \in sessions : s.token \notin gone} /\ gone \subseteq 1 .. tokens
      /\ gone \subseteq Tokens
  BY DEF Without, SessionsOK, SessionTypes, Session, TokensIn
<1>2. SessionTypes'
  BY <1>1 DEF SessionTypes
<1>3. \A a \in Accounts : Cardinality(TokensOf(a)') <= KeptSessions + 1
  <2>. SUFFICES ASSUME NEW a \in Accounts PROVE Cardinality(TokensOf(a)') <= KeptSessions + 1
    OBVIOUS
  <2>1. TokensOf(a)' \subseteq TokensOf(a)
    BY <1>1 DEF TokensOf
  <2>2. /\ IsFiniteSet(TokensOf(a)) /\ Cardinality(TokensOf(a)) \in Nat
        /\ Cardinality(TokensOf(a)) <= KeptSessions + 1
    BY OfAccount DEF SessionsOK
  <2>3. Cardinality(TokensOf(a)') <= Cardinality(TokensOf(a)) /\ Cardinality(TokensOf(a)') \in Nat
    BY <2>1, <2>2, FS_Subset, FS_CardinalityType
  <2>. QED BY <2>2, <2>3, IdentityAssumptions
<1>4. \A s \in sessions' :
        /\ s.token \in 1 .. tokens' /\ s.token \notin revoked'
        /\ account'[s.account].status = "active" /\ s.generation = account'[s.account].generation
  BY <1>1 DEF SessionsOK, Active
<1>5. revoked' \subseteq 1 .. tokens'
  BY <1>1 DEF SessionsOK
<1>. QED BY <1>2, <1>3, <1>4, <1>5 DEF SessionsOK, Active

LEMMA SessionsStay ==
  ASSUME SessionTypes, SessionsOK, UNCHANGED <<sessions, revoked, tokens>>,
         \A s \in sessions : account'[s.account] = account[s.account]
  PROVE  SessionTypes' /\ SessionsOK'
<1>1. sessions' = Without({}) /\ revoked' = revoked \cup {}
  BY DEF Without
<1>. QED BY <1>1, RowsGo

\* A login adds one row, and leaves its account no more than the kept ones.
LEMMA RowAdded ==
  ASSUME SessionTypes, SessionsOK, NEW a \in Accounts, Active(a), tokens < MaxTokens,
         account[a].generation \in Generations,
         tokens' = tokens + 1, revoked' = revoked \cup Trimmed(a).dropped,
         sessions' = Trimmed(a).rows \cup
           {[token |-> tokens + 1, account |-> a, generation |-> account[a].generation, live |-> TRUE]},
         UNCHANGED account
  PROVE  SessionTypes' /\ SessionsOK'
<1>. DEFINE rest == {s \in sessions : s.live}
            mine == {s \in rest : s.account = a}
            old  == {s \in mine : Cardinality({q \in mine : s.token <= q.token}) > KeptSessions}
            keep == {s \in mine : ~(Cardinality({q \in mine : s.token <= q.token}) > KeptSessions)}
            new == [token |-> tokens + 1, account |-> a, generation |-> account[a].generation,
                    live |-> TRUE]
<1>1. sessions' = (rest \ old) \cup {new} /\ revoked' = revoked \cup TokensIn(old)
  BY DEF Trimmed, TokensIn
<1>2. tokens \in Nat /\ MaxTokens \in Nat /\ tokens + 1 \in Tokens /\ KeptSessions \in Nat
  BY IdentityAssumptions DEF SessionTypes, Tokens
<1>3. /\ new \in Session /\ new.token = tokens + 1 /\ new.account = a
      /\ new.generation = account[a].generation
  BY <1>2 DEF Session
<1>4. rest \subseteq sessions /\ mine \subseteq sessions /\ old \subseteq mine /\ keep = mine \ old
      /\ mine = {s \in rest : s.account = a}
  OBVIOUS
<1>5. IsFiniteSet(mine) /\ mine \in SUBSET Session
  BY <1>4, FiniteSessions, FS_Subset DEF SessionTypes
<1>6. IsFiniteSet(keep) /\ Cardinality(keep) \in Nat /\ Cardinality(keep) <= KeptSessions
  BY <1>2, <1>5, FewKept
<1>. HIDE DEF new, keep, old, mine, rest
<1>7. \A s \in sessions : s.token <= tokens /\ s.token \in 1 .. tokens
  BY <1>2 DEF SessionsOK
<1>8. SessionTypes'
  <2>1. \A s, q \in sessions' : s.token = q.token => s = q
    <3>1. \A s \in sessions : s.token # tokens + 1
      BY <1>2, <1>7
    <3>. QED BY <1>1, <1>3, <1>4, <3>1 DEF SessionTypes
  <2>2. sessions' \subseteq Session /\ revoked' \subseteq Tokens
    BY <1>1, <1>3, <1>4 DEF SessionTypes, TokensIn, Session
  <2>. QED BY <1>2, <2>1, <2>2 DEF SessionTypes
<1>9. \A s \in sessions' :
        /\ s.token \in 1 .. tokens' /\ s.token \notin revoked'
        /\ account'[s.account].status = "active" /\ s.generation = account'[s.account].generation
  <2>1. \A s \in rest \ old : s.token \notin TokensIn(old)
    BY <1>4 DEF TokensIn, SessionTypes
  <2>2. \A s \in rest \ old :
          /\ s.token \in 1 .. tokens + 1 /\ s.token \notin revoked
          /\ account[s.account].status = "active" /\ s.generation = account[s.account].generation
    BY <1>2, <1>4, <1>7 DEF SessionsOK, Active
  <2>3. /\ tokens + 1 \in 1 .. tokens + 1 /\ tokens + 1 \notin revoked
        /\ tokens + 1 \notin TokensIn(old)
    BY <1>2, <1>4, <1>7 DEF SessionsOK, TokensIn
  <2>. QED BY <1>1, <1>3, <2>1, <2>2, <2>3 DEF Active
<1>10. revoked' \subseteq 1 .. tokens'
  <2>1. TokensIn(old) \subseteq 1 .. tokens
    BY <1>4, <1>7 DEF TokensIn
  <2>2. revoked' \subseteq 1 .. tokens
    BY <1>1, <2>1 DEF SessionsOK
  <2>3. 1 .. tokens \subseteq 1 .. tokens + 1
    BY <1>2
  <2>. QED BY <2>2, <2>3
<1>11. \A b \in Accounts : Cardinality(TokensOf(b)') <= KeptSessions + 1
  <2>. SUFFICES ASSUME NEW b \in Accounts PROVE Cardinality(TokensOf(b)') <= KeptSessions + 1
    OBVIOUS
  <2>1. CASE b = a
    <3>1. TokensOf(b)' = TokensIn(keep) \cup {tokens + 1}
      BY <1>1, <1>3, <1>4, <2>1 DEF TokensOf, TokensIn
    <3>2. /\ IsFiniteSet(TokensIn(keep)) /\ Cardinality(TokensIn(keep)) \in Nat
          /\ Cardinality(TokensIn(keep)) <= KeptSessions
      BY <1>2, <1>6, FewTokens, FS_CardinalityType
    <3>3. Cardinality(TokensOf(b)') \in {Cardinality(TokensIn(keep)), Cardinality(TokensIn(keep)) + 1}
      BY <3>1, <3>2, FS_AddElement
    <3>. QED BY <1>2, <3>2, <3>3
  <2>2. CASE b # a
    <3>1. TokensOf(b)' \subseteq TokensOf(b)
      BY <1>1, <1>3, <1>4, <2>2 DEF TokensOf
    <3>2. /\ IsFiniteSet(TokensOf(b)) /\ Cardinality(TokensOf(b)) \in Nat
          /\ Cardinality(TokensOf(b)) <= KeptSessions + 1
      BY OfAccount DEF SessionsOK
    <3>3. Cardinality(TokensOf(b)') <= Cardinality(TokensOf(b)) /\ Cardinality(TokensOf(b)') \in Nat
      BY <3>1, <3>2, FS_Subset, FS_CardinalityType
    <3>. QED BY <1>2, <3>2, <3>3
  <2>. QED BY <2>1, <2>2
<1>. QED BY <1>8, <1>9, <1>10, <1>11 DEF SessionsOK, Active


\* ---- What a step does to the processes ----------------------------------------------

RequestOK(r) ==
  /\ r.action \in {"login", "recover"} => r.token = 0
  /\ r.pc = "limit" => r.action \in Guarded

JobOK(job) == job.pc # "idle" => job.account \in Accounts /\ jobs[job.account] # "none"

JobsGrow == \A a \in Accounts : jobs[a] # "none" => jobs'[a] # "none"

LEMMA RequestMoves ==
  ASSUME IInv, NEW t \in Threads, NEW r \in Request, RequestOK(r),
         thread' = [thread EXCEPT ![t] = r], UNCHANGED <<worker, faults>>, JobsGrow,
         requests' \in 0 .. MaxRequests
  PROVE  ProcessTypes' /\ ProcessesOK'
<1>1. ProcessTypes /\ ProcessesOK
  BY Types DEF IInv
<1>2. thread' \in [Threads -> Request] /\ \A u \in Threads : thread'[u] = IF u = t THEN r ELSE thread[u]
  BY <1>1 DEF ProcessTypes
<1>3. ProcessTypes'
  BY <1>1, <1>2 DEF ProcessTypes
<1>4. \A u \in Threads : RequestOK(thread'[u])
  BY <1>1, <1>2 DEF ProcessesOK, RequestOK
<1>5. \A w \in Workers : worker'[w].pc # "idle" =>
        worker'[w].account \in Accounts /\ jobs'[worker'[w].account] # "none"
  BY <1>1 DEF ProcessesOK, JobsGrow
<1>. QED BY <1>3, <1>4, <1>5 DEF ProcessesOK, RequestOK

LEMMA RequestEnds ==
  ASSUME IInv, NEW t \in Threads, End(t) \/ Allow(t), UNCHANGED <<worker, requests, faults>>,
         JobsGrow
  PROVE  ProcessTypes' /\ ProcessesOK'
<1>1. ProcessTypes
  BY Types DEF IInv
<1>2. CASE End(t)
  BY <1>1, <1>2, RequestMoves, IdleRequest DEF End, RequestOK, ProcessTypes
<1>3. CASE Allow(t)
  BY <1>1, <1>3, RequestMoves, AllowedRequest DEF Allow, RequestOK, ProcessTypes
<1>. QED BY <1>2, <1>3

LEMMA WorkerMoves ==
  ASSUME IInv, NEW w \in Workers, NEW job \in Job, worker' = [worker EXCEPT ![w] = job],
         job.pc # "idle" => job.account \in Accounts /\ jobs'[job.account] # "none",
         UNCHANGED <<thread, requests>>, JobsGrow, faults' \in 0 .. MaxFaults
  PROVE  ProcessTypes' /\ ProcessesOK'
<1>1. ProcessTypes /\ ProcessesOK
  BY Types DEF IInv
<1>2. /\ worker' \in [Workers -> Job]
      /\ \A v \in Workers : worker'[v] = IF v = w THEN job ELSE worker[v]
  BY <1>1 DEF ProcessTypes
<1>3. ProcessTypes'
  BY <1>1, <1>2 DEF ProcessTypes
<1>4. \A v \in Workers : worker'[v].pc # "idle" =>
        worker'[v].account \in Accounts /\ jobs'[worker'[v].account] # "none"
  BY <1>1, <1>2 DEF ProcessesOK, JobsGrow
<1>. QED BY <1>1, <1>3, <1>4 DEF ProcessesOK

LEMMA ProcessesStay ==
  ASSUME IInv, UNCHANGED <<thread, worker, requests>>, JobsGrow, faults' \in 0 .. MaxFaults
  PROVE  ProcessTypes' /\ ProcessesOK'
<1>1. ProcessTypes /\ ProcessesOK
  BY Types DEF IInv
<1>. QED BY <1>1 DEF ProcessTypes, ProcessesOK, JobsGrow

LEMMA RatesStay ==
  ASSUME IInv, UNCHANGED <<rates, admitted>>
  PROVE  RateTypes' /\ RatesOK'
<1>1. RateTypes /\ RatesOK
  BY Types DEF IInv
<1>. QED BY <1>1 DEF RateTypes, RatesOK, Counting

LEMMA AccountsStay ==
  ASSUME IInv, UNCHANGED <<account, grants, jobs>>, approved' \in BOOLEAN,
         owned' \in [Accounts -> BOOLEAN]
  PROVE  AccountTypes' /\ AccountsOK' /\ JobsGrow
<1>1. AccountTypes /\ AccountsOK
  BY Types DEF IInv
<1>. QED BY <1>1 DEF AccountTypes, AccountsOK, Active, JobsGrow

LEMMA Parts ==
  ASSUME AccountTypes' /\ AccountsOK', SessionTypes' /\ SessionsOK', RateTypes' /\ RatesOK',
         ProcessTypes' /\ ProcessesOK'
  PROVE  IInv'
<1>1. TypeOK'
  BY Types, PTL
<1>. QED BY <1>1 DEF IInv

LEMMA Known ==
  ASSUME IInv
  PROVE  /\ AccountTypes /\ AccountsOK /\ SessionTypes /\ SessionsOK /\ RateTypes /\ RatesOK
         /\ ProcessTypes /\ ProcessesOK
BY Types DEF IInv

\* One account changes; its sessions may only be of its new generation.
LEMMA AccountMoves ==
  ASSUME IInv, NEW a \in Accounts, NEW new \in Account, NEW granted \in SUBSET Tenants,
         NEW job \in {"none", "pending", "complete"},
         account' = [account EXCEPT ![a] = new], grants' = [grants EXCEPT ![a] = granted],
         jobs' = [jobs EXCEPT ![a] = job], UNCHANGED <<approved, owned>>,
         new.status = "active" => new.generation \in Generations /\ job = "none",
         new.status \in {"deletion_pending", "deleted"} =>
           new.login = 0 /\ new.recovery = 0 /\ granted = {} /\ job # "none",
         new.status = "none" => job = "none",
         jobs[a] # "none" => job # "none"
  PROVE  /\ AccountTypes' /\ AccountsOK' /\ JobsGrow
         /\ \A b \in Accounts \ {a} : account'[b] = account[b]
<1>1. AccountTypes /\ AccountsOK
  BY Known
<1>2. \A b \in Accounts : /\ account'[b] = IF b = a THEN new ELSE account[b]
                          /\ grants'[b] = IF b = a THEN granted ELSE grants[b]
                          /\ jobs'[b] = IF b = a THEN job ELSE jobs[b]
  BY <1>1 DEF AccountTypes
<1>3. AccountTypes'
  BY <1>1 DEF AccountTypes
<1>4. new.status \in {"none", "active", "deletion_pending", "deleted"}
  BY DEF Account
<1>5. AccountsOK'
  BY <1>1, <1>2, <1>4 DEF AccountsOK, Active
<1>6. JobsGrow
  BY <1>2 DEF JobsGrow
<1>. QED BY <1>2, <1>3, <1>5, <1>6


\* ---- The steps ------------------------------------------------------------------------

LEMMA ProvisionStep ==
  ASSUME IInv, NEW a \in Accounts, Provision(a)
  PROVE  IInv'
<1>. DEFINE new == [status |-> "active", login |-> 1, recovery |-> 1, generation |-> 1]
<1>1. /\ account[a].status = "none" /\ account' = [account EXCEPT ![a] = new]
      /\ UNCHANGED <<grants, sessions, approved, rates, jobs, owned, thread, worker, admitted,
                     revoked, tokens, requests, faults>>
  BY DEF Provision, history, bounds
<1>2. new \in Account /\ new.generation \in Generations
  BY IdentityAssumptions DEF Account, Generations
<1>3. jobs[a] = "none" /\ jobs[a] \in {"none", "pending", "complete"} /\ grants[a] \in SUBSET Tenants
      /\ grants' = [grants EXCEPT ![a] = grants[a]] /\ jobs' = [jobs EXCEPT ![a] = jobs[a]]
  BY <1>1, Known DEF AccountTypes, AccountsOK
<1>4. /\ AccountTypes' /\ AccountsOK' /\ JobsGrow
      /\ \A b \in Accounts \ {a} : account'[b] = account[b]
  BY <1>1, <1>2, <1>3, AccountMoves
<1>5. \A s \in sessions : s.account \in Accounts \ {a}
  BY <1>1, Known DEF SessionsOK, SessionTypes, Session, Active
<1>6. SessionTypes' /\ SessionsOK'
  BY <1>1, <1>4, <1>5, Known, SessionsStay
<1>7. ProcessTypes' /\ ProcessesOK'
  BY <1>1, <1>4, Known, ProcessesStay DEF ProcessTypes
<1>. QED BY <1>1, <1>4, <1>6, <1>7, RatesStay, Parts

LEMMA MembershipStep ==
  ASSUME IInv, NEW a \in Accounts, NEW granted \in SUBSET Tenants, Membership(a, granted)
  PROVE  IInv'
<1>1. /\ Active(a) /\ grants' = [grants EXCEPT ![a] = granted]
      /\ UNCHANGED <<account, sessions, approved, rates, jobs, owned, thread, worker, admitted,
                     revoked, tokens, requests, faults>>
  BY DEF Membership, MayHoldRoles, history, bounds
<1>2. /\ account[a] \in Account /\ account[a].generation \in Generations
      /\ jobs[a] = "none" /\ account[a].status = "active"
      /\ account' = [account EXCEPT ![a] = account[a]] /\ jobs' = [jobs EXCEPT ![a] = jobs[a]]
  BY <1>1, Known DEF AccountTypes, AccountsOK, Active
<1>3. AccountTypes' /\ AccountsOK' /\ JobsGrow
  BY <1>1, <1>2, AccountMoves
<1>4. SessionTypes' /\ SessionsOK'
  BY <1>1, Known, SessionsStay
<1>5. ProcessTypes' /\ ProcessesOK'
  BY <1>1, <1>3, Known, ProcessesStay DEF ProcessTypes
<1>. QED BY <1>1, <1>3, <1>4, <1>5, RatesStay, Parts

\* Steps of the surroundings.
LEMMA QuietStep ==
  ASSUME IInv, UNCHANGED <<database, history, tokens>>, approved' \in BOOLEAN,
         owned' \in [Accounts -> BOOLEAN],
         JobsGrow => ProcessTypes' /\ ProcessesOK'
  PROVE  IInv'
<1>1. UNCHANGED <<account, grants, sessions, rates, jobs, admitted, revoked, tokens>>
  BY DEF database, history
<1>2. AccountTypes' /\ AccountsOK' /\ JobsGrow
  BY <1>1, AccountsStay
<1>3. SessionTypes' /\ SessionsOK'
  BY <1>1, Known, SessionsStay
<1>. QED BY <1>1, <1>2, <1>3, RatesStay, Parts

LEMMA PolicyStep ==
  ASSUME IInv, PolicyChanges
  PROVE  IInv'
<1>1. /\ faults' = faults + 1 /\ faults < MaxFaults /\ approved' = ~approved
      /\ UNCHANGED <<database, owned, thread, worker, history, tokens, requests>>
  BY DEF PolicyChanges
<1>2. faults' \in 0 .. MaxFaults
  BY <1>1, Known, IdentityAssumptions DEF ProcessTypes
<1>3. approved' \in BOOLEAN /\ owned' \in [Accounts -> BOOLEAN]
  BY <1>1, Known DEF AccountTypes
<1>. QED BY <1>1, <1>2, <1>3, ProcessesStay, QuietStep

LEMMA ExpireStep ==
  ASSUME IInv, SessionExpires
  PROVE  IInv'
<1>1. PICK s \in sessions : sessions' = (sessions \ {s}) \cup {[s EXCEPT !.live = FALSE]}
  BY DEF SessionExpires
<1>2. UNCHANGED <<account, grants, approved, rates, jobs, owned, thread, worker, admitted,
                  revoked, tokens, requests, faults>>
  BY DEF SessionExpires, history, bounds
<1>. DEFINE new == [s EXCEPT !.live = FALSE]
<1>3. s \in Session
  BY Known DEF SessionTypes
<1>4. /\ new \in Session /\ new.token = s.token /\ new.account = s.account
      /\ new.generation = s.generation
  BY <1>3, ExpiredSession
<1>. HIDE DEF new
<1>5. sessions' = (sessions \ {s}) \cup {new}
  BY <1>1 DEF new
<1>6. SessionTypes'
  BY <1>2, <1>4, <1>5, Known DEF SessionTypes
<1>7. \A a \in Accounts : TokensOf(a)' = TokensOf(a)
  BY <1>4, <1>5 DEF TokensOf
<1>8. \A q \in sessions' :
        /\ q.token \in 1 .. tokens /\ q.token \notin revoked
        /\ account[q.account].status = "active" /\ q.generation = account[q.account].generation
  BY <1>4, <1>5, Known DEF SessionsOK, Active
<1>9. SessionsOK'
  BY <1>2, <1>7, <1>8, Known DEF SessionsOK, Active
<1>10. AccountTypes' /\ AccountsOK' /\ JobsGrow
  BY <1>2, Known, AccountsStay DEF AccountTypes
<1>11. ProcessTypes' /\ ProcessesOK'
  BY <1>2, <1>10, Known, ProcessesStay DEF ProcessTypes
<1>. QED BY <1>2, <1>6, <1>9, <1>10, <1>11, RatesStay, Parts

LEMMA ArriveStep ==
  ASSUME IInv, NEW t \in Threads, NEW r \in Request, RequestOK(r), Arrive(t, r)
  PROVE  IInv'
<1>1. /\ requests < MaxRequests /\ requests' = requests + 1
      /\ thread' = [thread EXCEPT ![t] = r]
      /\ UNCHANGED <<database, approved, owned, worker, history, tokens, faults>>
  BY DEF Arrive
<1>2. requests' \in 0 .. MaxRequests
  BY <1>1, Known, IdentityAssumptions DEF ProcessTypes
<1>3. approved' \in BOOLEAN /\ owned' \in [Accounts -> BOOLEAN]
  BY <1>1, Known DEF AccountTypes
<1>. QED BY <1>1, <1>2, <1>3, RequestMoves, QuietStep

LEMMA SendStep ==
  ASSUME IInv, NEW t \in Threads, NEW n \in Generations,
         \/ \E a \in Accounts, p \in Peers, action \in {"login", "recover"} :
              SendSecret(t, action, a, p, n)
         \/ \E token \in 1 .. MaxTokens, action \in {"authorize", "logout", "delete"} :
              SendToken(t, action, token, n)
  PROVE  IInv'
<1>1. ASSUME NEW a \in Accounts, NEW p \in Peers, NEW action \in {"login", "recover"},
             SendSecret(t, action, a, p, n)
      PROVE  IInv'
  <2>1. Arrive(t, SecretRequest(action, a, p, n)) /\ action \in Guarded
    BY <1>1 DEF SendSecret, SecretRequest, Guarded
  <2>2. SecretRequest(action, a, p, n) \in Request /\ RequestOK(SecretRequest(action, a, p, n))
    BY <2>1, SentSecret DEF RequestOK
  <2>. QED BY <2>1, <2>2, ArriveStep
<1>2. ASSUME NEW token \in 1 .. MaxTokens, NEW action \in {"authorize", "logout", "delete"},
             SendToken(t, action, token, n)
      PROVE  IInv'
  <2>1. Arrive(t, TokenRequest(action, token, n))
    BY <1>2 DEF SendToken, TokenRequest
  <2>2. action \in Actions /\ token \in Tokens /\ action \notin {"login", "recover"}
    BY IdentityAssumptions DEF Actions, Guarded, Tokens
  <2>3. TokenRequest(action, token, n) \in Request /\ RequestOK(TokenRequest(action, token, n))
    BY <2>2, SentToken DEF RequestOK
  <2>. QED BY <2>1, <2>3, ArriveStep
<1>. QED BY <1>1, <1>2

\* A token that is current has one row, of an active account.
LEMMA CurrentRow ==
  ASSUME SessionTypes, SessionsOK, NEW token, Current(token)
  PROVE  LET row == CHOOSE s \in Rows(token) : TRUE
         IN  /\ row \in sessions /\ row \in Session /\ row.token = token
             /\ Rows(token) = {row} /\ Active(row.account) /\ token \notin revoked
             /\ row.generation = account[row.account].generation
<1>. DEFINE row == CHOOSE s \in Rows(token) : TRUE
<1>1. \E s \in Rows(token) : TRUE
  BY DEF Current
<1>2. row \in Rows(token)
  BY <1>1
<1>. HIDE DEF row
<1>3. row \in sessions /\ row.token = token /\ row \in Session
  BY <1>2 DEF Rows, SessionTypes
<1>4. Rows(token) = {row}
  BY <1>3 DEF Rows, SessionTypes
<1>. QED BY <1>3, <1>4 DEF SessionsOK, row

LEMMA ResolveStep ==
  ASSUME IInv, NEW t \in Threads, Resolve(t)
  PROVE  IInv'
<1>. DEFINE r == thread[t]
            row == CHOOSE s \in Rows(r.token) : TRUE
            pc == IF r.action = "authorize" THEN "act" ELSE "limit"
<1>1. /\ UNCHANGED <<database, approved, owned, worker, history, bounds>>
      /\ Current(r.token) => thread' = [thread EXCEPT ![t].pc = pc, ![t].account = row.account,
                                                      ![t].generation = row.generation]
      /\ ~Current(r.token) => End(t)
  BY DEF Resolve
<1>2. r \in Request /\ RequestOK(r) /\ approved \in BOOLEAN /\ owned \in [Accounts -> BOOLEAN]
      /\ requests \in 0 .. MaxRequests
  BY Known DEF ProcessTypes, ProcessesOK, RequestOK, AccountTypes
<1>3. JobsGrow => ProcessTypes' /\ ProcessesOK'
  <2>1. CASE Current(r.token)
    <3>1. row.account \in Accounts /\ row.generation \in Generations
      BY <2>1, CurrentRow, Known DEF Session
    <3>2. pc \in {"act", "limit"} /\ r.action \in Actions /\ (pc = "limit" => r.action # "authorize")
      BY <1>2 DEF Request
    <3>. HIDE DEF pc, row
    <3>3. thread' = [thread EXCEPT ![t] = ResolvedRequest(r, pc, row.account, row.generation)]
      BY <1>1, <2>1, Known DEF ResolvedRequest, ProcessTypes
    <3>4. LET q == ResolvedRequest(r, pc, row.account, row.generation)
          IN  q \in Request /\ RequestOK(q)
      BY <1>2, <3>1, <3>2, ResolvedTypes DEF RequestOK, Actions
    <3>. QED BY <1>1, <1>2, <3>3, <3>4, RequestMoves DEF bounds
  <2>2. CASE ~Current(r.token)
    BY <1>1, <2>2, RequestEnds DEF bounds
  <2>. QED BY <2>1, <2>2
<1>. QED BY <1>1, <1>2, <1>3, QuietStep DEF bounds

LEMMA LimitStep ==
  ASSUME IInv, NEW t \in Threads, NEW ended \in SUBSET {k \in Keys : rates[k] > 0}, Limit(t, ended)
  PROVE  IInv'
<1>. DEFINE r == thread[t]
            rows == Ended(ended)
            c == Counted(rows, RateKeys(r.action, r.account, r.peer))
            left == [g \in Guarded \X Accounts |->
                       IF <<g[1], "account", g[2]>> \in ended THEN 0 ELSE admitted[g]]
            g0 == <<r.action, r.account>>
<1>1. /\ r.pc = "limit" /\ rates' = c.rates
      /\ c.allowed => Goto(t, "act") /\ admitted' = [left EXCEPT ![g0] = @ + 1]
      /\ ~c.allowed => End(t) /\ admitted' = left
      /\ UNCHANGED <<account, grants, sessions, approved, jobs, owned, worker, revoked,
                     tokens, requests, faults>>
  BY DEF Limit, Ended, bounds
<1>2. /\ r \in Request /\ r.action \in Guarded /\ r.account \in Accounts /\ r.peer \in Peers
      /\ RequestOK(r)
  BY <1>1, Known DEF ProcessTypes, ProcessesOK, RequestOK, Request
<1>3. rows \in [Keys -> Nat] /\ Counting(rows) \subseteq Counting(rates)
  BY Known DEF RateTypes, Ended, Counting
<1>4. IsFiniteSet(Counting(rows)) /\ Cardinality(Counting(rows)) <= RateRows
  <2>1. /\ IsFiniteSet(Counting(rates)) /\ Cardinality(Counting(rates)) \in Nat
        /\ Cardinality(Counting(rates)) <= RateRows
    BY Known, FS_CardinalityType DEF RatesOK, RateTypes
  <2>2. /\ IsFiniteSet(Counting(rows)) /\ Cardinality(Counting(rows)) <= Cardinality(Counting(rates))
        /\ Cardinality(Counting(rows)) \in Nat
    BY <1>3, <2>1, FS_Subset, FS_CardinalityType
  <2>. QED BY <2>1, <2>2, IdentityAssumptions
<1>5. /\ c.rates \in [Keys -> Nat]
      /\ IsFiniteSet(Counting(c.rates)) /\ Cardinality(Counting(c.rates)) <= RateRows
      /\ \A key \in Keys : rows[key] <= c.rates[key]
      /\ c.allowed => /\ rows[AccountKey(r.action, r.account)] < AccountLimit
                      /\ c.rates[AccountKey(r.action, r.account)]
                           = rows[AccountKey(r.action, r.account)] + 1
  BY <1>2, <1>3, <1>4, CountedFacts
<1>. HIDE DEF c
<1>6. /\ left \in [Guarded \X Accounts -> Nat]
      /\ \A action \in Guarded, a \in Accounts :
           left[<<action, a>>] <= rows[AccountKey(action, a)] /\ left[<<action, a>>] <= AccountLimit
  <2>1. left \in [Guarded \X Accounts -> Nat]
    BY Known DEF RateTypes
  <2>2. ASSUME NEW action \in Guarded, NEW a \in Accounts
        PROVE  left[<<action, a>>] <= rows[AccountKey(action, a)] /\ left[<<action, a>>] <= AccountLimit
    <3>1. /\ AccountKey(action, a) = <<action, "account", a>> /\ AccountKey(action, a) \in Keys
          /\ left[<<action, a>>] = IF AccountKey(action, a) \in ended THEN 0 ELSE admitted[<<action, a>>]
          /\ rows[AccountKey(action, a)] = IF AccountKey(action, a) \in ended THEN 0 ELSE rates[AccountKey(action, a)]
      BY DEF AccountKey, Keys, Ended
    <3>2. /\ admitted[<<action, a>>] <= rates[AccountKey(action, a)]
          /\ admitted[<<action, a>>] <= AccountLimit
      BY <3>1, Known DEF RatesOK
    <3>. QED BY <3>1, <3>2, IdentityAssumptions
  <2>. QED BY <2>1, <2>2
<1>. HIDE DEF left, rows
<1>7. admitted' \in [Guarded \X Accounts -> Nat]
      /\ \A action \in Guarded, a \in Accounts :
           /\ admitted'[<<action, a>>] <= c.rates[AccountKey(action, a)]
           /\ admitted'[<<action, a>>] <= AccountLimit
  <2>1. \A action \in Guarded, a \in Accounts :
          /\ rows[AccountKey(action, a)] \in Nat /\ c.rates[AccountKey(action, a)] \in Nat
          /\ rows[AccountKey(action, a)] <= c.rates[AccountKey(action, a)]
          /\ left[<<action, a>>] \in Nat
    BY <1>3, <1>5, <1>6, KeyTypes DEF Keys, AccountKey
  <2>2. CASE c.allowed
    <3>1. g0 \in Guarded \X Accounts /\ left[g0] \in Nat
      BY <1>2, <2>1
    <3>2. /\ admitted' \in [Guarded \X Accounts -> Nat]
          /\ admitted'[g0] = left[g0] + 1
          /\ \A g \in Guarded \X Accounts : g # g0 => admitted'[g] = left[g]
      BY <1>1, <1>6, <2>2, <3>1
    <3>3. ASSUME NEW action \in Guarded, NEW a \in Accounts
          PROVE  /\ admitted'[<<action, a>>] <= c.rates[AccountKey(action, a)]
                 /\ admitted'[<<action, a>>] <= AccountLimit
      <4>1. CASE <<action, a>> = g0
        <5>1. action = r.action /\ a = r.account
          BY <4>1
        <5>. QED BY <1>2, <1>5, <1>6, <2>1, <2>2, <3>2, <4>1, <5>1, IdentityAssumptions
      <4>2. CASE <<action, a>> # g0
        BY <1>6, <2>1, <3>2, <4>2, IdentityAssumptions
      <4>. QED BY <4>1, <4>2
    <3>. QED BY <3>2, <3>3
  <2>3. CASE ~c.allowed
    BY <1>1, <1>6, <2>1, <2>3, IdentityAssumptions
  <2>. QED BY <2>2, <2>3
<1>8. RateTypes' /\ RatesOK'
  BY <1>1, <1>5, <1>7 DEF RateTypes, RatesOK, AccountKey, Counting
<1>9. AccountTypes' /\ AccountsOK' /\ JobsGrow
  BY <1>1, Known, AccountsStay DEF AccountTypes
<1>10. SessionTypes' /\ SessionsOK'
  BY <1>1, Known, SessionsStay
<1>11. ProcessTypes' /\ ProcessesOK'
  <2>1. CASE c.allowed
    <3>1. LET q == [r EXCEPT !.pc = "act"]
          IN  q \in Request /\ q.pc = "act" /\ q.action = r.action /\ q.token = r.token
      BY <1>2, MovedRequest
    <3>2. thread' = [thread EXCEPT ![t] = [r EXCEPT !.pc = "act"]]
      BY <1>1, <2>1, Known DEF Goto, ProcessTypes
    <3>3. requests' \in 0 .. MaxRequests
      BY <1>1, Known DEF ProcessTypes
    <3>. QED BY <1>1, <1>2, <1>9, <3>1, <3>2, <3>3, RequestMoves DEF RequestOK
  <2>2. CASE ~c.allowed
    BY <1>1, <1>9, <2>2, RequestEnds
  <2>. QED BY <2>1, <2>2
<1>. QED BY <1>8, <1>9, <1>10, <1>11, Parts


\* The principal of a request is an active account of the same generation, and its
\* token is not revoked.
LEMMA PrincipalFacts ==
  ASSUME IInv, NEW t \in Threads, Principal(thread[t])
  PROVE  LET r == thread[t]
         IN  /\ Active(r.account) /\ account[r.account].generation \in Generations
             /\ r.token \notin revoked /\ r.token \in TokensIn(sessions) /\ r.account \in Accounts
<1>. DEFINE r == thread[t]
            row == CHOOSE s \in Rows(r.token) : TRUE
<1>1. Current(r.token) /\ \E s \in Rows(r.token) : s.account = r.account
  BY DEF Principal
<1>2. row \in sessions /\ row \in Session /\ row.token = r.token /\ Rows(r.token) = {row}
      /\ Active(row.account) /\ r.token \notin revoked
  BY <1>1, Known, CurrentRow
<1>3. row.account = r.account
  BY <1>1, <1>2
<1>. HIDE DEF row
<1>4. r.account \in Accounts
  BY <1>2, <1>3 DEF Session
<1>. QED BY <1>2, <1>3, <1>4, Known DEF AccountsOK, TokensIn

LEMMA LoginStep ==
  ASSUME IInv, NEW t \in Threads, Login(t)
  PROVE  IInv'
<1>. DEFINE a == thread[t].account
            allowed == Active(a) /\ approved /\ thread[t].secret > 0
                         /\ thread[t].secret = account[a].login
<1>1. /\ UNCHANGED <<account, grants, approved, rates, jobs, owned, worker, admitted, requests, faults>>
      /\ allowed => /\ tokens < MaxTokens /\ tokens' = tokens + 1
                    /\ sessions' = Trimmed(a).rows \cup
                         {[token |-> tokens + 1, account |-> a,
                           generation |-> account[a].generation, live |-> TRUE]}
                    /\ revoked' = revoked \cup Trimmed(a).dropped
                    /\ Allow(t)
      /\ ~allowed => End(t) /\ UNCHANGED <<tokens, sessions, revoked>>
  BY DEF Login
<1>2. a \in Accounts /\ (Active(a) => account[a].generation \in Generations)
  BY Known DEF ProcessTypes, Request, AccountsOK
<1>3. AccountTypes' /\ AccountsOK' /\ JobsGrow
  BY <1>1, Known, AccountsStay DEF AccountTypes
<1>4. ProcessTypes' /\ ProcessesOK'
  BY <1>1, <1>3, RequestEnds
<1>5. SessionTypes' /\ SessionsOK'
  <2>1. CASE allowed
    BY <1>1, <1>2, <2>1, Known, RowAdded
  <2>2. CASE ~allowed
    BY <1>1, <2>2, Known, SessionsStay
  <2>. QED BY <2>1, <2>2
<1>. QED BY <1>1, <1>3, <1>4, <1>5, RatesStay, Parts

LEMMA AuthorizeStep ==
  ASSUME IInv, NEW t \in Threads, NEW tenant, Authorize(t, tenant)
  PROVE  IInv'
<1>1. /\ End(t) \/ Allow(t)
      /\ UNCHANGED <<database, approved, owned, worker, history, bounds>>
  BY DEF Authorize
<1>2. approved' \in BOOLEAN /\ owned' \in [Accounts -> BOOLEAN]
  BY <1>1, Known DEF AccountTypes
<1>. QED BY <1>1, <1>2, RequestEnds, QuietStep DEF bounds

LEMMA LogoutStep ==
  ASSUME IInv, NEW t \in Threads, Logout(t)
  PROVE  IInv'
<1>. DEFINE r == thread[t]
<1>1. /\ UNCHANGED <<account, grants, approved, rates, jobs, owned, worker, admitted, tokens,
                     requests, faults>>
      /\ Principal(r) => /\ sessions' = Without({r.token}) /\ revoked' = revoked \cup {r.token}
                         /\ Allow(t)
      /\ ~Principal(r) => End(t) /\ UNCHANGED <<sessions, revoked>>
  BY DEF Logout, bounds
<1>2. AccountTypes' /\ AccountsOK' /\ JobsGrow
  BY <1>1, Known, AccountsStay DEF AccountTypes
<1>3. ProcessTypes' /\ ProcessesOK'
  BY <1>1, <1>2, RequestEnds
<1>4. SessionTypes' /\ SessionsOK'
  <2>1. CASE Principal(r)
    <3>1. {r.token} \in SUBSET TokensIn(sessions)
      BY <2>1, PrincipalFacts
    <3>. QED BY <1>1, <2>1, <3>1, Known, RowsGo
  <2>2. CASE ~Principal(r)
    BY <1>1, <2>2, Known, SessionsStay
  <2>. QED BY <2>1, <2>2
<1>. QED BY <1>1, <1>2, <1>3, <1>4, RatesStay, Parts

\* What recover and request_deletion do to the sessions of account a.
LEMMA AllRowsGo ==
  ASSUME IInv, NEW a \in Accounts, sessions' = Without(TokensOf(a)),
         revoked' = revoked \cup TokensOf(a), tokens' = tokens,
         \A b \in Accounts \ {a} : account'[b] = account[b]
  PROVE  SessionTypes' /\ SessionsOK'
<1>1. TokensOf(a) \in SUBSET TokensIn(sessions)
  BY DEF TokensOf, TokensIn
<1>2. \A s \in sessions : s.token \notin TokensOf(a) => s.account \in Accounts \ {a}
  BY Known DEF TokensOf, SessionTypes, Session
<1>. QED BY <1>1, <1>2, Known, RowsGo

LEMMA RecoverStep ==
  ASSUME IInv, NEW t \in Threads, Recover(t)
  PROVE  IInv'
<1>. DEFINE a == thread[t].account
            next == account[a].generation + 1
            new == [status |-> "active", login |-> next, recovery |-> next, generation |-> next]
            allowed == Active(a) /\ approved /\ thread[t].secret > 0
                         /\ thread[t].secret = account[a].recovery
<1>1. /\ UNCHANGED <<grants, approved, rates, jobs, owned, worker, admitted, tokens, requests, faults>>
      /\ allowed => /\ next <= MaxGeneration /\ account' = [account EXCEPT ![a] = new]
                    /\ sessions' = Without(TokensOf(a)) /\ revoked' = revoked \cup TokensOf(a)
                    /\ Allow(t)
      /\ ~allowed => End(t) /\ UNCHANGED <<account, sessions, revoked>>
  BY DEF Recover, bounds
<1>2. a \in Accounts
  BY Known DEF ProcessTypes, Request
<1>3. CASE allowed
  <2>1. next \in Generations
    BY <1>1, <1>2, <1>3, Known, IdentityAssumptions DEF AccountsOK, Generations
  <2>2. new \in Account /\ new.generation \in Generations /\ new.status = "active"
    BY <2>1 DEF Account
  <2>3. jobs[a] = "none" /\ grants[a] \in SUBSET Tenants
        /\ grants' = [grants EXCEPT ![a] = grants[a]] /\ jobs' = [jobs EXCEPT ![a] = jobs[a]]
    BY <1>1, <1>2, <1>3, Known DEF AccountTypes, AccountsOK, Active
  <2>. HIDE DEF new
  <2>4. account' = [account EXCEPT ![a] = new] /\ UNCHANGED <<approved, owned>>
    BY <1>1, <1>3
  <2>5. /\ AccountTypes' /\ AccountsOK' /\ JobsGrow
        /\ \A b \in Accounts \ {a} : account'[b] = account[b]
    BY <1>2, <2>2, <2>3, <2>4, AccountMoves
  <2>6. SessionTypes' /\ SessionsOK'
    BY <1>1, <1>2, <1>3, <2>5, AllRowsGo
  <2>7. ProcessTypes' /\ ProcessesOK'
    BY <1>1, <1>3, <2>5, RequestEnds
  <2>. QED BY <1>1, <2>5, <2>6, <2>7, RatesStay, Parts
<1>4. CASE ~allowed
  <2>1. approved' \in BOOLEAN /\ owned' \in [Accounts -> BOOLEAN]
    BY <1>1, Known DEF AccountTypes
  <2>. QED BY <1>1, <1>4, <2>1, RequestEnds, QuietStep DEF database, history
<1>. QED BY <1>3, <1>4

LEMMA DeletionStep ==
  ASSUME IInv, NEW t \in Threads, RequestDeletion(t)
  PROVE  IInv'
<1>. DEFINE r == thread[t]
            a == r.account
            new == [status |-> "deletion_pending", login |-> 0, recovery |-> 0,
                    generation |-> account[a].generation + 1]
            allowed == Principal(r) /\ r.secret > 0 /\ r.secret = account[a].login
<1>1. /\ UNCHANGED <<approved, rates, owned, worker, admitted, tokens, requests, faults>>
      /\ allowed => /\ account' = [account EXCEPT ![a] = new]
                    /\ sessions' = Without(TokensOf(a)) /\ revoked' = revoked \cup TokensOf(a)
                    /\ grants' = [grants EXCEPT ![a] = {}]
                    /\ jobs' = [jobs EXCEPT ![a] = "pending"]
                    /\ Allow(t)
      /\ ~allowed => End(t) /\ UNCHANGED <<account, sessions, grants, jobs, revoked>>
  BY DEF RequestDeletion, bounds
<1>2. a \in Accounts
  BY Known DEF ProcessTypes, Request
<1>3. CASE allowed
  <2>1. account[a].generation \in Generations
    BY <1>3, PrincipalFacts
  <2>2. /\ new \in Account /\ new.login = 0 /\ new.recovery = 0
        /\ new.status = "deletion_pending"
    BY <2>1, IdentityAssumptions DEF Account, Generations
  <2>. HIDE DEF new
  <2>3. /\ AccountTypes' /\ AccountsOK' /\ JobsGrow
        /\ \A b \in Accounts \ {a} : account'[b] = account[b]
    BY <1>1, <1>2, <1>3, <2>2, AccountMoves
  <2>4. SessionTypes' /\ SessionsOK'
    BY <1>1, <1>2, <1>3, <2>3, AllRowsGo
  <2>5. ProcessTypes' /\ ProcessesOK'
    BY <1>1, <1>3, <2>3, RequestEnds
  <2>. QED BY <1>1, <2>3, <2>4, <2>5, RatesStay, Parts
<1>4. CASE ~allowed
  <2>1. approved' \in BOOLEAN /\ owned' \in [Accounts -> BOOLEAN]
    BY <1>1, Known DEF AccountTypes
  <2>. QED BY <1>1, <1>4, <2>1, RequestEnds, QuietStep DEF database, history
<1>. QED BY <1>3, <1>4

LEMMA BeginStep ==
  ASSUME IInv, NEW w \in Workers, NEW a \in Accounts, Begin(w, a)
  PROVE  IInv'
<1>. DEFINE job == [pc |-> "erase", account |-> a]
<1>1. /\ jobs[a] = "pending" /\ worker' = [worker EXCEPT ![w] = job]
      /\ UNCHANGED <<database, approved, owned, thread, history, tokens, requests, faults>>
  BY DEF Begin, WorkerAt, bounds
<1>2. approved' \in BOOLEAN /\ owned' \in [Accounts -> BOOLEAN] /\ faults' \in 0 .. MaxFaults
      /\ jobs' = jobs
  BY <1>1, Known DEF AccountTypes, ProcessTypes, database
<1>3. job \in Job /\ job.account = a
  BY DEF Job
<1>4. JobsGrow => ProcessTypes' /\ ProcessesOK'
  BY <1>1, <1>2, <1>3, WorkerMoves
<1>. QED BY <1>1, <1>2, <1>4, QuietStep

LEMMA EraseStep ==
  ASSUME IInv, NEW w \in Workers, NEW answer \in BOOLEAN, NEW gone \in BOOLEAN,
         Erase(w, answer, gone)
  PROVE  IInv'
<1>. DEFINE a == worker[w].account
            done == [pc |-> "complete", account |-> a]
            left == [pc |-> "idle", account |-> NoAccount]
<1>1. /\ worker[w].pc = "erase" /\ (~answer => faults < MaxFaults)
      /\ faults' = IF answer THEN faults ELSE faults + 1
      /\ owned' = [owned EXCEPT ![a] = @ /\ ~gone]
      /\ IF Verified(answer) THEN worker' = [worker EXCEPT ![w] = done]
                             ELSE worker' = [worker EXCEPT ![w] = left]
      /\ UNCHANGED <<database, approved, thread, history, tokens, requests>>
  BY DEF Erase, WorkerAt
<1>2. a \in Accounts /\ jobs[a] # "none"
  BY <1>1, Known DEF ProcessesOK
<1>3. faults' \in 0 .. MaxFaults
  BY <1>1, Known, IdentityAssumptions DEF ProcessTypes
<1>4. approved' \in BOOLEAN /\ jobs' = jobs
  BY <1>1, Known DEF AccountTypes, database
<1>5. owned' \in [Accounts -> BOOLEAN]
  <2>1. owned \in [Accounts -> BOOLEAN] /\ (owned[a] /\ ~gone) \in BOOLEAN
    BY <1>2, Known DEF AccountTypes
  <2>. HIDE DEF a
  <2>. QED BY <1>1, <2>1
<1>6. done \in Job /\ left \in Job /\ done.account = a /\ left.pc = "idle"
  BY <1>2 DEF Job
<1>. HIDE DEF done, left
<1>7. JobsGrow => ProcessTypes' /\ ProcessesOK'
  <2>1. CASE Verified(answer)
    BY <1>1, <1>2, <1>3, <1>4, <1>6, <2>1, WorkerMoves
  <2>2. CASE ~Verified(answer)
    BY <1>1, <1>3, <1>6, <2>2, WorkerMoves
  <2>. QED BY <2>1, <2>2
<1>. QED BY <1>1, <1>4, <1>5, <1>7, QuietStep

LEMMA CompleteStep ==
  ASSUME IInv, NEW w \in Workers, Complete(w)
  PROVE  IInv'
<1>. DEFINE a == worker[w].account
            new == [account[a] EXCEPT !.status = "deleted"]
            left == [pc |-> "idle", account |-> NoAccount]
<1>1. /\ worker[w].pc = "complete" /\ account' = [account EXCEPT ![a].status = "deleted"]
      /\ jobs' = [jobs EXCEPT ![a] = "complete"] /\ worker' = [worker EXCEPT ![w] = left]
      /\ UNCHANGED <<grants, sessions, approved, rates, owned, thread, admitted, revoked, tokens,
                     requests, faults>>
  BY DEF Complete, WorkerAt, history, bounds
<1>2. /\ a \in Accounts /\ account[a] \in Account /\ account \in [Accounts -> Account]
      /\ grants \in [Accounts -> SUBSET Tenants]
      /\ account[a].status \in {"deletion_pending", "deleted"}
      /\ account[a].login = 0 /\ account[a].recovery = 0 /\ grants[a] = {}
  BY <1>1, Known DEF ProcessesOK, AccountsOK, AccountTypes
<1>3. new \in Account /\ new.status = "deleted" /\ new.login = 0 /\ new.recovery = 0
  BY <1>2 DEF Account
<1>4. /\ account' = [account EXCEPT ![a] = new] /\ grants' = [grants EXCEPT ![a] = {}]
      /\ jobs' = [jobs EXCEPT ![a] = "complete"] /\ UNCHANGED <<approved, owned>>
  BY <1>1, <1>2
<1>5. left \in Job /\ left.pc = "idle"
  BY DEF Job
<1>. HIDE DEF new, left
<1>6. /\ AccountTypes' /\ AccountsOK' /\ JobsGrow
      /\ \A b \in Accounts \ {a} : account'[b] = account[b]
  BY <1>2, <1>3, <1>4, AccountMoves
<1>7. \A s \in sessions : s.account \in Accounts \ {a}
  BY <1>2, Known DEF SessionsOK, SessionTypes, Session, Active
<1>8. SessionTypes' /\ SessionsOK'
  BY <1>1, <1>6, <1>7, Known, SessionsStay
<1>9. faults' \in 0 .. MaxFaults
  BY <1>1, Known DEF ProcessTypes
<1>10. ProcessTypes' /\ ProcessesOK'
  BY <1>1, <1>5, <1>6, <1>9, WorkerMoves
<1>. QED BY <1>1, <1>6, <1>8, <1>10, RatesStay, Parts

LEMMA RestartStep ==
  ASSUME IInv, Restart
  PROVE  IInv'
<1>1. /\ faults < MaxFaults /\ faults' = faults + 1 /\ thread' = [t \in Threads |-> Idle]
      /\ worker' = [w \in Workers |-> [pc |-> "idle", account |-> NoAccount]]
      /\ UNCHANGED <<database, approved, owned, history, tokens, requests>>
  BY DEF Restart
<1>2. approved' \in BOOLEAN /\ owned' \in [Accounts -> BOOLEAN]
  BY <1>1, Known DEF AccountTypes
<1>3. ProcessTypes' /\ ProcessesOK'
  <2>1. thread' \in [Threads -> Request] /\ worker' \in [Workers -> Job]
    BY <1>1, IdleRequest DEF Job
  <2>2. ProcessTypes'
    BY <1>1, <2>1, Known, IdentityAssumptions DEF ProcessTypes
  <2>. QED BY <1>1, <2>2, IdleRequest DEF ProcessesOK
<1>. QED BY <1>1, <1>2, <1>3, QuietStep


\* ---- Theorems ---------------------------------------------------------------------------

LEMMA Initially == Init => IInv
<1>. SUFFICES ASSUME Init PROVE IInv
  OBVIOUS
<1>1. AccountTypes /\ AccountsOK
  <2>1. [status |-> "none", login |-> 0, recovery |-> 0, generation |-> 0] \in Account
    BY IdentityAssumptions DEF Account, Generations
  <2>2. account \in [Accounts -> Account] /\ \A a \in Accounts : account[a].status = "none"
    BY <2>1 DEF Init
  <2>3. AccountTypes
    BY <2>2 DEF Init, AccountTypes
  <2>. QED BY <2>2, <2>3 DEF Init, AccountsOK, Active
<1>2. SessionTypes /\ SessionsOK
  <2>1. /\ sessions = {} /\ revoked = {} /\ tokens = 0 /\ 0 \in Tokens
        /\ \A a \in Accounts : TokensOf(a) = {}
    BY IdentityAssumptions DEF Init, Tokens, TokensOf
  <2>2. Cardinality({}) = 0 /\ 0 <= KeptSessions + 1
    BY FS_EmptySet, IdentityAssumptions
  <2>. QED BY <2>1, <2>2 DEF SessionTypes, SessionsOK
<1>3. RateTypes /\ RatesOK
  <2>1. Counting(rates) = {} /\ rates \in [Keys -> Nat]
    BY DEF Init, Counting
  <2>2. IsFiniteSet({}) /\ Cardinality({}) = 0 /\ 0 <= RateRows
    BY FS_EmptySet, IdentityAssumptions
  <2>3. \A action \in Guarded, a \in Accounts :
          admitted[<<action, a>>] = 0 /\ rates[<<action, "account", a>>] = 0
    BY DEF Init, Keys
  <2>4. admitted \in [Guarded \X Accounts -> Nat]
    BY DEF Init
  <2>5. RateTypes
    BY <2>1, <2>2, <2>4 DEF RateTypes
  <2>6. 0 <= 0 /\ 0 <= AccountLimit
    BY IdentityAssumptions
  <2>7. RatesOK
    BY <2>1, <2>2, <2>3, <2>6 DEF RatesOK
  <2>. QED BY <2>5, <2>7
<1>4. ProcessTypes /\ ProcessesOK
  <2>1. [pc |-> "idle", account |-> NoAccount] \in Job
    BY DEF Job
  <2>. QED BY <2>1, IdleRequest, IdentityAssumptions DEF Init, ProcessTypes, ProcessesOK
<1>. QED BY <1>1, <1>2, <1>3, <1>4, Types DEF IInv

LEMMA Stuttering ==
  ASSUME IInv, UNCHANGED vars
  PROVE  IInv'
<1>1. /\ UNCHANGED <<account, grants, sessions, approved, rates, jobs, owned, thread, worker,
                     admitted, revoked, tokens, requests, faults>>
  BY DEF vars
<1>2. approved' \in BOOLEAN /\ owned' \in [Accounts -> BOOLEAN] /\ faults' \in 0 .. MaxFaults
  BY <1>1, Known DEF AccountTypes, ProcessTypes
<1>3. JobsGrow => ProcessTypes' /\ ProcessesOK'
  BY <1>1, <1>2, ProcessesStay
<1>. QED BY <1>1, <1>2, <1>3, QuietStep DEF database, history

LEMMA Inductive == IInv /\ [Next]_vars => IInv'
<1>. SUFFICES ASSUME IInv, [Next]_vars PROVE IInv'
  OBVIOUS
<1>1. ASSUME NEW a \in Accounts,
             Provision(a) \/ \E granted \in SUBSET Tenants : Membership(a, granted)
      PROVE  IInv'
  BY <1>1, ProvisionStep, MembershipStep
<1>2. ASSUME PolicyChanges \/ SessionExpires PROVE IInv'
  BY <1>2, PolicyStep, ExpireStep
<1>3. ASSUME NEW t \in Threads, NEW n \in Generations,
             \/ \E a \in Accounts, p \in Peers, action \in {"login", "recover"} :
                  SendSecret(t, action, a, p, n)
             \/ \E token \in 1 .. MaxTokens, action \in {"authorize", "logout", "delete"} :
                  SendToken(t, action, token, n)
      PROVE  IInv'
  BY <1>3, SendStep
<1>4. ASSUME NEW t \in Threads,
             Resolve(t) \/ \E ended \in SUBSET {k \in Keys : rates[k] > 0} : Limit(t, ended)
      PROVE  IInv'
  BY <1>4, ResolveStep, LimitStep
<1>5. ASSUME NEW t \in Threads,
             \/ Login(t) \/ Logout(t) \/ Recover(t) \/ RequestDeletion(t)
             \/ \E tenant \in Tenants : Authorize(t, tenant)
      PROVE  IInv'
  BY <1>5, LoginStep, LogoutStep, RecoverStep, DeletionStep, AuthorizeStep
<1>6. ASSUME NEW w \in Workers, Work(w) PROVE IInv'
  BY <1>6, BeginStep, EraseStep, CompleteStep DEF Work
<1>7. ASSUME Restart PROVE IInv'
  BY <1>7, RestartStep
<1>8. ASSUME UNCHANGED vars PROVE IInv'
  BY <1>8, Stuttering
<1>. QED BY <1>1, <1>2, <1>3, <1>4, <1>5, <1>6, <1>7, <1>8 DEF Next

\* What the rows of accounts, sessions, rates and jobs say of each other, and of
\* the requests and workers between two transactions, holds of every behaviour.
THEOREM Invariance == Spec => []IInv
BY Initially, Inductive, PTL DEF Spec

\* Every variable keeps its type; in particular the rate table never outgrows its
\* rows, however many accounts and peers are named.
THEOREM TypeCorrect == Spec => []TypeOK
<1>1. IInv => TypeOK
  BY DEF IInv
<1>. QED BY <1>1, Invariance, PTL

\* Sessions belong to the present generation of an active account and are bounded;
\* an account on its way out has neither factors nor roles.
THEOREM NothingLeftOver == Spec => []NothingOutlives
<1>1. IInv => NothingOutlives
  BY DEF IInv, SessionsOK, AccountsOK, NothingOutlives
<1>. QED BY <1>1, Invariance, PTL

\* A window lets no more attempts on an account through than its limit, from
\* however many peers and through any failures.
THEOREM GuessesCounted == Spec => []GuessesBounded
<1>1. IInv => GuessesBounded
  <2>. SUFFICES ASSUME IInv, NEW g \in Guarded \X Accounts PROVE admitted[g] <= AccountLimit
    BY DEF GuessesBounded
  <2>1. g = <<g[1], g[2]>> /\ g[1] \in Guarded /\ g[2] \in Accounts
    OBVIOUS
  <2>. QED BY <2>1 DEF IInv, RatesOK
<1>. QED BY <1>1, Invariance, PTL

Late(t) == thread[t].pc = "act" /\ thread'[t].pc = "allowed"

\* Whoever steps, another request stays where it is; who is let through acted.
LEMMA ByItself ==
  ASSUME IInv, NEW t \in Threads, NEW u \in Threads, NEW r,
         thread' = [thread EXCEPT ![u] = r], Late(t)
  PROVE  t = u /\ r.pc = "allowed" /\ thread[u].pc = "act"
BY Known DEF ProcessTypes, Late

LEMMA EndsQuietly ==
  ASSUME IInv, NEW t \in Threads, NEW u \in Threads, Late(t), End(u) \/ Allow(u)
  PROVE  t = u /\ Allow(u)
<1>1. CASE End(u)
  BY <1>1, ByItself, IdleRequest DEF End
<1>2. CASE Allow(u)
  BY <1>2, ByItself DEF Allow
<1>. QED BY <1>1, <1>2

LEMMA SendsQuietly ==
  ASSUME IInv, NEW t \in Threads, NEW u \in Threads, NEW n \in Generations,
         \/ \E a \in Accounts, p \in Peers, action \in {"login", "recover"} :
              SendSecret(u, action, a, p, n)
         \/ \E token \in 1 .. MaxTokens, action \in {"authorize", "logout", "delete"} :
              SendToken(u, action, token, n)
  PROVE  ~Late(t)
<1>1. ASSUME NEW r, Arrive(u, r), Late(t) PROVE FALSE
  <2>1. thread' = [thread EXCEPT ![u] = r] /\ thread[u].pc \in {"idle", "allowed"}
    BY <1>1 DEF Arrive
  <2>. QED BY <1>1, <2>1, ByItself
<1>2. \E r : Arrive(u, r)
  BY DEF SendSecret, SendToken
<1>. QED BY <1>1, <1>2

LEMMA ResolvesQuietly ==
  ASSUME IInv, NEW t \in Threads, NEW u \in Threads,
         Resolve(u) \/ \E ended \in SUBSET {k \in Keys : rates[k] > 0} : Limit(u, ended)
  PROVE  ~Late(t)
<1>1. thread[u].pc \in {"resolve", "limit"}
  BY DEF Resolve, Limit
<1>2. \E r : thread' = [thread EXCEPT ![u] = r]
  <2>1. CASE Resolve(u)
    <3>. DEFINE row == CHOOSE s \in Rows(thread[u].token) : TRUE
                pc == IF thread[u].action = "authorize" THEN "act" ELSE "limit"
    <3>1. \/ thread' = [thread EXCEPT ![u].pc = pc, ![u].account = row.account,
                                      ![u].generation = row.generation]
          \/ thread' = [thread EXCEPT ![u] = Idle]
      BY <2>1 DEF Resolve, End
    <3>. HIDE DEF row, pc
    <3>2. ASSUME thread' = [thread EXCEPT ![u].pc = pc, ![u].account = row.account,
                                      ![u].generation = row.generation]
          PROVE  thread' = [thread EXCEPT ![u] =
                              ResolvedRequest(thread[u], pc, row.account, row.generation)]
      BY <3>2, Known DEF ResolvedRequest, ProcessTypes
    <3>. QED BY <3>1, <3>2
  <2>2. ASSUME NEW ended, Limit(u, ended) PROVE \E r : thread' = [thread EXCEPT ![u] = r]
    <3>1. Goto(u, "act") \/ End(u)
      BY <2>2 DEF Limit
    <3>. QED BY <3>1 DEF Goto, End
  <2>. QED BY <2>1, <2>2
<1>. QED BY <1>1, <1>2, ByItself

LEMMA RestartsQuietly ==
  ASSUME NEW t \in Threads, Restart
  PROVE  ~Late(t)
<1>1. thread' = [u \in Threads |-> Idle]
  BY DEF Restart
<1>. QED BY <1>1, IdleRequest DEF Late

\* A secret comes without a token; a token that is let through is current.
LEMMA ActsInTime ==
  ASSUME IInv, NEW t \in Threads, NEW u \in Threads, Late(t),
         \/ Login(u) \/ Logout(u) \/ Recover(u) \/ RequestDeletion(u)
         \/ \E tenant \in Tenants : Authorize(u, tenant)
  PROVE  thread[t].token \notin revoked
<1>1. End(u) \/ Allow(u)
  BY DEF Login, Logout, Recover, RequestDeletion, Authorize
<1>2. t = u /\ Allow(u) /\ thread'[u] # Idle
  <2>1. t = u /\ Allow(u)
    BY <1>1, EndsQuietly
  <2>2. thread'[u].pc # "idle"
    BY <2>1 DEF Late
  <2>. QED BY <2>1, <2>2, IdleRequest
<1>3. ~End(u)
  BY <1>2, Known DEF End, ProcessTypes
<1>4. CASE Login(u) \/ Recover(u)
  <2>1. thread[u].action \in {"login", "recover"}
    BY <1>4 DEF Login, Recover, Acting
  <2>2. thread[u].token = 0
    BY <2>1, Known DEF ProcessesOK
  <2>3. revoked \subseteq 1 .. tokens /\ tokens \in Nat
    BY Known, IdentityAssumptions DEF SessionsOK, SessionTypes, Tokens
  <2>. QED BY <1>2, <2>2, <2>3
<1>5. CASE Logout(u) \/ RequestDeletion(u) \/ \E tenant \in Tenants : Authorize(u, tenant)
  <2>1. Principal(thread[u])
    BY <1>3, <1>5 DEF Logout, RequestDeletion, Authorize
  <2>. QED BY <1>2, <2>1, PrincipalFacts
<1>. QED BY <1>4, <1>5

LEMMA OnlyInTime ==
  ASSUME IInv, Next, NEW t \in Threads, Late(t)
  PROVE  thread[t].token \notin revoked
<1>1. ASSUME thread' = thread PROVE FALSE
  BY <1>1 DEF Late
<1>2. ASSUME NEW a \in Accounts,
             Provision(a) \/ \E granted \in SUBSET Tenants : Membership(a, granted)
      PROVE  FALSE
  BY <1>1, <1>2 DEF Provision, Membership
<1>3. ASSUME PolicyChanges \/ SessionExpires PROVE FALSE
  BY <1>1, <1>3 DEF PolicyChanges, SessionExpires
<1>4. ASSUME NEW w \in Workers, Work(w) PROVE FALSE
  BY <1>1, <1>4 DEF Work, Begin, Erase, Complete
<1>5. ASSUME Restart PROVE FALSE
  BY <1>5, RestartsQuietly
<1>6. ASSUME NEW u \in Threads, NEW n \in Generations,
             \/ \E a \in Accounts, p \in Peers, action \in {"login", "recover"} :
                  SendSecret(u, action, a, p, n)
             \/ \E token \in 1 .. MaxTokens, action \in {"authorize", "logout", "delete"} :
                  SendToken(u, action, token, n)
      PROVE  FALSE
  BY <1>6, SendsQuietly
<1>7. ASSUME NEW u \in Threads,
             Resolve(u) \/ \E ended \in SUBSET {k \in Keys : rates[k] > 0} : Limit(u, ended)
      PROVE  FALSE
  BY <1>7, ResolvesQuietly
<1>8. ASSUME NEW u \in Threads,
             \/ Login(u) \/ Logout(u) \/ Recover(u) \/ RequestDeletion(u)
             \/ \E tenant \in Tenants : Authorize(u, tenant)
      PROVE  thread[t].token \notin revoked
  BY <1>8, ActsInTime
<1>. QED BY <1>2, <1>3, <1>4, <1>5, <1>6, <1>7, <1>8 DEF Next

\* A request under a token that was revoked is never let through, wherever it was
\* between its transactions when that happened.
THEOREM RevokedStops == Spec => RevokedActNoMore
<1>1. IInv /\ [Next]_vars => [\A t \in Threads :
          thread[t].pc = "act" /\ thread'[t].pc = "allowed" => thread[t].token \notin revoked]_vars
  BY OnlyInTime DEF Late
<1>. QED BY <1>1, Invariance, PTL DEF Spec, RevokedActNoMore

=============================================================================
