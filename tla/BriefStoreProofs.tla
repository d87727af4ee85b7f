--------------------------- MODULE BriefStoreProofs ---------------------------
(* Theorems about BriefStore: for any briefs, commands, fields, texts and      *)
(* request threads, versions build on each other, human choices stay, a        *)
(* command runs the model once, and what an edit was told is so.               *)
(*                                                                             *)
(* A brief only grows and its versions never change, so whatever a request     *)
(* once read of it stays true.  What a request needs besides is told by its    *)
(* step (RequestOK, AttemptOK); of the locks only the one around create        *)
(* matters.                                                                    *)
EXTENDS BriefStore, TLAPS

\* ---- Types, by the part of the state ------------------------------------------

Row == [command : Commands, digest : Digest]

Attempt == [brief : Ideas \cup {Empty}, expected : Versions,
            status : {"none", "started", "failed", "done"}]

Request == [pc : Steps, command : Ideas \cup Edits \cup Suggests \cup {Empty},
            brief : Ideas \cup {Empty}, expected : Versions, fields : Contents,
            questions : SUBSET Asked, answers : SUBSET Fields, from : Versions]

Answer == [command : Edits, digest : Digest, verdict : {"ok", "differs", "newer", "invalid"}]

BriefTypes ==
  /\ missions \subseteq Ideas
  /\ briefs \in [Ideas -> Seq(Revision)] /\ \A i \in Ideas : Len(briefs[i]) <= MaxRevision
  /\ commands \subseteq Row /\ \A k, l \in commands : k.command = l.command => k = l

AttemptTypes ==
  /\ attempts \in [Suggests -> Attempt] /\ inferences \in [Suggests -> Nat]

LockTypes ==
  /\ coreLock \in Threads \cup {Nobody} /\ modelLock \in Threads \cup {Nobody}
  /\ \A t \in Threads : /\ thread[t].pc \in {"intake", "record"} <=> coreLock = t
                        /\ thread[t].pc = "infer" <=> modelLock = t

RequestTypes ==
  /\ thread \in [Threads -> Request]
  /\ requests \in 0 .. MaxRequests /\ faults \in 0 .. MaxFaults

LEMMA Types == TypeOK <=> /\ BriefTypes /\ AttemptTypes /\ LockTypes /\ RequestTypes
                          /\ told \subseteq Answer
BY DEF TypeOK, BriefTypes, AttemptTypes, LockTypes, RequestTypes, Row, Attempt, Request, Answer

\* ---- The inductive invariant ----------------------------------------------------

\* A version is made by a command on record, and by no other version's.
VersionsOK ==
  \A i \in Ideas : \A n \in DOMAIN briefs[i] :
    LET v == briefs[i][n]
    IN  /\ Known(v.command)
        /\ \A j \in Ideas : \A m \in DOMAIN briefs[j] :
             briefs[j][m].command = v.command => j = i /\ m = n
        /\ n = 1 => i \in missions /\ v.command = <<"create", i>>
        /\ n > 1 => /\ v.from = n - 1
                    /\ v.answered \subseteq briefs[i][n - 1].questions
                    /\ v.questions \cap v.answered = {}

\* Since version m a human wrote nothing.
Untouched(i, m, n) ==
  briefs[i][m].kind = "human_edited" /\ \A k \in m + 1 .. n : briefs[i][k].kind = "ai_proposal"

\* Until the next one, a human's version is what human_fields names.
HumanOK ==
  \A i \in Ideas : \A m, n \in DOMAIN briefs[i] :
    m <= n /\ Untouched(i, m, n) =>
      /\ briefs[i][n].human = Filled(briefs[i][m].fields)
      /\ \A f \in Filled(briefs[i][m].fields) :
           /\ briefs[i][n].fields[f] = briefs[i][m].fields[f]
           /\ m < n => f \notin briefs[i][n].questions

\* Edit e is a version as the digest says.
Saved(e, d) ==
  /\ d.expected + 1 \in DOMAIN briefs[d.brief]
  /\ LET v == briefs[d.brief][d.expected + 1]
     IN  v.command = <<"edit", e>> /\ v.fields = d.fields /\ v.answered = d.answers

\* Another command's version is where edit e wanted to be.
Overtaken(e, d) ==
  /\ d.expected + 1 \in DOMAIN briefs[d.brief]
  /\ briefs[d.brief][d.expected + 1].command # <<"edit", e>>

\* The rows of edits, and the answers to them, are what the versions are.
EditsOK ==
  /\ \A k \in commands, e \in Edits : k.command = <<"edit", e>> => Saved(e, k.digest)
  /\ \A a \in told : /\ a.verdict = "ok" => Saved(a.command, a.digest)
                     /\ a.verdict = "newer" => Overtaken(a.command, a.digest)

\* What was read of the brief, of the missions and of the commands.
RequestOK(r) ==
  /\ r.pc # "idle" => r.brief \in Ideas
  /\ r.pc = "record" => r.brief \in missions
  /\ r.pc \in {"edit", "save", "read"} => r.command \in Edits
  /\ r.pc \in {"edit", "save", "propose", "infer", "result"} =>
       r.expected >= 1 /\ r.expected <= Len(briefs[r.brief])
  /\ r.pc = "save" => /\ r.expected <= r.from /\ r.from <= Len(briefs[r.brief])
                      /\ r.questions \cap r.answers = {}
  /\ r.pc = "read" => Saved(r.command, DigestOf(r))
  /\ r.pc = "suggest" => r.command \in Suggests /\ r.answers = {}
  /\ r.pc \in {"propose", "infer", "result"} => r.from = r.expected /\ r.answers = {}
  /\ r.pc = "result" =>
       LET v == briefs[r.brief][r.expected]
       IN  \A f \in v.human : r.fields[f] = v.fields[f] /\ f \notin r.questions
  /\ r.pc \in {"reread", "done"} => Known(<<"result", r.command>>)

Suggesting == {"propose", "infer", "result", "reread", "done", "failed"}

\* An attempt that is under way, before and after its one inference.
AttemptOK(r) ==
  /\ r.pc \in Suggesting => r.command \in Suggests /\ attempts[r.command].status # "none"
  /\ r.pc = "propose" => inferences[r.command] = 0
  /\ r.pc \in {"infer", "result"} => inferences[r.command] = 1

RequestsOK == \A t \in Threads : RequestOK(thread[t]) /\ AttemptOK(thread[t])

\* An attempt is made by one request, once.
OneEach ==
  \A t, u \in Threads :
    {thread[t].pc, thread[u].pc} \subseteq Suggesting /\ thread[t].command = thread[u].command => t = u

AttemptsOK ==
  \A s \in Suggests :
    /\ inferences[s] <= 1
    /\ attempts[s].status = "none" => inferences[s] = 0
    /\ attempts[s].status = "done" => Known(<<"result", s>>)
    /\ Known(<<"result", s>>) => inferences[s] = 1 /\ attempts[s].status # "none"

\* Who holds core_lock creates what is not on record.
CreatesOK ==
  \A t \in Threads : thread[t].pc \in {"intake", "record"} => ~Known(<<"create", thread[t].brief>>)

IInv == TypeOK /\ VersionsOK /\ HumanOK /\ EditsOK /\ RequestsOK /\ OneEach /\ AttemptsOK /\ CreatesOK

LEMMA Parts ==
  ASSUME IInv
  PROVE  /\ BriefTypes /\ AttemptTypes /\ LockTypes /\ RequestTypes /\ told \subseteq Answer
         /\ VersionsOK /\ HumanOK /\ EditsOK /\ RequestsOK /\ OneEach /\ AttemptsOK /\ CreatesOK
BY Types DEF IInv

LEMMA Whole ==
  ASSUME BriefTypes', AttemptTypes', LockTypes', RequestTypes', (told \subseteq Answer)',
         VersionsOK', HumanOK', EditsOK', RequestsOK', OneEach', AttemptsOK', CreatesOK'
  PROVE  IInv'
<1>1. TypeOK' <=> (BriefTypes /\ AttemptTypes /\ LockTypes /\ RequestTypes /\ told \subseteq Answer)'
  BY Types, PTL
<1>. QED BY <1>1 DEF IInv

\* ---- How briefs grow ---------------------------------------------------------------

Grown ==
  /\ missions \subseteq missions' /\ commands \subseteq commands'
  /\ \A i \in Ideas : /\ Len(briefs[i]) \in Nat /\ Len(briefs'[i]) \in Nat
                      /\ Len(briefs[i]) <= Len(briefs'[i])
                      /\ \A n \in 1 .. Len(briefs[i]) : briefs'[i][n] = briefs[i][n]

AddVersion(i, v, d) ==
  /\ briefs' = [briefs EXCEPT ![i] = Append(briefs[i], v)]
  /\ commands' = commands \cup {[command |-> v.command, digest |-> d]}

LEMMA Lengths ==
  ASSUME BriefTypes, NEW i \in Ideas
  PROVE  /\ briefs[i] \in Seq(Revision) /\ Len(briefs[i]) \in 0 .. MaxRevision
         /\ DOMAIN briefs[i] = 1 .. Len(briefs[i])
         /\ \A n \in 1 .. Len(briefs[i]) : briefs[i][n] \in Revision
BY BriefAssumptions DEF BriefTypes

LEMMA Added ==
  ASSUME BriefTypes, NEW i \in Ideas, NEW v \in Revision, NEW d, AddVersion(i, v, d)
  PROVE  /\ briefs' \in [Ideas -> Seq(Revision)]
         /\ \A j \in Ideas \ {i} : briefs'[j] = briefs[j]
         /\ Len(briefs'[i]) = Len(briefs[i]) + 1
         /\ briefs'[i][Len(briefs[i]) + 1] = v
         /\ \A n \in 1 .. Len(briefs[i]) : briefs'[i][n] = briefs[i][n]
         /\ DOMAIN briefs'[i] = 1 .. Len(briefs[i]) + 1
<1>. DEFINE s == briefs[i]
<1>1. briefs \in [Ideas -> Seq(Revision)] /\ s \in Seq(Revision)
  BY DEF BriefTypes
<1>. HIDE DEF s
<1>2. /\ Append(s, v) \in Seq(Revision) /\ Len(Append(s, v)) = Len(s) + 1
      /\ Append(s, v)[Len(s) + 1] = v /\ \A n \in 1 .. Len(s) : Append(s, v)[n] = s[n]
      /\ DOMAIN Append(s, v) = 1 .. Len(s) + 1
  BY <1>1
<1>3. briefs' = [briefs EXCEPT ![i] = Append(s, v)]
  BY DEF AddVersion, s
<1>4. briefs'[i] = Append(s, v) /\ \A j \in Ideas \ {i} : briefs'[j] = briefs[j]
  BY <1>1, <1>3
<1>5. briefs' \in [Ideas -> Seq(Revision)]
  BY <1>1, <1>2, <1>3
<1>. QED BY <1>2, <1>4, <1>5 DEF s

LEMMA AddedGrows ==
  ASSUME BriefTypes, NEW i \in Ideas, NEW v \in Revision, NEW d, AddVersion(i, v, d),
         missions \subseteq missions'
  PROVE  Grown
<1>1. commands \subseteq commands'
  BY DEF AddVersion
<1>2. ASSUME NEW j \in Ideas
      PROVE  /\ Len(briefs[j]) \in Nat /\ Len(briefs'[j]) \in Nat
             /\ Len(briefs[j]) <= Len(briefs'[j])
             /\ \A n \in 1 .. Len(briefs[j]) : briefs'[j][n] = briefs[j][n]
  <2>1. Len(briefs[j]) \in Nat
    BY Lengths, BriefAssumptions
  <2>. QED BY <2>1, Added
<1>. QED BY <1>1, <1>2 DEF Grown

LEMMA AddedTypes ==
  ASSUME BriefTypes, NEW i \in Ideas, NEW v \in Revision, NEW d \in Digest, AddVersion(i, v, d),
         missions' \subseteq Ideas, ~Known(v.command), Len(briefs[i]) < MaxRevision
  PROVE  BriefTypes'
<1>. DEFINE row == [command |-> v.command, digest |-> d]
<1>1. row \in Row /\ row.command = v.command
  BY DEF Row, Revision
<1>2. commands' = commands \cup {row}
  BY DEF AddVersion
<1>. HIDE DEF row
<1>3. commands' \subseteq Row /\ \A k, l \in commands' : k.command = l.command => k = l
  BY <1>1, <1>2 DEF BriefTypes, Known
<1>4. \A j \in Ideas : Len(briefs'[j]) <= MaxRevision
  <2>1. \A j \in Ideas : Len(briefs[j]) \in 0 .. MaxRevision
    BY Lengths
  <2>. QED BY <2>1, Added, BriefAssumptions
<1>. QED BY <1>3, <1>4, Added DEF BriefTypes

LEMMA StillKnown ==
  ASSUME Grown, NEW c, Known(c)
  PROVE  Known(c)'
BY DEF Grown, Known

LEMMA SavedStays ==
  ASSUME BriefTypes, BriefTypes', Grown, NEW e, NEW d \in Digest
  PROVE  /\ Saved(e, d) => Saved(e, d)'
         /\ Overtaken(e, d) => Overtaken(e, d)'
<1>1. d.brief \in Ideas /\ d.expected \in Nat
  BY BriefAssumptions DEF Digest, Versions
<1>2. DOMAIN briefs[d.brief] = 1 .. Len(briefs[d.brief])
  BY <1>1, Lengths
<1>3. DOMAIN briefs'[d.brief] = 1 .. Len(briefs'[d.brief])
  BY <1>1 DEF BriefTypes
<1>4. d.expected + 1 \in DOMAIN briefs[d.brief] =>
        /\ d.expected + 1 \in DOMAIN briefs'[d.brief]
        /\ briefs'[d.brief][d.expected + 1] = briefs[d.brief][d.expected + 1]
  BY <1>1, <1>2, <1>3 DEF Grown
<1>. QED BY <1>4 DEF Saved, Overtaken

LEMMA DigestTypes ==
  ASSUME NEW r \in Request, r.brief \in Ideas
  PROVE  /\ DigestOf(r) \in Digest /\ DigestOf(r).brief = r.brief
         /\ DigestOf(r).expected = r.expected /\ DigestOf(r).fields = r.fields
         /\ DigestOf(r).answers = r.answers /\ DigestOf(r).questions = r.questions
BY DEF Request, DigestOf, Digest

\* What a request knows stays true.
LEMMA RequestStays ==
  ASSUME BriefTypes, BriefTypes', Grown, NEW r \in Request, RequestOK(r)
  PROVE  RequestOK(r)'
<1>1. r.pc # "idle" => r.brief \in Ideas
  BY DEF RequestOK
<1>2. CASE r.pc = "idle"
  BY <1>2 DEF RequestOK
<1>3. CASE r.pc # "idle"
  <2>1. /\ r.brief \in Ideas /\ r.expected \in Nat /\ r.from \in Nat
        /\ Len(briefs[r.brief]) \in Nat /\ Len(briefs'[r.brief]) \in Nat
        /\ Len(briefs[r.brief]) <= Len(briefs'[r.brief])
        /\ \A n \in 1 .. Len(briefs[r.brief]) : briefs'[r.brief][n] = briefs[r.brief][n]
    BY <1>1, <1>3, BriefAssumptions DEF Grown, Request, Versions
  <2>2. DigestOf(r) \in Digest
    BY <2>1, DigestTypes
  <2>3. Saved(r.command, DigestOf(r)) => Saved(r.command, DigestOf(r))'
    BY <2>2, SavedStays
  <2>4. Known(<<"result", r.command>>) => Known(<<"result", r.command>>)'
    BY StillKnown
  <2>5. r.brief \in missions => r.brief \in missions'
    BY DEF Grown
  <2>6. r.pc \in {"edit", "save", "propose", "infer", "result"} =>
          r.expected >= 1 /\ r.expected <= Len(briefs'[r.brief])
    BY <2>1 DEF RequestOK
  <2>7. r.pc = "save" => /\ r.expected <= r.from /\ r.from <= Len(briefs'[r.brief])
                         /\ r.questions \cap r.answers = {}
    BY <2>1 DEF RequestOK
  <2>8. r.pc = "result" =>
          LET v == briefs'[r.brief][r.expected]
          IN  \A f \in v.human : r.fields[f] = v.fields[f] /\ f \notin r.questions
    BY <2>1 DEF RequestOK
  <2>. QED BY <2>1, <2>3, <2>4, <2>5, <2>6, <2>7, <2>8 DEF RequestOK
<1>. QED BY <1>2, <1>3

\* ---- What a new version has to be ------------------------------------------------------

LEMMA GrownAlike ==
  ASSUME BriefTypes, UNCHANGED <<briefs, commands>>, missions \subseteq missions'
  PROVE  Grown
<1>1. ASSUME NEW i \in Ideas PROVE Len(briefs[i]) \in Nat
  BY Lengths, BriefAssumptions
<1>. QED BY <1>1 DEF Grown

LEMMA VersionsStay ==
  ASSUME IInv, UNCHANGED <<briefs, commands>>, missions \subseteq missions', missions' \subseteq Ideas
  PROVE  BriefTypes' /\ VersionsOK' /\ HumanOK' /\ Grown
<1>1. BriefTypes'
  BY Parts DEF BriefTypes
<1>2. VersionsOK'
  BY Parts DEF VersionsOK, Known
<1>3. HumanOK'
  BY Parts DEF HumanOK, Untouched
<1>. QED BY <1>1, <1>2, <1>3, GrownAlike, Parts

LEMMA VersionsAdded ==
  ASSUME IInv, BriefTypes', NEW i \in Ideas, NEW v \in Revision, NEW d, AddVersion(i, v, d),
         missions' = missions, ~Known(v.command),
         Len(briefs[i]) = 0 => i \in missions /\ v.command = <<"create", i>>,
         Len(briefs[i]) > 0 => /\ v.from = Len(briefs[i])
                               /\ v.answered \subseteq briefs[i][Len(briefs[i])].questions
                               /\ v.questions \cap v.answered = {}
  PROVE  VersionsOK'
<1>. DEFINE N == Len(briefs[i])
<1>1. BriefTypes /\ VersionsOK
  BY Parts
<1>2. /\ \A j \in Ideas \ {i} : briefs'[j] = briefs[j]
      /\ briefs'[i][N + 1] = v /\ \A n \in 1 .. N : briefs'[i][n] = briefs[i][n]
      /\ DOMAIN briefs'[i] = 1 .. N + 1 /\ DOMAIN briefs[i] = 1 .. N /\ N \in Nat
  BY <1>1, Added, Lengths, BriefAssumptions
<1>3. \A c : Known(c) => \E k \in commands' : k.command = c
  BY <1>1, AddedGrows DEF Grown, Known
<1>4. \E k \in commands' : k.command = v.command
  <2>. DEFINE row == [command |-> v.command, digest |-> d]
  <2>1. row \in commands' /\ row.command = v.command
    BY DEF AddVersion
  <2>. HIDE DEF row
  <2>. QED BY <2>1
\* A version is old, or it is v.
<1>5. ASSUME NEW j \in Ideas, NEW n \in DOMAIN briefs'[j]
      PROVE  \/ n \in DOMAIN briefs[j] /\ briefs'[j][n] = briefs[j][n] /\ (j = i => n <= N)
             \/ j = i /\ n = N + 1 /\ briefs'[j][n] = v
  <2>1. CASE j # i
    BY <2>1, <1>2
  <2>2. CASE j = i
    BY <2>2, <1>2
  <2>. QED BY <2>1, <2>2
<1>6. \A j \in Ideas : \A n \in DOMAIN briefs[j] : briefs[j][n].command # v.command
  BY <1>1 DEF VersionsOK
<1>7. \A j, k \in Ideas : \A n \in DOMAIN briefs'[j], m \in DOMAIN briefs'[k] :
        briefs'[k][m].command = briefs'[j][n].command => k = j /\ m = n
  <2>. SUFFICES ASSUME NEW j \in Ideas, NEW k \in Ideas, NEW n \in DOMAIN briefs'[j],
                       NEW m \in DOMAIN briefs'[k], briefs'[k][m].command = briefs'[j][n].command
                PROVE  k = j /\ m = n
    OBVIOUS
  <2>1. CASE n \in DOMAIN briefs[j] /\ briefs'[j][n] = briefs[j][n]
    <3>1. CASE m \in DOMAIN briefs[k] /\ briefs'[k][m] = briefs[k][m]
      BY <2>1, <3>1, <1>1 DEF VersionsOK
    <3>2. CASE briefs'[k][m] = v
      BY <2>1, <3>2, <1>6
    <3>. QED BY <3>1, <3>2, <1>5
  <2>2. CASE j = i /\ n = N + 1 /\ briefs'[j][n] = v
    <3>1. CASE m \in DOMAIN briefs[k] /\ briefs'[k][m] = briefs[k][m]
      BY <2>2, <3>1, <1>6
    <3>2. CASE k = i /\ m = N + 1
      BY <2>2, <3>2
    <3>. QED BY <3>1, <3>2, <1>5
  <2>. QED BY <2>1, <2>2, <1>5
<1>8. ASSUME NEW j \in Ideas, NEW n \in DOMAIN briefs'[j]
      PROVE  LET w == briefs'[j][n]
             IN  /\ \E k \in commands' : k.command = w.command
                 /\ n = 1 => j \in missions' /\ w.command = <<"create", j>>
                 /\ n > 1 => /\ w.from = n - 1
                             /\ w.answered \subseteq briefs'[j][n - 1].questions
                             /\ w.questions \cap w.answered = {}
  <2>1. CASE n \in DOMAIN briefs[j] /\ briefs'[j][n] = briefs[j][n] /\ (j = i => n <= N)
    <3>1. DOMAIN briefs[j] = 1 .. Len(briefs[j]) /\ Len(briefs[j]) \in Nat
      BY <1>1, Lengths, BriefAssumptions
    <3>2. n > 1 => n - 1 \in 1 .. Len(briefs[j]) /\ briefs'[j][n - 1] = briefs[j][n - 1]
      <4>1. n > 1 => n - 1 \in 1 .. Len(briefs[j])
        BY <2>1, <3>1
      <4>2. CASE j = i
        BY <4>1, <4>2, <1>2
      <4>3. CASE j # i
        BY <4>1, <4>3, <1>2
      <4>. QED BY <4>2, <4>3
    <3>3. \E k \in commands' : k.command = briefs[j][n].command
      BY <2>1, <1>1, <1>3 DEF VersionsOK
    <3>. QED BY <2>1, <3>2, <3>3, <1>1 DEF VersionsOK
  <2>2. CASE j = i /\ n = N + 1 /\ briefs'[j][n] = v
    <3>1. n - 1 = N /\ (n = 1 => N = 0) /\ (n > 1 => N > 0 /\ N \in 1 .. N)
      BY <2>2, <1>2
    <3>2. n > 1 => briefs'[j][n - 1] = briefs[i][N]
      BY <2>2, <3>1, <1>2
    <3>. HIDE DEF N
    <3>3. n = 1 => j \in missions' /\ v.command = <<"create", j>>
      BY <2>2, <3>1 DEF N
    <3>4. n > 1 => /\ v.from = n - 1 /\ v.answered \subseteq briefs[i][N].questions
                   /\ v.questions \cap v.answered = {}
      BY <3>1 DEF N
    <3>. QED BY <2>2, <3>2, <3>3, <3>4, <1>4
  <2>. QED BY <2>1, <2>2, <1>5
<1>. QED BY <1>7, <1>8 DEF VersionsOK, Known

LEMMA HumanAdded ==
  ASSUME IInv, NEW i \in Ideas, NEW v \in Revision, NEW d, AddVersion(i, v, d),
         v.kind = "human_edited" => v.human = Filled(v.fields),
         v.kind = "ai_proposal" =>
           LET w == briefs[i][Len(briefs[i])]
           IN  v.human = w.human /\ \A f \in w.human : v.fields[f] = w.fields[f] /\ f \notin v.questions
  PROVE  HumanOK'
<1>. DEFINE N == Len(briefs[i])
<1>1. BriefTypes /\ HumanOK
  BY Parts
<1>2. /\ \A j \in Ideas \ {i} : briefs'[j] = briefs[j]
      /\ briefs'[i][N + 1] = v /\ \A n \in 1 .. N : briefs'[i][n] = briefs[i][n]
      /\ DOMAIN briefs'[i] = 1 .. N + 1 /\ DOMAIN briefs[i] = 1 .. N /\ N \in Nat
  BY <1>1, Added, Lengths, BriefAssumptions
<1>. SUFFICES ASSUME NEW j \in Ideas, NEW m \in DOMAIN briefs'[j], NEW n \in DOMAIN briefs'[j],
                     m <= n, Untouched(j, m, n)'
              PROVE  /\ briefs'[j][n].human = Filled(briefs'[j][m].fields)
                     /\ \A f \in Filled(briefs'[j][m].fields) :
                          /\ briefs'[j][n].fields[f] = briefs'[j][m].fields[f]
                          /\ m < n => f \notin briefs'[j][n].questions
  BY DEF HumanOK
<1>3. CASE j # i
  <2>1. briefs'[j] = briefs[j]
    BY <1>2, <1>3
  <2>2. Untouched(j, m, n) /\ m \in DOMAIN briefs[j] /\ n \in DOMAIN briefs[j]
    BY <2>1 DEF Untouched
  <2>. QED BY <1>1, <2>1, <2>2 DEF HumanOK
<1>4. CASE j = i /\ n <= N
  <2>1. m \in 1 .. N /\ n \in 1 .. N
    BY <1>2, <1>4
  <2>2. \A k \in m .. n : briefs'[i][k] = briefs[i][k]
    BY <1>2, <2>1
  <2>3. Untouched(i, m, n)
    BY <1>4, <2>1, <2>2 DEF Untouched
  <2>. QED BY <1>1, <1>2, <1>4, <2>1, <2>3 DEF HumanOK
<1>5. CASE j = i /\ n = N + 1 /\ m = N + 1
  BY <1>2, <1>5 DEF Untouched
<1>6. CASE j = i /\ n = N + 1 /\ m <= N
  <2>1. m \in 1 .. N /\ N \in 1 .. N /\ N + 1 \in m + 1 .. n /\ N + 1 \notin 1 .. N
    BY <1>2, <1>6
  <2>2. briefs'[i][m] = briefs[i][m] /\ \A k \in m + 1 .. N : briefs'[i][k] = briefs[i][k]
    BY <1>2, <2>1
  <2>3. v.kind = "ai_proposal"
    BY <1>2, <1>6, <2>1 DEF Untouched
  <2>4. Untouched(i, m, N)
    BY <1>6, <2>1, <2>2 DEF Untouched
  <2>5. /\ briefs[i][N].human = Filled(briefs[i][m].fields)
        /\ \A f \in Filled(briefs[i][m].fields) : briefs[i][N].fields[f] = briefs[i][m].fields[f]
    BY <1>1, <1>2, <2>1, <2>4 DEF HumanOK
  <2>. QED BY <1>2, <1>6, <2>2, <2>3, <2>5
<1>. QED BY <1>2, <1>3, <1>4, <1>5, <1>6

\* ---- What a step does to requests, rows of edits and locks -------------------------------

LEMMA EditsKept ==
  ASSUME IInv, BriefTypes', Grown,
         \A k \in commands' \ commands : \A e \in Edits :
           k.command = <<"edit", e>> => Saved(e, k.digest)',
         \A a \in told' \ told : /\ a.verdict = "ok" => Saved(a.command, a.digest)'
                                 /\ a.verdict = "newer" => Overtaken(a.command, a.digest)'
  PROVE  EditsOK'
<1>1. /\ BriefTypes /\ \A k \in commands : k.digest \in Digest
      /\ \A a \in told : a.digest \in Digest
  BY Parts DEF BriefTypes, Row, Answer
<1>2. ASSUME NEW k \in commands', NEW e \in Edits, k.command = <<"edit", e>>
      PROVE  Saved(e, k.digest)'
  <2>1. CASE k \in commands
    <3>1. Saved(e, k.digest)
      BY <1>2, <2>1, Parts DEF EditsOK
    <3>2. PICK d \in Digest : d = k.digest
      BY <1>1, <2>1
    <3>3. Saved(e, d) => Saved(e, d)'
      BY <1>1, SavedStays
    <3>. QED BY <3>1, <3>2, <3>3
  <2>. QED BY <1>2, <2>1
<1>3. ASSUME NEW a \in told'
      PROVE  /\ a.verdict = "ok" => Saved(a.command, a.digest)'
             /\ a.verdict = "newer" => Overtaken(a.command, a.digest)'
  <2>1. CASE a \in told
    <3>1. a.digest \in Digest
      BY <1>1, <2>1
    <3>2. /\ Saved(a.command, a.digest) => Saved(a.command, a.digest)'
          /\ Overtaken(a.command, a.digest) => Overtaken(a.command, a.digest)'
      BY <1>1, <3>1, SavedStays
    <3>. QED BY <2>1, <3>2, Parts DEF EditsOK
  <2>. QED BY <1>3, <2>1
<1>. QED BY <1>2, <1>3 DEF EditsOK

\* Request t becomes r; the others keep what they know.
LEMMA RequestMoves ==
  ASSUME IInv, BriefTypes', Grown, NEW t \in Threads, NEW r \in Request,
         thread' = [thread EXCEPT ![t] = r], RequestOK(r)', AttemptOK(r)',
         requests' \in 0 .. MaxRequests, faults' \in 0 .. MaxFaults,
         \A u \in Threads \ {t} : thread[u].pc \in Suggesting =>
           /\ attempts'[thread[u].command].status # "none"
           /\ inferences'[thread[u].command] = inferences[thread[u].command]
           /\ r.pc \in Suggesting => thread[u].command # r.command
  PROVE  RequestTypes' /\ RequestsOK' /\ OneEach'
<1>1. thread \in [Threads -> Request]
  BY Parts DEF RequestTypes
<1>2. thread'[t] = r /\ \A u \in Threads \ {t} : thread'[u] = thread[u]
  BY <1>1
<1>3. RequestTypes'
  BY <1>1 DEF RequestTypes
<1>4. ASSUME NEW u \in Threads \ {t} PROVE RequestOK(thread[u])' /\ AttemptOK(thread[u])'
  <2>1. PICK q \in Request : q = thread[u]
    BY <1>1
  <2>2. thread'[u] = q
    BY <1>2, <2>1
  <2>3. RequestOK(q) /\ AttemptOK(q)
    BY <2>1, Parts DEF RequestsOK
  <2>4. RequestOK(q)'
    BY <2>3, RequestStays, Parts
  <2>5. q.pc \in Suggesting => /\ attempts'[q.command].status # "none"
                               /\ inferences'[q.command] = inferences[q.command]
    BY <2>1
  <2>6. AttemptOK(q)'
    BY <2>3, <2>5 DEF AttemptOK, Suggesting
  <2>. QED BY <2>2, <2>4, <2>6
<1>5. RequestOK(thread[t])' /\ AttemptOK(thread[t])'
  BY <1>2
<1>6. RequestsOK'
  BY <1>4, <1>5 DEF RequestsOK
<1>7. ASSUME NEW u \in Threads, NEW w \in Threads,
             {thread'[u].pc, thread'[w].pc} \subseteq Suggesting, thread'[u].command = thread'[w].command
      PROVE  u = w
  <2>1. CASE u # t /\ w # t
    BY <1>2, <1>7, <2>1, Parts DEF OneEach
  <2>. QED BY <1>2, <1>7, <2>1
<1>. QED BY <1>3, <1>6, <1>7 DEF OneEach

LEMMA CreatesKept ==
  ASSUME IInv, NEW t \in Threads, NEW r \in Request, thread' = [thread EXCEPT ![t] = r],
         r.pc \in {"intake", "record"} => ~Known(<<"create", r.brief>>)',
         \/ commands' = commands \/ thread[t].pc = "record"
         \/ \E k : commands' = commands \cup {k} /\ k.command[1] # "create"
  PROVE  CreatesOK'
<1>1. thread'[t] = r /\ \A u \in Threads \ {t} : thread'[u] = thread[u]
  BY Parts DEF RequestTypes
<1>2. ASSUME NEW u \in Threads \ {t}, thread[u].pc \in {"intake", "record"}
      PROVE  ~Known(<<"create", thread[u].brief>>)'
  <2>1. ~Known(<<"create", thread[u].brief>>)
    BY <1>2, Parts DEF CreatesOK
  <2>2. thread[t].pc # "record"
    BY <1>2, Parts DEF LockTypes
  <2>3. CASE commands' = commands
    BY <1>1, <2>1, <2>3 DEF Known
  <2>4. ASSUME NEW k, commands' = commands \cup {k}, k.command[1] # "create"
        PROVE  ~Known(<<"create", thread[u].brief>>)'
    BY <1>1, <2>1, <2>4 DEF Known
  <2>. QED BY <2>2, <2>3, <2>4
<1>. QED BY <1>1, <1>2 DEF CreatesOK

LEMMA LocksMove ==
  ASSUME IInv, NEW t \in Threads, NEW r \in Request, thread' = [thread EXCEPT ![t] = r],
         IF r.pc \in {"intake", "record"} THEN coreLock \in {Nobody, t} /\ coreLock' = t
         ELSE coreLock' = IF coreLock = t THEN Nobody ELSE coreLock,
         IF r.pc = "infer" THEN modelLock \in {Nobody, t} /\ modelLock' = t
         ELSE modelLock' = IF modelLock = t THEN Nobody ELSE modelLock
  PROVE  LockTypes'
<1>1. thread'[t] = r /\ \A u \in Threads \ {t} : thread'[u] = thread[u]
  BY Parts DEF RequestTypes
<1>2. LockTypes /\ Nobody \notin Threads
  BY Parts, BriefAssumptions DEF Nobody
<1>. QED BY <1>1, <1>2 DEF LockTypes

\* ---- Actions ---------------------------------------------------------------------------

\* A step of request t that may write a mission.
LEMMA DraftMove ==
  ASSUME IInv, NEW t \in Threads, NEW r \in Request, thread' = [thread EXCEPT ![t] = r],
         UNCHANGED <<briefs, commands, attempts, inferences, told>>, LockTypes',
         missions \subseteq missions', missions' \subseteq Ideas,
         requests' \in 0 .. MaxRequests, faults' \in 0 .. MaxFaults,
         RequestOK(r)', AttemptOK(r),
         r.pc \in Suggesting => thread[t].pc \in Suggesting /\ r.command = thread[t].command,
         r.pc \in {"intake", "record"} => ~Known(<<"create", r.brief>>)
  PROVE  IInv'
<1>1. BriefTypes' /\ VersionsOK' /\ HumanOK' /\ Grown
  BY VersionsStay
<1>2. EditsOK'
  BY <1>1, EditsKept
<1>3. AttemptOK(r)'
  BY DEF AttemptOK
<1>4. \A u \in Threads \ {t} : thread[u].pc \in Suggesting =>
        /\ attempts'[thread[u].command].status # "none"
        /\ inferences'[thread[u].command] = inferences[thread[u].command]
        /\ r.pc \in Suggesting => thread[u].command # r.command
  BY Parts DEF RequestsOK, AttemptOK, OneEach
<1>5. RequestTypes' /\ RequestsOK' /\ OneEach'
  BY <1>1, <1>3, <1>4, RequestMoves
<1>6. CreatesOK'
  BY CreatesKept DEF Known
<1>7. AttemptTypes' /\ AttemptsOK' /\ (told \subseteq Answer)'
  BY Parts DEF AttemptTypes, AttemptsOK, Known
<1>. QED BY <1>1, <1>2, <1>5, <1>6, <1>7, Whole

\* A step of request t that writes nothing.
LEMMA QuietMove ==
  ASSUME IInv, NEW t \in Threads, NEW r \in Request, thread' = [thread EXCEPT ![t] = r],
         UNCHANGED <<database, history>>, LockTypes',
         requests' \in 0 .. MaxRequests, faults' \in 0 .. MaxFaults,
         RequestOK(r), AttemptOK(r),
         r.pc \in Suggesting => thread[t].pc \in Suggesting /\ r.command = thread[t].command,
         r.pc \in {"intake", "record"} => ~Known(<<"create", r.brief>>)
  PROVE  IInv'
<1>1. UNCHANGED <<missions, briefs, commands, attempts, inferences, told>>
  BY DEF database, history
<1>2. missions \subseteq missions' /\ missions' \subseteq Ideas
  BY <1>1, Parts DEF BriefTypes
<1>3. RequestOK(r)'
  BY <1>1, <1>2, RequestStays, VersionsStay, Parts
<1>. QED BY <1>1, <1>2, <1>3, DraftMove

LEMMA IdleRequest ==
  /\ Idle \in Request /\ Idle.pc = "idle" /\ Idle.answers = {}
  /\ RequestOK(Idle) /\ AttemptOK(Idle)
<1>1. Blank \in Contents
  BY BriefAssumptions DEF Blank, Contents
<1>2. Idle \in Request /\ Idle.pc = "idle" /\ Idle.answers = {}
  BY <1>1, BriefAssumptions DEF Idle, Request, Steps, Versions
<1>. QED BY <1>2 DEF RequestOK, AttemptOK, Suggesting

\* A step of request t that takes and gives back no lock.
LEMMA UnlockedMove ==
  ASSUME IInv, NEW t \in Threads, NEW r \in Request, thread' = [thread EXCEPT ![t] = r],
         UNCHANGED <<coreLock, modelLock>>,
         thread[t].pc \notin {"intake", "record", "infer"}, r.pc \notin {"intake", "record", "infer"}
  PROVE  LockTypes'
<1>1. coreLock # t /\ modelLock # t
  BY Parts DEF LockTypes
<1>. QED BY <1>1, LocksMove

LEMMA ArriveStep ==
  ASSUME IInv, NEW t \in Threads, NEW r \in Request, Arrive(t, r), RequestOK(r), AttemptOK(r),
         r.pc \notin Suggesting \cup {"intake", "record", "infer"}
  PROVE  IInv'
<1>1. /\ thread' = [thread EXCEPT ![t] = r] /\ requests < MaxRequests /\ requests' = requests + 1
      /\ UNCHANGED <<database, coreLock, modelLock, history, faults>> /\ thread[t].pc = "idle"
  BY DEF Arrive
<1>2. requests' \in 0 .. MaxRequests /\ faults' \in 0 .. MaxFaults
  BY <1>1, Parts, BriefAssumptions DEF RequestTypes
<1>3. LockTypes'
  BY <1>1, UnlockedMove
<1>. QED BY <1>1, <1>2, <1>3, QuietMove

CreateRequest(i) == [Idle EXCEPT !.pc = "create", !.command = i, !.brief = i]

EditRequest(e, i, expected, fields, answers) ==
  [Idle EXCEPT !.pc = "edit", !.command = e, !.brief = i, !.expected = expected,
               !.fields = fields, !.answers = answers]

SuggestRequest(s, i, expected) ==
  [Idle EXCEPT !.pc = "suggest", !.command = s, !.brief = i, !.expected = expected]

LEMMA SentCreate ==
  ASSUME NEW i \in Ideas
  PROVE  LET r == CreateRequest(i) IN r \in Request /\ r.pc = "create" /\ r.brief = i
BY IdleRequest DEF CreateRequest, Request, Steps

LEMMA SentEdit ==
  ASSUME NEW e \in Edits, NEW i \in Ideas, NEW v \in Versions, NEW fields \in Contents,
         NEW answers \in SUBSET Fields
  PROVE  LET r == EditRequest(e, i, v, fields, answers)
         IN  /\ r \in Request /\ r.pc = "edit" /\ r.command = e /\ r.brief = i
             /\ r.expected = v
BY IdleRequest DEF EditRequest, Request, Steps

LEMMA SentSuggest ==
  ASSUME NEW s \in Suggests, NEW i \in Ideas, NEW v \in Versions
  PROVE  LET r == SuggestRequest(s, i, v)
         IN  /\ r \in Request /\ r.pc = "suggest" /\ r.command = s /\ r.brief = i
             /\ r.expected = v /\ r.answers = {}
BY IdleRequest DEF SuggestRequest, Request, Steps

LEMMA SendStep ==
  ASSUME IInv, NEW t \in Threads, NEW i \in Ideas,
         \/ SendCreate(t, i)
         \/ \E e \in Edits, v \in 1 .. MaxRevision, fields \in Texts, a \in SUBSET Asked :
              SendEdit(t, e, i, v, fields, a)
         \/ \E s \in Suggests, v \in 1 .. MaxRevision : SendSuggest(t, s, i, v)
  PROVE  IInv'
<1>1. CASE SendCreate(t, i)
  <2>1. Arrive(t, CreateRequest(i))
    BY <1>1 DEF SendCreate, CreateRequest
  <2>2. RequestOK(CreateRequest(i)) /\ AttemptOK(CreateRequest(i))
    BY SentCreate DEF RequestOK, AttemptOK, Suggesting
  <2>. QED BY <2>1, <2>2, SentCreate, ArriveStep DEF Suggesting
<1>2. ASSUME NEW e \in Edits, NEW v \in 1 .. MaxRevision, NEW fields \in Texts,
             NEW a \in SUBSET Asked, SendEdit(t, e, i, v, fields, a)
      PROVE  IInv'
  <2>. DEFINE r == EditRequest(e, i, v, fields, a)
  <2>1. Arrive(t, r) /\ v <= Len(briefs[i])
    BY <1>2 DEF SendEdit, EditRequest
  <2>2. v \in Versions /\ v >= 1 /\ fields \in Contents /\ a \in SUBSET Fields
    BY BriefAssumptions DEF Versions, Contents
  <2>3. r \in Request /\ r.pc = "edit" /\ r.command = e /\ r.brief = i /\ r.expected = v
    BY <2>2, SentEdit
  <2>. HIDE DEF r
  <2>4. RequestOK(r) /\ AttemptOK(r)
    BY <2>1, <2>2, <2>3 DEF RequestOK, AttemptOK, Suggesting
  <2>. QED BY <2>1, <2>3, <2>4, ArriveStep DEF Suggesting
<1>3. ASSUME NEW s \in Suggests, NEW v \in 1 .. MaxRevision, SendSuggest(t, s, i, v)
      PROVE  IInv'
  <2>. DEFINE r == SuggestRequest(s, i, v)
  <2>1. Arrive(t, r)
    BY <1>3 DEF SendSuggest, SuggestRequest
  <2>2. v \in Versions
    BY BriefAssumptions DEF Versions
  <2>3. r \in Request /\ r.pc = "suggest" /\ r.command = s /\ r.brief = i /\ r.answers = {}
    BY <2>2, SentSuggest
  <2>. HIDE DEF r
  <2>4. RequestOK(r) /\ AttemptOK(r)
    BY <2>3 DEF RequestOK, AttemptOK, Suggesting
  <2>. QED BY <2>1, <2>3, <2>4, ArriveStep DEF Suggesting
<1>. QED BY <1>1, <1>2, <1>3

\* Request r at another step.
At(r, pc) == [r EXCEPT !.pc = pc]

LEMMA AtTypes ==
  ASSUME NEW r \in Request, NEW pc \in Steps
  PROVE  LET q == At(r, pc)
         IN  /\ q \in Request /\ q.pc = pc /\ q.command = r.command /\ q.brief = r.brief
             /\ q.expected = r.expected /\ q.fields = r.fields /\ q.questions = r.questions
             /\ q.answers = r.answers /\ q.from = r.from /\ DigestOf(q) = DigestOf(r)
BY DEF At, Request, DigestOf

LEMMA Goes ==
  ASSUME IInv, NEW t \in Threads, NEW pc, Goto(t, pc)
  PROVE  thread' = [thread EXCEPT ![t] = At(thread[t], pc)]
BY Parts DEF Goto, At, RequestTypes

LEMMA Counters ==
  ASSUME IInv
  PROVE  /\ requests \in 0 .. MaxRequests /\ faults \in 0 .. MaxFaults
         /\ \A t \in Threads : thread[t] \in Request /\ RequestOK(thread[t]) /\ AttemptOK(thread[t])
BY Parts DEF RequestTypes, RequestsOK

\* Request t ends, without a word.
LEMMA EndStep ==
  ASSUME IInv, NEW t \in Threads, End(t), thread[t].pc \notin {"intake", "record", "infer"},
         UNCHANGED <<database, coreLock, modelLock, history, requests, faults>>
  PROVE  IInv'
<1>1. thread' = [thread EXCEPT ![t] = Idle]
  BY DEF End
<1>2. LockTypes'
  BY <1>1, UnlockedMove, IdleRequest
<1>. QED BY <1>1, <1>2, QuietMove, IdleRequest, Counters DEF Suggesting

LEMMA CreateLockedStep ==
  ASSUME IInv, NEW t \in Threads, CreateLocked(t)
  PROVE  IInv'
<1>. DEFINE r == thread[t]
            q == At(r, "intake")
<1>1. /\ r.pc = "create" /\ coreLock = Nobody
      /\ UNCHANGED <<database, modelLock, history, requests, faults>>
  BY DEF CreateLocked
<1>2. CASE Known(<<"create", r.brief>>)
  <2>1. End(t) /\ UNCHANGED coreLock
    BY <1>2 DEF CreateLocked
  <2>. QED BY <1>1, <2>1, EndStep
<1>3. CASE ~Known(<<"create", r.brief>>)
  <2>1. Goto(t, "intake") /\ coreLock' = t
    BY <1>3 DEF CreateLocked
  <2>2. q \in Request /\ q.pc = "intake" /\ q.brief = r.brief /\ thread' = [thread EXCEPT ![t] = q]
    BY <2>1, Goes, AtTypes, Counters DEF Steps
  <2>3. r.brief \in Ideas /\ modelLock # t
    BY <1>1, Counters, Parts DEF RequestOK, LockTypes
  <2>. HIDE DEF q
  <2>4. RequestOK(q) /\ AttemptOK(q) /\ q.pc \notin Suggesting
    BY <2>2, <2>3 DEF RequestOK, AttemptOK, Suggesting
  <2>5. LockTypes'
    BY <1>1, <2>1, <2>2, <2>3, LocksMove
  <2>. QED BY <1>1, <1>3, <2>2, <2>4, <2>5, QuietMove, Counters
<1>. QED BY <1>2, <1>3

LEMMA IntakeStep ==
  ASSUME IInv, NEW t \in Threads, Intake(t)
  PROVE  IInv'
<1>. DEFINE r == thread[t]
<1>1. /\ r.pc = "intake" /\ missions' = missions \cup {r.brief} /\ Goto(t, "record")
      /\ UNCHANGED <<briefs, commands, attempts, coreLock, modelLock, history, requests, faults>>
  BY DEF Intake
<1>2. PICK q \in Request :
        q.pc = "record" /\ q.brief = r.brief /\ thread' = [thread EXCEPT ![t] = q]
  BY <1>1, Goes, AtTypes, Counters DEF Steps
<1>3. /\ r.brief \in Ideas /\ ~Known(<<"create", r.brief>>) /\ coreLock = t /\ modelLock # t
      /\ missions \subseteq missions' /\ missions' \subseteq Ideas /\ r.brief \in missions'
  BY <1>1, Counters, Parts DEF RequestOK, LockTypes, CreatesOK, BriefTypes
<1>4. RequestOK(q)' /\ AttemptOK(q) /\ q.pc \notin Suggesting
  BY <1>2, <1>3 DEF RequestOK, AttemptOK, Suggesting
<1>5. LockTypes'
  BY <1>1, <1>2, <1>3, LocksMove
<1>. QED BY <1>1, <1>2, <1>3, <1>4, <1>5, DraftMove, Counters DEF history

EditReadAt(r, n, q) == [r EXCEPT !.pc = "save", !.from = n, !.questions = q]

LEMMA EditReadTypes ==
  ASSUME NEW r \in Request, NEW n \in Versions, NEW q \in SUBSET Asked
  PROVE  LET s == EditReadAt(r, n, q)
         IN  /\ s \in Request /\ s.pc = "save" /\ s.command = r.command /\ s.brief = r.brief
             /\ s.expected = r.expected /\ s.from = n /\ s.questions = q /\ s.answers = r.answers
BY DEF EditReadAt, Request, Steps

LEMMA EditReadStep ==
  ASSUME IInv, NEW t \in Threads, EditRead(t)
  PROVE  IInv'
<1>. DEFINE r == thread[t]
            n == Len(briefs[r.brief])
            asked == Current(r.brief).questions \ r.answers
            q == EditReadAt(r, n, asked)
<1>1. /\ r.pc = "edit" /\ briefs[r.brief] # <<>>
      /\ thread' = [thread EXCEPT ![t].pc = "save", ![t].from = n, ![t].questions = asked]
      /\ UNCHANGED <<database, coreLock, modelLock, history, requests, faults>>
  BY DEF EditRead
<1>2. /\ r.brief \in Ideas /\ r \in Request /\ r.command \in Edits
      /\ r.expected >= 1 /\ r.expected <= n
  BY <1>1, Counters DEF RequestOK
<1>3. n \in Versions /\ asked \in SUBSET Asked
  <2>1. n \in 0 .. MaxRevision /\ \A m \in 1 .. n : briefs[r.brief][m] \in Revision
    BY <1>2, Lengths, Parts
  <2>2. n \in 1 .. n
    BY <1>2, <2>1, BriefAssumptions DEF Request, Versions
  <2>3. Current(r.brief) \in Revision
    BY <2>1, <2>2 DEF Current
  <2>. QED BY <2>1, <2>3 DEF Versions, Revision
<1>. HIDE DEF n, asked
<1>4. thread' = [thread EXCEPT ![t] = q]
  BY <1>1, Parts DEF EditReadAt, RequestTypes
<1>5. /\ q \in Request /\ q.pc = "save" /\ q.command = r.command /\ q.brief = r.brief
      /\ q.expected = r.expected /\ q.from = n /\ q.questions = asked /\ q.answers = r.answers
  BY <1>2, <1>3, EditReadTypes
<1>6. asked \cap r.answers = {} /\ n <= Len(briefs[r.brief])
  BY <1>3, BriefAssumptions DEF asked, n, Versions
<1>. HIDE DEF q
<1>7. RequestOK(q) /\ AttemptOK(q) /\ q.pc \notin Suggesting
  BY <1>2, <1>5, <1>6 DEF RequestOK, AttemptOK, Suggesting, n
<1>8. LockTypes'
  BY <1>1, <1>4, <1>5, UnlockedMove
<1>. QED BY <1>1, <1>4, <1>5, <1>7, <1>8, QuietMove, Counters

LEMMA SuggestRefusedStep ==
  ASSUME IInv, NEW t \in Threads, SuggestRefused(t)
  PROVE  IInv'
BY EndStep DEF SuggestRefused

LEMMA ResultReadStep ==
  ASSUME IInv, NEW t \in Threads, ResultRead(t)
  PROVE  IInv'
<1>. DEFINE r == thread[t]
            q == At(r, "done")
<1>1. /\ r.pc = "reread" /\ Goto(t, "done")
      /\ UNCHANGED <<database, coreLock, modelLock, history, requests, faults>>
  BY DEF ResultRead
<1>2. /\ q \in Request /\ q.pc = "done" /\ q.brief = r.brief /\ q.command = r.command
      /\ thread' = [thread EXCEPT ![t] = q]
  BY <1>1, Goes, AtTypes, Counters DEF Steps
<1>3. RequestOK(r) /\ AttemptOK(r)
  BY Counters
<1>. HIDE DEF q
<1>4. RequestOK(q) /\ AttemptOK(q) /\ r.pc \in Suggesting
  BY <1>1, <1>2, <1>3 DEF RequestOK, AttemptOK, Suggesting
<1>5. LockTypes'
  BY <1>1, <1>2, UnlockedMove
<1>. QED BY <1>1, <1>2, <1>4, <1>5, QuietMove, Counters

InferredAt(r, fields, questions) == [r EXCEPT !.pc = "result", !.fields = fields, !.questions = questions]

LEMMA InferredTypes ==
  ASSUME NEW r \in Request, NEW fields \in Contents, NEW questions \in SUBSET Asked
  PROVE  LET q == InferredAt(r, fields, questions)
         IN  /\ q \in Request /\ q.pc = "result" /\ q.command = r.command /\ q.brief = r.brief
             /\ q.expected = r.expected /\ q.from = r.from /\ q.answers = r.answers
             /\ q.fields = fields /\ q.questions = questions
BY DEF InferredAt, Request, Steps

LEMMA InferStep ==
  ASSUME IInv, NEW t \in Threads, NEW proposed \in Texts \cup {Blank}, Infer(t, proposed)
  PROVE  IInv'
<1>. DEFINE r == thread[t]
            brief == briefs[r.brief][r.expected]
            fields == Retained(brief, proposed)
            questions == (Asked \ Filled(proposed)) \ brief.human
            q == InferredAt(r, fields, questions)
<1>1. /\ r.pc = "infer" /\ modelLock' = Nobody
      /\ thread' = [thread EXCEPT ![t].pc = "result", ![t].fields = fields, ![t].questions = questions]
      /\ UNCHANGED <<database, coreLock, history, requests, faults>>
  BY DEF Infer
<1>2. /\ r \in Request /\ r.brief \in Ideas /\ r.expected >= 1 /\ r.expected <= Len(briefs[r.brief])
      /\ r.from = r.expected /\ r.answers = {} /\ AttemptOK(r)
  BY <1>1, Counters DEF RequestOK
<1>3. brief \in Revision
  BY <1>2, Lengths, Parts, BriefAssumptions DEF Request, Versions
<1>4. brief.human \subseteq Fields /\ brief.fields \in Contents /\ proposed \in Contents
  BY <1>3, BriefAssumptions DEF Revision, Contents, Blank
<1>. HIDE DEF brief
<1>5. fields \in Contents /\ \A f \in brief.human : fields[f] = brief.fields[f]
  BY <1>4 DEF Retained, Contents
<1>6. questions \in SUBSET Asked /\ \A f \in brief.human : f \notin questions
  OBVIOUS
<1>. HIDE DEF fields, questions
<1>7. thread' = [thread EXCEPT ![t] = q]
  BY <1>1, Parts DEF InferredAt, RequestTypes
<1>8. /\ q \in Request /\ q.pc = "result" /\ q.command = r.command /\ q.brief = r.brief
      /\ q.expected = r.expected /\ q.from = r.from /\ q.answers = r.answers
      /\ q.fields = fields /\ q.questions = questions
  BY <1>2, <1>5, <1>6, InferredTypes
<1>. HIDE DEF q
<1>9. RequestOK(q)
  BY <1>2, <1>5, <1>6, <1>8 DEF RequestOK, brief
<1>10. AttemptOK(q)
  BY <1>1, <1>2, <1>8 DEF AttemptOK, Suggesting
<1>11. LockTypes'
  <2>1. coreLock # t /\ modelLock = t
    BY <1>1, Parts DEF LockTypes
  <2>. QED BY <1>1, <1>7, <1>8, <2>1, LocksMove
<1>. QED BY <1>1, <1>7, <1>8, <1>9, <1>10, <1>11, QuietMove, Counters DEF Suggesting

\* An edit is answered.
LEMMA TellStep ==
  ASSUME IInv, NEW t \in Threads, thread[t].pc \in {"save", "read"},
         NEW verdict \in {"ok", "differs", "newer", "invalid"}, Tell(thread[t], verdict), End(t),
         verdict = "ok" => Saved(thread[t].command, DigestOf(thread[t])),
         verdict = "newer" => Overtaken(thread[t].command, DigestOf(thread[t])),
         UNCHANGED <<database, coreLock, modelLock, inferences, requests, faults>>
  PROVE  IInv'
<1>. DEFINE r == thread[t]
<1>1. /\ told' = told \cup {[command |-> r.command, digest |-> DigestOf(r), verdict |-> verdict]}
      /\ thread' = [thread EXCEPT ![t] = Idle]
      /\ UNCHANGED <<missions, briefs, commands, attempts>>
  BY DEF Tell, End, database
<1>2. r \in Request /\ r.brief \in Ideas /\ r.command \in Edits
  BY Counters DEF RequestOK
<1>3. DigestOf(r) \in Digest
  BY <1>2, DigestTypes
<1>4. PICK a \in Answer : /\ a.command = r.command /\ a.digest = DigestOf(r) /\ a.verdict = verdict
                          /\ told' = told \cup {a}
  BY <1>1, <1>2, <1>3 DEF Answer
<1>5. BriefTypes' /\ VersionsOK' /\ HumanOK' /\ Grown
  BY <1>1, VersionsStay, Parts DEF BriefTypes
<1>6. /\ verdict = "ok" => Saved(a.command, a.digest)'
      /\ verdict = "newer" => Overtaken(a.command, a.digest)'
  <2>1. a.digest \in Digest
    BY <1>3, <1>4
  <2>2. /\ Saved(a.command, a.digest) => Saved(a.command, a.digest)'
        /\ Overtaken(a.command, a.digest) => Overtaken(a.command, a.digest)'
    BY <1>5, <2>1, SavedStays, Parts
  <2>. QED BY <1>4, <2>2
<1>7. EditsOK'
  <2>1. ASSUME NEW b \in told' \ told
        PROVE  /\ b.verdict = "ok" => Saved(b.command, b.digest)'
               /\ b.verdict = "newer" => Overtaken(b.command, b.digest)'
    BY <1>1, <1>4, <1>6
  <2>2. commands' \ commands = {}
    BY <1>1
  <2>. QED BY <1>5, <2>1, <2>2, EditsKept
<1>8. RequestOK(Idle)' /\ AttemptOK(Idle)'
  BY IdleRequest DEF RequestOK, AttemptOK, Suggesting
<1>9. RequestTypes' /\ RequestsOK' /\ OneEach'
  <2>1. \A u \in Threads \ {t} : thread[u].pc \in Suggesting =>
          /\ attempts'[thread[u].command].status # "none"
          /\ inferences'[thread[u].command] = inferences[thread[u].command]
    BY <1>1, Parts DEF RequestsOK, AttemptOK
  <2>2. Idle.pc \notin Suggesting
    BY IdleRequest DEF Suggesting
  <2>. QED BY <1>1, <1>5, <1>8, <2>1, <2>2, RequestMoves, IdleRequest, Counters
<1>10. CreatesOK'
  BY <1>1, CreatesKept, IdleRequest
<1>11. LockTypes'
  BY <1>1, UnlockedMove, IdleRequest
<1>12. AttemptTypes' /\ AttemptsOK' /\ (told \subseteq Answer)'
  BY <1>1, <1>4, Parts DEF AttemptTypes, AttemptsOK, Known
<1>. QED BY <1>5, <1>7, <1>9, <1>10, <1>11, <1>12, Whole

LEMMA EditAnswerStep ==
  ASSUME IInv, NEW t \in Threads, EditAnswer(t)
  PROVE  IInv'
<1>1. thread[t].pc = "read" /\ Tell(thread[t], "ok") /\ End(t)
      /\ UNCHANGED <<database, coreLock, modelLock, inferences, requests, faults>>
  BY DEF EditAnswer
<1>2. Saved(thread[t].command, DigestOf(thread[t]))
  BY <1>1, Counters DEF RequestOK
<1>. QED BY <1>1, <1>2, TellStep

LEMMA RaiseStep ==
  ASSUME IInv, NEW t \in Threads, Raise(t)
  PROVE  IInv'
<1>. DEFINE r == thread[t]
<1>1. /\ r.pc # "idle" /\ faults < MaxFaults /\ faults' = faults + 1
      /\ IF r.pc \in {"propose", "infer", "result", "reread"} THEN Goto(t, "failed") ELSE End(t)
      /\ coreLock' = IF coreLock = t THEN Nobody ELSE coreLock
      /\ modelLock' = IF modelLock = t THEN Nobody ELSE modelLock
      /\ UNCHANGED <<database, history, requests>>
  BY DEF Raise
<1>2. faults' \in 0 .. MaxFaults
  BY <1>1, Counters, BriefAssumptions
<1>3. r \in Request /\ r.brief \in Ideas /\ AttemptOK(r)
  BY <1>1, Counters DEF RequestOK
<1>4. CASE r.pc \in {"propose", "infer", "result", "reread"}
  <2>1. PICK q \in Request : /\ q.pc = "failed" /\ q.brief = r.brief /\ q.command = r.command
                             /\ thread' = [thread EXCEPT ![t] = q]
    BY <1>1, <1>4, Goes, AtTypes, Counters DEF Steps
  <2>2. r.pc \in Suggesting
    BY <1>4 DEF Suggesting
  <2>3. RequestOK(q) /\ AttemptOK(q)
    BY <1>3, <2>1, <2>2 DEF RequestOK, AttemptOK, Suggesting
  <2>4. LockTypes'
    BY <1>1, <2>1, LocksMove
  <2>. QED BY <1>1, <1>2, <2>1, <2>2, <2>3, <2>4, QuietMove, Counters
<1>5. CASE r.pc \notin {"propose", "infer", "result", "reread"}
  <2>1. thread' = [thread EXCEPT ![t] = Idle]
    BY <1>1, <1>5 DEF End
  <2>2. LockTypes'
    BY <1>1, <2>1, LocksMove, IdleRequest
  <2>. QED BY <1>1, <1>2, <2>1, <2>2, QuietMove, IdleRequest, Counters DEF Suggesting
<1>. QED BY <1>4, <1>5

LEMMA RestartStep ==
  ASSUME IInv, Restart
  PROVE  IInv'
<1>1. /\ faults < MaxFaults /\ faults' = faults + 1 /\ thread' = [t \in Threads |-> Idle]
      /\ coreLock' = Nobody /\ modelLock' = Nobody /\ requests' = requests
      /\ UNCHANGED <<missions, briefs, commands, attempts, inferences, told>>
  BY DEF Restart, database, history
<1>2. BriefTypes' /\ VersionsOK' /\ HumanOK' /\ Grown
  BY <1>1, VersionsStay, Parts DEF BriefTypes
<1>3. EditsOK'
  BY <1>1, <1>2, EditsKept
<1>4. RequestTypes' /\ OneEach' /\ CreatesOK'
  BY <1>1, IdleRequest, Counters, BriefAssumptions
    DEF RequestTypes, OneEach, CreatesOK, Suggesting
<1>5. RequestOK(Idle)' /\ AttemptOK(Idle)'
  BY IdleRequest DEF RequestOK, AttemptOK, Suggesting
<1>6. RequestsOK'
  BY <1>1, <1>5 DEF RequestsOK
<1>7. LockTypes'
  BY <1>1, IdleRequest, BriefAssumptions DEF LockTypes, Nobody
<1>8. AttemptTypes' /\ AttemptsOK' /\ (told \subseteq Answer)'
  BY <1>1, Parts DEF AttemptTypes, AttemptsOK, Known
<1>. QED BY <1>2, <1>3, <1>4, <1>6, <1>7, <1>8, Whole

\* The version a save makes of request r.
Version(r, c, kind) ==
  [kind |-> kind, fields |-> r.fields, questions |-> r.questions, answered |-> r.answers,
   human |-> HumanFields(r, kind), command |-> c, from |-> r.from]

LEMMA VersionTypes ==
  ASSUME NEW r \in Request, NEW c \in Commands, NEW kind \in {"human_edited", "ai_proposal"},
         HumanFields(r, kind) \in SUBSET Fields
  PROVE  LET v == Version(r, c, kind)
         IN  /\ v \in Revision /\ v.kind = kind /\ v.fields = r.fields /\ v.questions = r.questions
             /\ v.answered = r.answers /\ v.human = HumanFields(r, kind) /\ v.command = c
             /\ v.from = r.from
BY DEF Version, Request, Revision

\* A new row is the version's.
LEMMA NewRow ==
  ASSUME NEW i, NEW v, NEW d, AddVersion(i, v, d)
  PROVE  /\ \A k \in commands' : k \in commands \/ (k.command = v.command /\ k.digest = d)
         /\ \A c : (\E k \in commands' : k.command = c) <=> Known(c) \/ c = v.command
         /\ \E k : commands' = commands \cup {k} /\ k.command = v.command
<1>1. PICK k : commands' = commands \cup {k} /\ k.command = v.command /\ k.digest = d
  <2>. DEFINE row == [command |-> v.command, digest |-> d]
  <2>1. commands' = commands \cup {row} /\ row.command = v.command /\ row.digest = d
    BY DEF AddVersion
  <2>. HIDE DEF row
  <2>. QED BY <2>1
<1>. QED BY <1>1 DEF Known

\* A save that is not refused adds a version on top of the one it was made from.
LEMMA SaveAdds ==
  ASSUME IInv, NEW t \in Threads, NEW c \in Commands, NEW kind \in {"human_edited", "ai_proposal"},
         Save(thread[t], c, kind), Refusal(thread[t], c) = "new", missions' = missions,
         thread[t].pc \in {"save", "result"}, kind = "ai_proposal" => thread[t].pc = "result"
  PROVE  LET r == thread[t]
             d == DigestOf(r)
         IN  /\ BriefTypes' /\ VersionsOK' /\ HumanOK' /\ Grown
             /\ \A k \in commands' : k \in commands \/ (k.command = c /\ k.digest = d)
             /\ \A b : (\E k \in commands' : k.command = b) <=> Known(b) \/ b = c
             /\ \E k : commands' = commands \cup {k} /\ k.command = c
             /\ r.expected + 1 \in DOMAIN briefs'[r.brief]
             /\ LET v == briefs'[r.brief][r.expected + 1]
                IN  v.command = c /\ v.fields = r.fields /\ v.answered = r.answers
<1>. DEFINE r == thread[t]
            i == r.brief
            n == Len(briefs[i])
<1>1. /\ r \in Request /\ i \in Ideas /\ r.expected \in Nat /\ r.expected >= 1 /\ r.expected <= n
      /\ r.from \in Nat /\ r.expected <= r.from /\ r.from <= n /\ r.questions \cap r.answers = {}
  <2>1. r \in Request /\ RequestOK(r)
    BY Counters
  <2>2. r.expected \in Nat /\ r.from \in Nat
    BY <2>1, BriefAssumptions DEF Request, Versions
  <2>3. CASE r.pc = "save"
    BY <2>1, <2>2, <2>3 DEF RequestOK
  <2>4. CASE r.pc = "result"
    BY <2>1, <2>2, <2>4 DEF RequestOK
  <2>. QED BY <2>3, <2>4
<1>2. ~Known(c) /\ n = r.expected /\ r.answers \subseteq briefs[i][n].questions
  BY DEF Refusal, SameVersion, Pending, Current
<1>3. n \in Nat /\ n \in 1 .. n /\ n > 0 /\ r.from = n /\ briefs[i][n] \in Revision
  <2>1. n = r.expected
    BY <1>2
  <2>2. n \in Nat /\ n \in 1 .. n /\ n > 0 /\ r.from = n
    <3>. HIDE DEF n, r
    <3>. QED BY <1>1, <2>1
  <2>. QED BY <1>1, <2>2, Lengths, Parts
<1>4. n < MaxRevision /\ AddVersion(i, Version(r, c, kind), DigestOf(r))
  <2>1. Version(r, c, kind).command = c
    BY DEF Version
  <2>. QED BY <2>1 DEF Save, AddVersion, Version
<1>5. HumanFields(r, kind) \in SUBSET Fields
  BY <1>3 DEF HumanFields, Current, Filled, Revision
<1>6. PICK v \in Revision :
        /\ v = Version(r, c, kind) /\ v.kind = kind /\ v.fields = r.fields
        /\ v.questions = r.questions /\ v.answered = r.answers /\ v.human = HumanFields(r, kind)
        /\ v.command = c /\ v.from = r.from
  <2>. DEFINE v == Version(r, c, kind)
  <2>1. /\ v \in Revision /\ v.kind = kind /\ v.fields = r.fields
        /\ v.questions = r.questions /\ v.answered = r.answers /\ v.human = HumanFields(r, kind)
        /\ v.command = c /\ v.from = r.from
    BY <1>1, <1>5, VersionTypes
  <2>. HIDE DEF v
  <2>2. v = Version(r, c, kind)
    BY DEF v
  <2>. QED BY <2>1, <2>2
<1>7. DigestOf(r) \in Digest
  BY <1>1, DigestTypes
<1>8. AddVersion(i, v, DigestOf(r))
  BY <1>4, <1>6
<1>9. BriefTypes' /\ Grown
  BY <1>1, <1>2, <1>4, <1>6, <1>7, <1>8, AddedTypes, AddedGrows, Parts DEF BriefTypes
<1>10. VersionsOK'
  BY <1>1, <1>2, <1>3, <1>6, <1>8, <1>9, VersionsAdded
<1>11. HumanOK'
  <2>1. kind = "human_edited" => v.human = Filled(v.fields)
    BY <1>6 DEF HumanFields
  <2>2. kind = "ai_proposal" =>
          v.human = briefs[i][n].human /\
          \A f \in briefs[i][n].human : v.fields[f] = briefs[i][n].fields[f] /\ f \notin v.questions
    <3>1. ASSUME kind = "ai_proposal"
          PROVE  \A f \in briefs[i][n].human :
                   r.fields[f] = briefs[i][n].fields[f] /\ f \notin r.questions
      <4>1. r.pc = "result" /\ RequestOK(r)
        BY <3>1, Counters
      <4>. QED BY <1>2, <4>1 DEF RequestOK
    <3>. QED BY <1>6, <3>1 DEF HumanFields, Current
  <2>. QED BY <1>1, <1>6, <1>8, <2>1, <2>2, HumanAdded
<1>12. /\ \A k \in commands' : k \in commands \/ (k.command = c /\ k.digest = DigestOf(r))
       /\ \A b : (\E k \in commands' : k.command = b) <=> Known(b) \/ b = c
       /\ \E k : commands' = commands \cup {k} /\ k.command = c
  BY <1>6, <1>8, NewRow
<1>13. r.expected + 1 \in DOMAIN briefs'[i] /\ briefs'[i][r.expected + 1] = v
  BY <1>1, <1>2, <1>8, Added, Parts
<1>. QED BY <1>6, <1>9, <1>10, <1>11, <1>12, <1>13

LEMMA EditSaveStep ==
  ASSUME IInv, NEW t \in Threads, EditSave(t)
  PROVE  IInv'
<1>. DEFINE r == thread[t]
            c == <<"edit", r.command>>
<1>1. /\ r.pc = "save"
      /\ UNCHANGED <<missions, attempts, coreLock, modelLock, inferences, requests, faults>>
  BY DEF EditSave
<1>2. /\ r \in Request /\ r.brief \in Ideas /\ r.command \in Edits /\ c \in Commands
      /\ r.expected \in Nat /\ r.expected >= 1 /\ r.expected <= Len(briefs[r.brief])
  <2>1. r \in Request /\ RequestOK(r)
    BY Counters
  <2>. QED BY <1>1, <2>1, BriefAssumptions DEF RequestOK, Commands, Request, Versions
<1>3. /\ DigestOf(r) \in Digest /\ DigestOf(r).brief = r.brief /\ DigestOf(r).expected = r.expected
      /\ DigestOf(r).fields = r.fields /\ DigestOf(r).answers = r.answers
  BY <1>2, DigestTypes
<1>4. CASE Refusal(r, c) # "new"
  <2>1. Tell(r, Refusal(r, c)) /\ End(t) /\ UNCHANGED <<briefs, commands>>
    BY <1>4 DEF EditSave
  <2>2. Refusal(r, c) \in {"ok", "differs", "newer", "invalid"}
    BY <1>4 DEF Refusal
  <2>3. ASSUME Refusal(r, c) = "ok" PROVE Saved(r.command, DigestOf(r))
    <3>1. [command |-> c, digest |-> DigestOf(r)] \in commands
      BY <2>3 DEF Refusal, SameDigest
    <3>. QED BY <1>2, <3>1, Parts DEF EditsOK
  <2>4. ASSUME Refusal(r, c) = "newer" PROVE Overtaken(r.command, DigestOf(r))
    <3>1. ~Known(c) /\ Len(briefs[r.brief]) # r.expected
      BY <1>2, <2>4 DEF Refusal, SameVersion
    <3>2. r.expected + 1 \in DOMAIN briefs[r.brief]
      <4>1. DOMAIN briefs[r.brief] = 1 .. Len(briefs[r.brief]) /\ Len(briefs[r.brief]) \in Nat
        BY <1>2, Lengths, Parts, BriefAssumptions
      <4>. QED BY <1>2, <3>1, <4>1
    <3>3. Known(briefs[r.brief][r.expected + 1].command)
      BY <1>2, <3>2, Parts DEF VersionsOK
    <3>. QED BY <1>3, <3>1, <3>2, <3>3 DEF Overtaken
  <2>5. UNCHANGED <<database, coreLock, modelLock, inferences, requests, faults>>
    BY <1>1, <2>1 DEF database
  <2>. QED BY <1>1, <2>1, <2>2, <2>3, <2>4, <2>5, TellStep
<1>5. CASE Refusal(r, c) = "new"
  <2>1. Save(r, c, "human_edited") /\ Goto(t, "read") /\ told' = told
    BY <1>5 DEF EditSave
  <2>2. /\ BriefTypes' /\ VersionsOK' /\ HumanOK' /\ Grown
        /\ \A k \in commands' : k \in commands \/ (k.command = c /\ k.digest = DigestOf(r))
        /\ \A b : (\E k \in commands' : k.command = b) <=> Known(b) \/ b = c
        /\ \E k : commands' = commands \cup {k} /\ k.command = c
        /\ r.expected + 1 \in DOMAIN briefs'[r.brief]
        /\ LET v == briefs'[r.brief][r.expected + 1]
           IN  v.command = c /\ v.fields = r.fields /\ v.answered = r.answers
    BY <1>1, <1>2, <1>5, <2>1, SaveAdds
  <2>3. PICK e \in Edits : e = r.command
    BY <1>2
  <2>4. PICK d \in Digest : d = DigestOf(r)
    BY <1>3
  <2>5. Saved(e, d)'
    BY <1>3, <2>2, <2>3, <2>4 DEF Saved
  <2>6. EditsOK'
    <3>1. ASSUME NEW k \in commands' \ commands, NEW b \in Edits, k.command = <<"edit", b>>
          PROVE  Saved(b, k.digest)'
      <4>1. k.command = <<"edit", e>> /\ k.digest = d
        BY <2>2, <2>3, <2>4
      <4>2. b = e
        BY <3>1, <4>1
      <4>. QED BY <2>5, <4>1, <4>2
    <3>. QED BY <2>1, <2>2, <3>1, EditsKept
  <2>7. PICK q \in Request : /\ q.pc = "read" /\ q.command = r.command /\ q.brief = r.brief
                             /\ DigestOf(q) = DigestOf(r) /\ thread' = [thread EXCEPT ![t] = q]
    BY <2>1, Goes, AtTypes, Counters DEF Steps
  <2>8. DigestOf(q)' = d
    BY <2>4, <2>7 DEF DigestOf
  <2>9. Saved(q.command, DigestOf(q))'
    BY <2>3, <2>5, <2>7, <2>8
  <2>10. RequestOK(q)' /\ AttemptOK(q)' /\ q.pc \notin Suggesting
    BY <1>2, <2>7, <2>9 DEF RequestOK, AttemptOK, Suggesting
  <2>11. RequestTypes' /\ RequestsOK' /\ OneEach'
    <3>1. \A u \in Threads \ {t} : thread[u].pc \in Suggesting =>
            /\ attempts'[thread[u].command].status # "none"
            /\ inferences'[thread[u].command] = inferences[thread[u].command]
      BY <1>1, Parts DEF RequestsOK, AttemptOK
    <3>2. requests' \in 0 .. MaxRequests /\ faults' \in 0 .. MaxFaults
      BY <1>1, Counters
    <3>. QED BY <2>2, <2>7, <2>10, <3>1, <3>2, RequestMoves
  <2>12. CreatesOK'
    <3>1. q.pc \notin {"intake", "record"} /\ c[1] # "create"
      BY <2>7
    <3>2. \E k : commands' = commands \cup {k} /\ k.command[1] # "create"
      BY <2>2, <3>1
    <3>. QED BY <2>7, <3>1, <3>2, CreatesKept
  <2>13. LockTypes'
    BY <1>1, <2>7, UnlockedMove
  <2>14. AttemptTypes' /\ AttemptsOK' /\ (told \subseteq Answer)'
    <3>1. \A s \in Suggests : (\E k \in commands' : k.command = <<"result", s>>) <=> Known(<<"result", s>>)
      BY <2>2
    <3>. QED BY <1>1, <2>1, <3>1, Parts DEF AttemptTypes, AttemptsOK, Known
  <2>. QED BY <2>2, <2>6, <2>11, <2>12, <2>13, <2>14, Whole
<1>. QED BY <1>4, <1>5

LEMMA ResultSaveStep ==
  ASSUME IInv, NEW t \in Threads, ResultSave(t)
  PROVE  IInv'
<1>. DEFINE r == thread[t]
            c == <<"result", r.command>>
<1>1. /\ r.pc = "result" /\ UNCHANGED <<missions, attempts, inferences, told>>
      /\ UNCHANGED <<coreLock, modelLock, requests, faults>>
  BY DEF ResultSave, history
<1>2. /\ r \in Request /\ r.brief \in Ideas /\ r.command \in Suggests /\ c \in Commands
      /\ inferences[r.command] = 1 /\ attempts[r.command].status # "none" /\ r.pc \in Suggesting
  <2>1. r \in Request /\ RequestOK(r) /\ AttemptOK(r)
    BY Counters
  <2>. QED BY <1>1, <2>1 DEF RequestOK, AttemptOK, Suggesting, Commands
<1>3. CASE Refusal(r, c) # "new"
  <2>1. /\ Goto(t, IF Refusal(r, c) = "ok" THEN "reread" ELSE "failed")
        /\ UNCHANGED <<briefs, commands>>
    BY <1>3 DEF ResultSave
  <2>2. PICK q \in Request :
          /\ q.pc = IF Refusal(r, c) = "ok" THEN "reread" ELSE "failed"
          /\ q.command = r.command /\ q.brief = r.brief /\ thread' = [thread EXCEPT ![t] = q]
    BY <2>1, Goes, AtTypes, Counters DEF Steps
  <2>3. q.pc = "reread" => Known(c)
    BY <2>2 DEF Refusal
  <2>4. q.pc \in {"reread", "failed"}
    BY <2>2
  <2>5. RequestOK(q) /\ AttemptOK(q)
    BY <1>2, <2>2, <2>3, <2>4 DEF RequestOK, AttemptOK, Suggesting
  <2>6. LockTypes'
    BY <1>1, <2>2, <2>4, UnlockedMove
  <2>7. UNCHANGED <<database, history, requests, faults>>
    BY <1>1, <2>1 DEF database, history
  <2>. QED BY <1>2, <2>2, <2>4, <2>5, <2>6, <2>7, QuietMove, Counters
<1>4. CASE Refusal(r, c) = "new"
  <2>1. Save(r, c, "ai_proposal") /\ Goto(t, "reread")
    BY <1>4 DEF ResultSave
  <2>2. /\ BriefTypes' /\ VersionsOK' /\ HumanOK' /\ Grown
        /\ \A k \in commands' : k \in commands \/ (k.command = c /\ k.digest = DigestOf(r))
        /\ \A b : (\E k \in commands' : k.command = b) <=> Known(b) \/ b = c
        /\ \E k : commands' = commands \cup {k} /\ k.command = c
    BY <1>1, <1>2, <1>4, <2>1, SaveAdds
  <2>3. EditsOK'
    BY <1>1, <2>2, EditsKept
  <2>4. PICK q \in Request : /\ q.pc = "reread" /\ q.command = r.command /\ q.brief = r.brief
                             /\ thread' = [thread EXCEPT ![t] = q]
    BY <2>1, Goes, AtTypes, Counters DEF Steps
  <2>5. \E k \in commands' : k.command = <<"result", q.command>>
    BY <2>2, <2>4
  <2>6. RequestOK(q)' /\ AttemptOK(q)'
    BY <1>1, <1>2, <2>4, <2>5 DEF RequestOK, AttemptOK, Suggesting, Known
  <2>7. RequestTypes' /\ RequestsOK' /\ OneEach'
    <3>1. \A u \in Threads \ {t} : thread[u].pc \in Suggesting =>
            /\ attempts'[thread[u].command].status # "none"
            /\ inferences'[thread[u].command] = inferences[thread[u].command]
            /\ thread[u].command # q.command
      BY <1>1, <1>2, <2>4, Parts DEF RequestsOK, AttemptOK, OneEach
    <3>2. requests' \in 0 .. MaxRequests /\ faults' \in 0 .. MaxFaults
      BY <1>1, Counters
    <3>3. BriefTypes' /\ Grown /\ thread' = [thread EXCEPT ![t] = q]
      BY <2>2, <2>4
    <3>. QED BY <2>6, <3>1, <3>2, <3>3, RequestMoves
  <2>8. CreatesOK'
    <3>1. q.pc \notin {"intake", "record"} /\ c[1] # "create"
      BY <2>4
    <3>2. \E k : commands' = commands \cup {k} /\ k.command[1] # "create"
      BY <2>2, <3>1
    <3>. QED BY <2>4, <3>1, <3>2, CreatesKept
  <2>9. LockTypes'
    BY <1>1, <2>4, UnlockedMove
  <2>10. AttemptTypes' /\ AttemptsOK' /\ (told \subseteq Answer)'
    <3>1. \A s \in Suggests : (\E k \in commands' : k.command = <<"result", s>>)
                                <=> Known(<<"result", s>>) \/ s = r.command
      BY <2>2
    <3>. QED BY <1>1, <1>2, <3>1, Parts DEF AttemptTypes, AttemptsOK, Known
  <2>. QED BY <2>2, <2>3, <2>7, <2>8, <2>9, <2>10, Whole
<1>. QED BY <1>3, <1>4

\* The row of attempt s changes.
LEMMA AttemptMoves ==
  ASSUME IInv, NEW s \in Suggests, NEW new \in Attempt, attempts' = [attempts EXCEPT ![s] = new],
         UNCHANGED <<commands, inferences>>, new.status # "none",
         new.status = "done" => Known(<<"result", s>>)
  PROVE  /\ AttemptTypes' /\ AttemptsOK' /\ attempts'[s].status # "none"
         /\ \A z \in Suggests : attempts[z].status # "none" => attempts'[z].status # "none"
<1>1. attempts \in [Suggests -> Attempt] /\ AttemptsOK
  BY Parts DEF AttemptTypes
<1>2. attempts'[s] = new /\ \A z \in Suggests \ {s} : attempts'[z] = attempts[z]
  BY <1>1
<1>3. AttemptTypes'
  BY <1>1, Parts DEF AttemptTypes
<1>4. \A z \in Suggests : Known(<<"result", z>>)' <=> Known(<<"result", z>>)
  BY DEF Known
<1>5. AttemptsOK'
  BY <1>1, <1>2, <1>4 DEF AttemptsOK
<1>. QED BY <1>2, <1>3, <1>5

\* Request t stays with its attempt, or takes an unused one, and becomes r.
LEMMA AttemptStep ==
  ASSUME IInv, NEW t \in Threads, NEW r \in Request, thread' = [thread EXCEPT ![t] = r],
         UNCHANGED <<missions, briefs, commands, told, requests, faults>>,
         RequestOK(r), AttemptOK(r)', LockTypes', AttemptTypes', AttemptsOK',
         r.pc \notin {"intake", "record"},
         \A u \in Threads \ {t} : thread[u].pc \in Suggesting =>
           /\ attempts'[thread[u].command].status # "none"
           /\ inferences'[thread[u].command] = inferences[thread[u].command]
           /\ r.pc \in Suggesting => thread[u].command # r.command
  PROVE  IInv'
<1>1. BriefTypes' /\ VersionsOK' /\ HumanOK' /\ Grown
  BY VersionsStay, Parts DEF BriefTypes
<1>2. EditsOK'
  BY <1>1, EditsKept
<1>3. RequestOK(r)'
  BY <1>1, RequestStays, Parts
<1>4. RequestTypes' /\ RequestsOK' /\ OneEach'
  BY <1>1, <1>3, RequestMoves, Counters
<1>5. CreatesOK'
  BY CreatesKept
<1>6. (told \subseteq Answer)'
  BY Parts
<1>. QED BY <1>1, <1>2, <1>4, <1>5, <1>6, Whole

StartedAt(r, n) == [r EXCEPT !.pc = "propose", !.from = n]

LEMMA StartedTypes ==
  ASSUME NEW r \in Request, NEW n \in Versions
  PROVE  LET q == StartedAt(r, n)
         IN  /\ q \in Request /\ q.pc = "propose" /\ q.command = r.command /\ q.brief = r.brief
             /\ q.expected = r.expected /\ q.from = n /\ q.answers = r.answers
BY DEF StartedAt, Request, Steps

LEMMA SuggestBeginStep ==
  ASSUME IInv, NEW t \in Threads, SuggestBegin(t)
  PROVE  IInv'
<1>. DEFINE r == thread[t]
            n == Len(briefs[r.brief])
            new == [brief |-> r.brief, expected |-> r.expected, status |-> "started"]
<1>1. /\ r.pc = "suggest" /\ attempts[r.command].status = "none" /\ n = r.expected /\ r.expected > 0
      /\ attempts' = [attempts EXCEPT ![r.command] = new]
      /\ thread' = [thread EXCEPT ![t].pc = "propose", ![t].from = n]
      /\ UNCHANGED <<missions, briefs, commands, coreLock, modelLock, inferences, told>>
      /\ UNCHANGED <<requests, faults>>
  BY DEF SuggestBegin, Unused, history
<1>2. /\ r \in Request /\ r.brief \in Ideas /\ r.command \in Suggests /\ r.answers = {}
      /\ r.expected \in Versions /\ r.expected \in Nat
  <2>1. r \in Request /\ RequestOK(r)
    BY Counters
  <2>. QED BY <1>1, <2>1, BriefAssumptions DEF RequestOK, Request, Versions
<1>3. new \in Attempt /\ new.status = "started"
  BY <1>2 DEF Attempt
<1>. HIDE DEF new
<1>4. /\ AttemptTypes' /\ AttemptsOK' /\ attempts'[r.command].status # "none"
      /\ \A z \in Suggests : attempts[z].status # "none" => attempts'[z].status # "none"
  BY <1>1, <1>2, <1>3, AttemptMoves
<1>5. thread' = [thread EXCEPT ![t] = StartedAt(r, n)]
  BY <1>1, Parts DEF StartedAt, RequestTypes
<1>6. n \in Versions
  BY <1>1, <1>2
<1>7. PICK q \in Request :
        /\ q.pc = "propose" /\ q.command = r.command /\ q.brief = r.brief
        /\ q.expected = r.expected /\ q.from = n /\ q.answers = r.answers
        /\ thread' = [thread EXCEPT ![t] = q]
  BY <1>2, <1>5, <1>6, StartedTypes
<1>8. RequestOK(q)
  BY <1>1, <1>2, <1>7 DEF RequestOK
<1>9. inferences[r.command] = 0
  BY <1>1, <1>2, Parts DEF AttemptsOK
<1>10. AttemptOK(q)'
  BY <1>1, <1>2, <1>4, <1>7, <1>9 DEF AttemptOK, Suggesting
<1>11. LockTypes'
  BY <1>1, <1>7, UnlockedMove
<1>12. \A u \in Threads \ {t} : thread[u].pc \in Suggesting =>
         /\ attempts'[thread[u].command].status # "none"
         /\ inferences'[thread[u].command] = inferences[thread[u].command]
         /\ thread[u].command # q.command
  BY <1>1, <1>4, <1>7, Parts DEF RequestsOK, AttemptOK
<1>. QED BY <1>1, <1>4, <1>7, <1>8, <1>10, <1>11, <1>12, AttemptStep

LEMMA ProposeStep ==
  ASSUME IInv, NEW t \in Threads, Propose(t)
  PROVE  IInv'
<1>. DEFINE r == thread[t]
<1>1. /\ r.pc = "propose" /\ UNCHANGED <<missions, briefs, commands, attempts, told>>
      /\ UNCHANGED <<coreLock, requests, faults>>
  BY DEF Propose, database
<1>2. /\ r \in Request /\ RequestOK(r) /\ r.brief \in Ideas /\ r.command \in Suggests
      /\ attempts[r.command].status # "none" /\ inferences[r.command] = 0 /\ r.pc \in Suggesting
  <2>1. r \in Request /\ RequestOK(r) /\ AttemptOK(r)
    BY Counters
  <2>. QED BY <1>1, <2>1 DEF RequestOK, AttemptOK, Suggesting
<1>3. CASE modelLock = Nobody
  <2>1. /\ modelLock' = t /\ Goto(t, "infer")
        /\ inferences' = [inferences EXCEPT ![r.command] = @ + 1]
    BY <1>3 DEF Propose, Unlocked
  <2>2. PICK q \in Request :
          /\ q.pc = "infer" /\ q.command = r.command /\ q.brief = r.brief
          /\ q.expected = r.expected /\ q.from = r.from /\ q.answers = r.answers
          /\ thread' = [thread EXCEPT ![t] = q]
    BY <2>1, Goes, AtTypes, Counters DEF Steps
  <2>3. /\ inferences' \in [Suggests -> Nat] /\ inferences'[r.command] = 1
        /\ \A s \in Suggests \ {r.command} : inferences'[s] = inferences[s]
    BY <1>2, <2>1, Parts DEF AttemptTypes
  <2>4. RequestOK(q)
    BY <1>1, <1>2, <2>2 DEF RequestOK
  <2>5. AttemptOK(q)'
    BY <1>1, <1>2, <2>2, <2>3 DEF AttemptOK, Suggesting
  <2>6. AttemptTypes' /\ AttemptsOK'
    <3>1. AttemptTypes /\ AttemptsOK
      BY Parts
    <3>2. \A z \in Suggests : Known(<<"result", z>>)' <=> Known(<<"result", z>>)
      BY <1>1 DEF Known
    <3>. QED BY <1>1, <1>2, <2>3, <3>1, <3>2 DEF AttemptTypes, AttemptsOK
  <2>7. coreLock # t
    BY <1>1, Parts DEF LockTypes
  <2>8. LockTypes'
    BY <1>1, <1>3, <2>1, <2>2, <2>7, LocksMove
  <2>9. \A u \in Threads \ {t} : thread[u].pc \in Suggesting =>
          /\ attempts'[thread[u].command].status # "none"
          /\ inferences'[thread[u].command] = inferences[thread[u].command]
          /\ thread[u].command # q.command
    <3>1. ASSUME NEW u \in Threads \ {t}, thread[u].pc \in Suggesting
          PROVE  /\ thread[u].command \in Suggests /\ thread[u].command # r.command
                 /\ attempts[thread[u].command].status # "none"
      BY <1>2, <3>1, Parts DEF RequestsOK, AttemptOK, OneEach
    <3>. QED BY <1>1, <2>2, <2>3, <3>1
  <2>. QED BY <1>1, <2>2, <2>4, <2>5, <2>6, <2>8, <2>9, AttemptStep
<1>4. CASE modelLock # Nobody
  <2>1. Goto(t, "failed") /\ UNCHANGED <<modelLock, inferences>>
    BY <1>4 DEF Propose, Unlocked
  <2>2. PICK q \in Request : /\ q.pc = "failed" /\ q.command = r.command /\ q.brief = r.brief
                             /\ thread' = [thread EXCEPT ![t] = q]
    BY <2>1, Goes, AtTypes, Counters DEF Steps
  <2>3. RequestOK(q) /\ AttemptOK(q)
    BY <1>2, <2>2 DEF RequestOK, AttemptOK, Suggesting
  <2>4. LockTypes'
    BY <1>1, <2>1, <2>2, UnlockedMove
  <2>5. UNCHANGED <<database, history, requests, faults>>
    BY <1>1, <2>1 DEF database, history
  <2>. QED BY <1>2, <2>2, <2>3, <2>4, <2>5, QuietMove, Counters
<1>. QED BY <1>3, <1>4

Marked(a, status) == [a EXCEPT !.status = status]

LEMMA MarkedTypes ==
  ASSUME NEW a \in Attempt, NEW status \in {"done", "failed"}
  PROVE  Marked(a, status) \in Attempt /\ Marked(a, status).status = status
BY DEF Marked, Attempt

LEMMA MarkAttemptStep ==
  ASSUME IInv, NEW t \in Threads, MarkAttempt(t)
  PROVE  IInv'
<1>. DEFINE r == thread[t]
<1>1. /\ r.pc \in {"done", "failed"} /\ attempts' = [attempts EXCEPT ![r.command].status = r.pc]
      /\ thread' = [thread EXCEPT ![t] = Idle]
      /\ UNCHANGED <<missions, briefs, commands, coreLock, modelLock, inferences, told>>
      /\ UNCHANGED <<requests, faults>>
  BY DEF MarkAttempt, End, history
<1>2. r.command \in Suggests /\ (r.pc = "done" => Known(<<"result", r.command>>))
  <2>1. RequestOK(r) /\ AttemptOK(r)
    BY Counters
  <2>. QED BY <1>1, <2>1 DEF RequestOK, AttemptOK, Suggesting
<1>3. attempts \in [Suggests -> Attempt]
  BY Parts DEF AttemptTypes
<1>4. attempts' = [attempts EXCEPT ![r.command] = Marked(attempts[r.command], r.pc)]
  BY <1>1, <1>2, <1>3 DEF Marked
<1>5. PICK new \in Attempt : new.status = r.pc /\ attempts' = [attempts EXCEPT ![r.command] = new]
  <2>. DEFINE new == Marked(attempts[r.command], r.pc)
  <2>1. attempts[r.command] \in Attempt /\ r.pc \in {"done", "failed"}
    BY <1>1, <1>2, <1>3
  <2>2. new \in Attempt /\ new.status = r.pc
    BY <2>1, MarkedTypes
  <2>3. attempts' = [attempts EXCEPT ![r.command] = new]
    BY <1>4
  <2>. HIDE DEF new
  <2>. QED BY <2>2, <2>3
<1>6. new.status # "none" /\ (new.status = "done" => Known(<<"result", r.command>>))
  BY <1>1, <1>2, <1>5
<1>7. /\ AttemptTypes' /\ AttemptsOK'
      /\ \A z \in Suggests : attempts[z].status # "none" => attempts'[z].status # "none"
  BY <1>1, <1>2, <1>5, <1>6, AttemptMoves
<1>8. LockTypes'
  BY <1>1, UnlockedMove, IdleRequest
<1>9. AttemptOK(Idle)' /\ Idle.pc \notin Suggesting
  BY IdleRequest DEF AttemptOK, Suggesting
<1>10. \A u \in Threads \ {t} : thread[u].pc \in Suggesting =>
         /\ attempts'[thread[u].command].status # "none"
         /\ inferences'[thread[u].command] = inferences[thread[u].command]
  BY <1>1, <1>7, Parts DEF RequestsOK, AttemptOK
<1>. QED BY <1>1, <1>7, <1>8, <1>9, <1>10, AttemptStep, IdleRequest

\* The first version: the command is not on record, so the brief is empty.
LEMMA RecordStep ==
  ASSUME IInv, NEW t \in Threads, Record(t)
  PROVE  IInv'
<1>. DEFINE r == thread[t]
            i == r.brief
            c == <<"create", i>>
            first == [kind |-> "human_edited", fields |-> Blank, questions |-> {}, answered |-> {},
                      human |-> {}, command |-> c, from |-> 0]
            digest == [brief |-> i, expected |-> 0, fields |-> Blank, questions |-> {}, answers |-> {}]
<1>1. /\ r.pc = "record" /\ briefs' = [briefs EXCEPT ![i] = <<first>>]
      /\ commands' = commands \cup {[command |-> c, digest |-> digest]}
      /\ coreLock' = Nobody /\ thread' = [thread EXCEPT ![t] = Idle]
      /\ UNCHANGED <<missions, attempts, modelLock, inferences, told>>
      /\ UNCHANGED <<requests, faults>>
  BY DEF Record, End, history
<1>2. /\ i \in Ideas /\ i \in missions /\ ~Known(c)
  <2>1. RequestOK(r)
    BY Counters
  <2>. QED BY <1>1, <2>1, Parts DEF RequestOK, CreatesOK
<1>3. c \in Commands /\ Blank \in Contents /\ 0 \in Versions
  BY <1>2, BriefAssumptions DEF Commands, Blank, Contents, Versions
<1>4. digest \in Digest
  BY <1>2, <1>3 DEF Digest
<1>5. /\ first \in Revision /\ first.command = c /\ first.kind = "human_edited"
      /\ first.human = {} /\ first.fields = Blank
  BY <1>3 DEF Revision
<1>6. Filled(Blank) = {}
  BY DEF Filled, Blank
<1>. HIDE DEF first, digest
<1>7. briefs[i] = <<>> /\ Len(briefs[i]) = 0
  <2>1. briefs[i] \in Seq(Revision) /\ DOMAIN briefs[i] = 1 .. Len(briefs[i]) /\ Len(briefs[i]) \in Nat
    BY <1>2, Lengths, Parts, BriefAssumptions
  <2>2. ASSUME 1 \in DOMAIN briefs[i] PROVE FALSE
    BY <1>2, <2>2, Parts DEF VersionsOK
  <2>3. Len(briefs[i]) = 0
    BY <2>1, <2>2
  <2>. QED BY <2>1, <2>3
<1>8. Append(briefs[i], first) = <<first>>
  BY <1>7
<1>9. PICK v \in Revision : v = first
  BY <1>5
<1>10. PICK d \in Digest : d = digest
  BY <1>4
<1>11. AddVersion(i, v, d)
  BY <1>1, <1>5, <1>8, <1>9, <1>10 DEF AddVersion
<1>12. v.command = c /\ v.kind = "human_edited" /\ v.human = Filled(v.fields)
  BY <1>5, <1>6, <1>9
<1>13. Len(briefs[i]) < MaxRevision /\ missions' \subseteq Ideas /\ missions \subseteq missions'
  BY <1>1, <1>7, Parts, BriefAssumptions DEF BriefTypes
<1>14. BriefTypes' /\ Grown
  BY <1>2, <1>11, <1>12, <1>13, AddedTypes, AddedGrows, Parts
<1>15. VersionsOK'
  BY <1>1, <1>2, <1>7, <1>11, <1>12, <1>14, VersionsAdded
<1>16. HumanOK'
  BY <1>2, <1>11, <1>12, HumanAdded
<1>17. /\ \A k \in commands' : k \in commands \/ k.command = c
       /\ \A b : (\E k \in commands' : k.command = b) <=> Known(b) \/ b = c
  <2>1. \A k \in commands' : k \in commands \/ k.command = v.command
    BY <1>11, NewRow
  <2>2. \A b : (\E k \in commands' : k.command = b) <=> Known(b) \/ b = v.command
    BY <1>11, NewRow
  <2>3. v.command = c
    BY <1>12
  <2>. HIDE DEF c
  <2>. QED BY <2>1, <2>2, <2>3
<1>18. EditsOK'
  <2>1. \A k \in commands' \ commands : \A e \in Edits : k.command # <<"edit", e>>
    BY <1>17
  <2>. QED BY <1>1, <1>14, <2>1, EditsKept
<1>19. RequestTypes' /\ RequestsOK' /\ OneEach'
  <2>1. RequestOK(Idle)' /\ AttemptOK(Idle)' /\ Idle.pc \notin Suggesting
    BY IdleRequest DEF RequestOK, AttemptOK, Suggesting
  <2>2. \A u \in Threads \ {t} : thread[u].pc \in Suggesting =>
          /\ attempts'[thread[u].command].status # "none"
          /\ inferences'[thread[u].command] = inferences[thread[u].command]
    BY <1>1, Parts DEF RequestsOK, AttemptOK
  <2>. QED BY <1>1, <1>14, <2>1, <2>2, RequestMoves, IdleRequest, Counters
<1>20. CreatesOK'
  BY <1>1, CreatesKept, IdleRequest
<1>21. LockTypes'
  <2>1. coreLock = t /\ modelLock # t
    BY <1>1, Parts DEF LockTypes
  <2>. QED BY <1>1, <2>1, LocksMove, IdleRequest
<1>22. AttemptTypes' /\ AttemptsOK' /\ (told \subseteq Answer)'
  <2>1. \A s \in Suggests : (\E k \in commands' : k.command = <<"result", s>>) <=> Known(<<"result", s>>)
    BY <1>17
  <2>. QED BY <1>1, <2>1, Parts DEF AttemptTypes, AttemptsOK, Known
<1>. QED BY <1>14, <1>15, <1>16, <1>18, <1>19, <1>20, <1>21, <1>22, Whole

\* ---- The theorems --------------------------------------------------------------

LEMMA Initially == Init => IInv
<1>. SUFFICES ASSUME Init PROVE IInv
  OBVIOUS
<1>1. BriefTypes /\ AttemptTypes /\ told \subseteq Answer
  <2>1. briefs = [i \in Ideas |-> <<>>] /\ <<>> \in Seq(Revision) /\ Len(<<>>) = 0
    BY DEF Init
  <2>2. briefs \in [Ideas -> Seq(Revision)] /\ \A i \in Ideas : Len(briefs[i]) <= MaxRevision
    BY <2>1, BriefAssumptions
  <2>3. NoAttempt \in Attempt
    BY BriefAssumptions DEF NoAttempt, Attempt, Versions
  <2>. QED BY <2>2, <2>3 DEF Init, BriefTypes, AttemptTypes
<1>2. LockTypes /\ RequestTypes
  BY IdleRequest, BriefAssumptions DEF Init, LockTypes, RequestTypes, Nobody
<1>3. \A i \in Ideas : DOMAIN briefs[i] = {}
  BY DEF Init
<1>4. VersionsOK /\ HumanOK
  BY <1>3 DEF VersionsOK, HumanOK
<1>5. EditsOK /\ ~(\E c : Known(c))
  BY DEF Init, EditsOK, Known
<1>6. RequestsOK /\ OneEach /\ CreatesOK
  <2>1. \A t \in Threads : thread[t] = Idle
    BY DEF Init
  <2>. QED BY <2>1, IdleRequest DEF RequestsOK, OneEach, CreatesOK, Suggesting
<1>7. AttemptsOK
  BY <1>5 DEF Init, AttemptsOK, NoAttempt
<1>8. TypeOK
  BY <1>1, <1>2, Types
<1>. QED BY <1>4, <1>5, <1>6, <1>7, <1>8 DEF IInv

LEMMA Stuttering ==
  ASSUME IInv, UNCHANGED vars
  PROVE  IInv'
<1>1. /\ UNCHANGED <<missions, briefs, commands, attempts, thread, coreLock, modelLock, inferences>>
      /\ UNCHANGED <<told, requests, faults>>
  BY DEF vars
<1>2. BriefTypes' /\ VersionsOK' /\ HumanOK' /\ Grown
  BY <1>1, VersionsStay, Parts DEF BriefTypes
<1>3. AttemptTypes' /\ LockTypes' /\ RequestTypes' /\ (told \subseteq Answer)'
  BY <1>1, Parts DEF AttemptTypes, LockTypes, RequestTypes
<1>4. EditsOK'
  BY <1>1, Parts DEF EditsOK, Saved, Overtaken
<1>5. AttemptsOK' /\ CreatesOK' /\ OneEach'
  BY <1>1, Parts DEF AttemptsOK, CreatesOK, OneEach, Known
<1>6. RequestsOK'
  <2>1. ASSUME NEW t \in Threads
        PROVE  RequestOK(thread[t])' /\ AttemptOK(thread[t])'
    <3>1. RequestOK(thread[t]) /\ AttemptOK(thread[t]) /\ thread'[t] = thread[t]
      BY <1>1, Counters
    <3>. QED BY <1>1, <3>1 DEF RequestOK, AttemptOK, Saved, Known
  <2>. QED BY <2>1 DEF RequestsOK
<1>. QED BY <1>2, <1>3, <1>4, <1>5, <1>6, Whole

LEMMA Inductive == IInv /\ [Next]_vars => IInv'
<1>. SUFFICES ASSUME IInv, [Next]_vars PROVE IInv'
  OBVIOUS
<1>1. CASE UNCHANGED vars
  BY <1>1, Stuttering
<1>2. ASSUME NEW t \in Threads, NEW i \in Ideas,
             \/ SendCreate(t, i)
             \/ \E e \in Edits, v \in 1 .. MaxRevision, fields \in Texts, a \in SUBSET Asked :
                  SendEdit(t, e, i, v, fields, a)
             \/ \E s \in Suggests, v \in 1 .. MaxRevision : SendSuggest(t, s, i, v)
      PROVE  IInv'
  BY <1>2, SendStep
<1>3. ASSUME NEW t \in Threads, CreateLocked(t) \/ Intake(t) \/ Record(t)
      PROVE  IInv'
  BY <1>3, CreateLockedStep, IntakeStep, RecordStep
<1>4. ASSUME NEW t \in Threads, EditRead(t) \/ EditSave(t) \/ EditAnswer(t)
      PROVE  IInv'
  BY <1>4, EditReadStep, EditSaveStep, EditAnswerStep
<1>5. ASSUME NEW t \in Threads, SuggestRefused(t) \/ SuggestBegin(t) \/ Propose(t)
      PROVE  IInv'
  BY <1>5, SuggestRefusedStep, SuggestBeginStep, ProposeStep
<1>6. ASSUME NEW t \in Threads, NEW proposed \in Texts \cup {Blank}, Infer(t, proposed)
      PROVE  IInv'
  BY <1>6, InferStep
<1>7. ASSUME NEW t \in Threads, ResultSave(t) \/ ResultRead(t) \/ MarkAttempt(t)
      PROVE  IInv'
  BY <1>7, ResultSaveStep, ResultReadStep, MarkAttemptStep
<1>8. ASSUME NEW t \in Threads, Raise(t)
      PROVE  IInv'
  BY <1>8, RaiseStep
<1>9. CASE Restart
  BY <1>9, RestartStep
<1>. QED BY <1>1, <1>2, <1>3, <1>4, <1>5, <1>6, <1>7, <1>8, <1>9 DEF Next

\* The invariant holds in every state, whatever is sent twice, raised or killed
\* between two commits.
THEOREM Invariance == Spec => []IInv
BY Initially, Inductive, PTL DEF Spec

\* Every variable keeps its type; no command has two rows, and the locks are
\* held by the threads that are inside them.
THEOREM TypeCorrect == Spec => []TypeOK
<1>1. IInv => TypeOK
  BY DEF IInv
<1>. QED BY <1>1, Invariance, PTL

\* A brief begins with its mission in Core, and every later version was made by
\* one command from the version before it, however long ago the edit route or
\* the model read it (expected in save and suggest).
THEOREM VersionsBuildUp == Spec => []BuildsOnLast
<1>1. IInv => BuildsOnLast
  BY Parts DEF VersionsOK, BuildsOnLast
<1>. QED BY <1>1, Invariance, PTL

\* What a human last filled in outlives every suggestion after it and is not
\* asked for again (human_fields in suggest and save).
THEOREM HumansKept == Spec => []HumanChoicesKept
<1>1. ASSUME IInv
      PROVE  HumanChoicesKept
  <2>1. ASSUME NEW i \in Ideas, NEW m \in DOMAIN briefs[i], NEW n \in DOMAIN briefs[i], m < n,
               Untouched(i, m, n), NEW f \in Filled(briefs[i][m].fields)
        PROVE  /\ briefs[i][n].fields[f] = briefs[i][m].fields[f]
               /\ f \notin briefs[i][n].questions
    <3>1. m \in Nat /\ n \in Nat
      BY <1>1, Parts, Lengths
    <3>2. m <= n
      BY <2>1, <3>1
    <3>. QED BY <1>1, <2>1, <3>2, Parts DEF HumanOK
  <2>. QED BY <2>1 DEF HumanChoicesKept, Untouched
<1>. QED BY <1>1, Invariance, PTL

\* However often a suggestion is sent and wherever it was interrupted, the model
\* is called at most once for it, and an attempt is done only when its result is
\* in the brief (proposal_attempts).
THEOREM ModelOnce == Spec => []OneInference
<1>1. IInv => OneInference
  BY Parts DEF AttemptsOK, OneInference
<1>. QED BY <1>1, Invariance, PTL

\* An edit that was confirmed is a version as it was sent, on top of the version
\* it named; one that was told of a newer version never becomes one.
THEOREM TrueAnswers == Spec => []AnswersAreTrue
<1>1. ASSUME IInv
      PROVE  AnswersAreTrue
  <2>1. ASSUME NEW a \in told
        PROVE  /\ a.verdict = "ok" => Saved(a.command, a.digest)
               /\ a.verdict = "newer" => Overtaken(a.command, a.digest)
    BY <1>1, Parts DEF EditsOK
  <2>. QED BY <2>1 DEF AnswersAreTrue, Saved, Overtaken
<1>. QED BY <1>1, Invariance, PTL

=============================================================================
