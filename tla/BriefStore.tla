----------------------------- MODULE BriefStore -----------------------------
(***************************************************************************)
(* Versioned game briefs (game_briefs.py, with the edit route of           *)
(* brief_web.py): one server process whose request threads create a brief, *)
(* save edits of it and ask the local model for a suggestion.  The briefs  *)
(* live in one SQLite database, Core's mission drafts in another, so that  *)
(* a create is two commits; a suggestion is a commit, a call of the model, *)
(* a commit of the result and a commit of the outcome.  Requests are sent  *)
(* again under the same command, the process is killed between any two     *)
(* steps, and any step may raise.                                          *)
(*                                                                         *)
(* One actor.  A brief's ident is a hash of its create command, so an idea *)
(* names both.  A transaction begins IMMEDIATE and is one step.            *)
(***************************************************************************)
EXTENDS Naturals, Sequences, FiniteSets

CONSTANTS
  Ideas,        \* create commands, and the briefs they make
  Edits,        \* command ids of edits
  Suggests,     \* command ids of suggestions
  Threads,      \* request threads
  Fields,       \* fields of a brief
  Asked,        \* those the product's fixed questions ask for
  Words,        \* what a field may hold
  Empty,        \* a field left blank
  Texts,        \* what a human or the model may fill in
  MaxRevision,  \* bound: versions of a brief
  MaxRequests,  \* bound: requests sent
  MaxFaults     \* bound: exceptions and kills

ASSUME BriefAssumptions ==
  /\ Asked \subseteq Fields
  /\ Empty \in Words /\ Texts \subseteq [Fields -> Words]
  /\ MaxRevision \in Nat \ {0} /\ MaxRequests \in Nat /\ MaxFaults \in Nat
  /\ "nobody" \notin Threads

VARIABLES
  missions,   \* mission drafts in Core's database
  briefs,     \* briefs[i]: its revisions, in order; empty before the create
  commands,   \* command rows: a command and the digest it was saved under
  attempts,   \* attempts[s]: proposal_attempts row
  thread,     \* thread[t]: the request it serves and how far it got
  coreLock,   \* thread that holds core_lock
  modelLock,  \* thread that holds the model's lock
  inferences, \* inferences[s]: calls of the model, for the property
  told,       \* answers given to edits, for the property
  requests, faults  \* counters of the bounds

vars == <<missions, briefs, commands, attempts, thread, coreLock, modelLock,
          inferences, told, requests, faults>>
database == <<missions, briefs, commands, attempts>>
history  == <<inferences, told>>

Blank    == [f \in Fields |-> Empty]
Nobody   == "nobody"
Versions == 0 .. MaxRevision

Commands == ({"create"} \X Ideas) \cup ({"edit"} \X Edits) \cup ({"result"} \X Suggests)

Filled(fields) == {f \in Fields : fields[f] # Empty}

Contents == [Fields -> Words]

\* from: the version whose questions the proposal was made from.
Revision == [kind : {"human_edited", "ai_proposal"}, fields : Contents,
             questions : SUBSET Asked, answered : SUBSET Fields, human : SUBSET Fields,
             command : Commands, from : Versions]

Digest == [brief : Ideas, expected : Versions, fields : Contents,
           questions : SUBSET Asked, answers : SUBSET Fields]

Steps == {"idle", "create", "intake", "record", "edit", "save", "read",
          "suggest", "propose", "infer", "result", "reread", "done", "failed"}

NoAttempt == [brief |-> Empty, expected |-> 0, status |-> "none"]

Idle == [pc |-> "idle", command |-> Empty, brief |-> Empty, expected |-> 0,
         fields |-> Blank, questions |-> {}, answers |-> {}, from |-> 0]

TypeOK ==
  /\ missions \subseteq Ideas
  /\ briefs \in [Ideas -> Seq(Revision)] /\ \A i \in Ideas : Len(briefs[i]) <= MaxRevision
  /\ commands \subseteq [command : Commands, digest : Digest]
  /\ \A k, l \in commands : k.command = l.command => k = l
  /\ attempts \in [Suggests -> [brief : Ideas \cup {Empty}, expected : Versions,
                                status : {"none", "started", "failed", "done"}]]
  /\ thread \in [Threads -> [pc : Steps, command : Ideas \cup Edits \cup Suggests \cup {Empty},
                             brief : Ideas \cup {Empty}, expected : Versions, fields : Contents,
                             questions : SUBSET Asked, answers : SUBSET Fields, from : Versions]]
  /\ coreLock \in Threads \cup {Nobody} /\ modelLock \in Threads \cup {Nobody}
  /\ \A t \in Threads : /\ thread[t].pc \in {"intake", "record"} <=> coreLock = t
                        /\ thread[t].pc = "infer" <=> modelLock = t
  /\ inferences \in [Suggests -> Nat]
  /\ told \subseteq [command : Edits, digest : Digest,
                     verdict : {"ok", "differs", "newer", "invalid"}]
  /\ requests \in 0 .. MaxRequests /\ faults \in 0 .. MaxFaults

Init ==
  /\ missions = {} /\ briefs = [i \in Ideas |-> <<>>] /\ commands = {}
  /\ attempts = [s \in Suggests |-> NoAttempt]
  /\ thread = [t \in Threads |-> Idle]
  /\ coreLock = Nobody /\ modelLock = Nobody
  /\ inferences = [s \in Suggests |-> 0] /\ told = {}
  /\ requests = 0 /\ faults = 0

-----------------------------------------------------------------------------
(* Requests arrive; a command may be sent any number of times. *)

Arrive(t, r) ==
  /\ thread[t].pc = "idle" /\ requests < MaxRequests
  /\ thread' = [thread EXCEPT ![t] = r]
  /\ requests' = requests + 1
  /\ UNCHANGED <<database, coreLock, modelLock, history, faults>>

SendCreate(t, i) == Arrive(t, [Idle EXCEPT !.pc = "create", !.command = i, !.brief = i])

\* The client names a version it was shown.
SendEdit(t, e, i, expected, fields, answers) ==
  /\ expected <= Len(briefs[i]) /\ answers \subseteq Filled(fields)
  /\ Arrive(t, [Idle EXCEPT !.pc = "edit", !.command = e, !.brief = i, !.expected = expected,
                            !.fields = fields, !.answers = answers])

SendSuggest(t, s, i, expected) ==
  /\ expected <= Len(briefs[i])
  /\ Arrive(t, [Idle EXCEPT !.pc = "suggest", !.command = s, !.brief = i,
                            !.expected = expected])

Goto(t, pc) == thread' = [thread EXCEPT ![t].pc = pc]
End(t)      == thread' = [thread EXCEPT ![t] = Idle]

-----------------------------------------------------------------------------
(* create: a draft in Core's database, then the brief in this one. *)

Known(command) == \E k \in commands : k.command = command

\* core_lock is taken; a command on record is answered at once.
CreateLocked(t) ==
  /\ thread[t].pc = "create" /\ coreLock = Nobody
  /\ IF Known(<<"create", thread[t].brief>>) THEN End(t) /\ UNCHANGED coreLock
     ELSE Goto(t, "intake") /\ coreLock' = t
  /\ UNCHANGED <<database, modelLock, history, requests, faults>>

\* Core finds the mission of an earlier try by its command id.
Intake(t) ==
  /\ thread[t].pc = "intake"
  /\ missions' = missions \cup {thread[t].brief}
  /\ Goto(t, "record")
  /\ UNCHANGED <<briefs, commands, attempts, coreLock, modelLock, history, requests, faults>>

Record(t) ==
  LET i == thread[t].brief
  IN  /\ thread[t].pc = "record"
      /\ briefs' = [briefs EXCEPT ![i] = <<[kind |-> "human_edited", fields |-> Blank,
                      questions |-> {}, answered |-> {}, human |-> {},
                      command |-> <<"create", i>>, from |-> 0]>>]
      /\ commands' = commands \cup
           {[command |-> <<"create", i>>,
             digest |-> [brief |-> i, expected |-> 0, fields |-> Blank,
                         questions |-> {}, answers |-> {}]]}
      /\ coreLock' = Nobody
      /\ End(t)
      /\ UNCHANGED <<missions, attempts, modelLock, history, requests, faults>>

-----------------------------------------------------------------------------
(* save: one transaction of an edit, or of a suggestion's result. *)

Current(i) == briefs[i][Len(briefs[i])]

DigestOf(r) == [brief |-> r.brief, expected |-> r.expected, fields |-> r.fields,
                questions |-> r.questions, answers |-> r.answers]

\* Variant: the last writer wins.
AnyVersion(i, expected) == expected >= 1

SameVersion(i, expected) == expected >= 1 /\ Len(briefs[i]) = expected

Pending(i, answers) == answers \subseteq Current(i).questions

\* Variant: a known command is not compared with the one on record.
AnyDigest(r, command) == TRUE

SameDigest(r, command) == [command |-> command, digest |-> DigestOf(r)] \in commands

\* What a request that makes no version is told; "new" when it makes one.
Refusal(r, command) ==
  IF Known(command)
  THEN IF SameDigest(r, command) THEN "ok" ELSE "differs"
  ELSE IF ~SameVersion(r.brief, r.expected) THEN "newer"
  ELSE IF ~Pending(r.brief, r.answers) THEN "invalid" ELSE "new"

HumanFields(r, kind) ==
  IF kind = "human_edited" THEN Filled(r.fields) ELSE Current(r.brief).human

Save(r, command, kind) ==
  /\ Len(briefs[r.brief]) < MaxRevision
  /\ briefs' = [briefs EXCEPT ![r.brief] = Append(@,
       [kind |-> kind, fields |-> r.fields, questions |-> r.questions,
        answered |-> r.answers, human |-> HumanFields(r, kind),
        command |-> command, from |-> r.from])]
  /\ commands' = commands \cup {[command |-> command, digest |-> DigestOf(r)]}

Tell(r, verdict) ==
  told' = told \cup {[command |-> r.command, digest |-> DigestOf(r), verdict |-> verdict]}

\* The edit route reads the current version to carry its questions over.
EditRead(t) ==
  LET r == thread[t]
  IN  /\ r.pc = "edit" /\ briefs[r.brief] # <<>>
      /\ thread' = [thread EXCEPT ![t].pc = "save",
                      ![t].from = Len(briefs[r.brief]),
                      ![t].questions = Current(r.brief).questions \ r.answers]
      /\ UNCHANGED <<database, coreLock, modelLock, history, requests, faults>>

EditSave(t) ==
  LET r == thread[t]
      command == <<"edit", r.command>>
  IN  /\ r.pc = "save"
      /\ IF Refusal(r, command) = "new"
         THEN /\ Save(r, command, "human_edited")
              /\ Goto(t, "read") /\ UNCHANGED told
         ELSE /\ Tell(r, Refusal(r, command))
              /\ End(t) /\ UNCHANGED <<briefs, commands>>
      /\ UNCHANGED <<missions, attempts, coreLock, modelLock, inferences, requests, faults>>

\* The brief is read once more for the answer.
EditAnswer(t) ==
  /\ thread[t].pc = "read"
  /\ Tell(thread[t], "ok")
  /\ End(t)
  /\ UNCHANGED <<database, coreLock, modelLock, inferences, requests, faults>>

-----------------------------------------------------------------------------
(* suggest *)

\* Variant: an attempt that did not finish may be made again.
Unfinished(s) == attempts[s].status \in {"none", "started", "failed"}

Unused(s) == attempts[s].status = "none"

\* A used command is answered with the brief or a conflict; so is a stale version.
SuggestRefused(t) ==
  LET r == thread[t]
  IN  /\ r.pc = "suggest"
      /\ ~Unused(r.command) \/ Len(briefs[r.brief]) # r.expected
      /\ End(t)
      /\ UNCHANGED <<database, coreLock, modelLock, history, requests, faults>>

SuggestBegin(t) ==
  LET r == thread[t]
  IN  /\ r.pc = "suggest"
      /\ Unused(r.command) /\ Len(briefs[r.brief]) = r.expected /\ r.expected > 0
      /\ attempts' = [attempts EXCEPT ![r.command] =
                        [brief |-> r.brief, expected |-> r.expected, status |-> "started"]]
      /\ thread' = [thread EXCEPT ![t].pc = "propose", ![t].from = Len(briefs[r.brief])]
      /\ UNCHANGED <<missions, briefs, commands, coreLock, modelLock, history, requests, faults>>

Unlocked == modelLock = Nobody

\* The model serves one request at a time and makes no one wait.
Propose(t) ==
  /\ thread[t].pc = "propose"
  /\ IF Unlocked
     THEN /\ modelLock' = t /\ Goto(t, "infer")
          /\ inferences' = [inferences EXCEPT ![thread[t].command] = @ + 1]
     ELSE Goto(t, "failed") /\ UNCHANGED <<modelLock, inferences>>
  /\ UNCHANGED <<database, coreLock, told, requests, faults>>

\* Variant: a suggestion replaces what it has words for.
ModelFirst(brief, proposed) ==
  [f \in Fields |-> IF proposed[f] = Empty THEN brief.fields[f] ELSE proposed[f]]

\* Saved human choices stay in front of the model's.
Retained(brief, proposed) ==
  [f \in Fields |-> IF f \in brief.human THEN brief.fields[f] ELSE proposed[f]]

\* The selection of source statements, with the fixed questions for the gaps.
Infer(t, proposed) ==
  LET brief == briefs[thread[t].brief][thread[t].expected]
  IN  /\ thread[t].pc = "infer"
      /\ thread' = [thread EXCEPT ![t].pc = "result",
                      ![t].fields = Retained(brief, proposed),
                      ![t].questions = (Asked \ Filled(proposed)) \ brief.human]
      /\ modelLock' = Nobody
      /\ UNCHANGED <<database, coreLock, history, requests, faults>>

ResultSave(t) ==
  LET r == thread[t]
      command == <<"result", r.command>>
  IN  /\ r.pc = "result"
      /\ IF Refusal(r, command) = "new"
         THEN Save(r, command, "ai_proposal") /\ Goto(t, "reread")
         ELSE /\ Goto(t, IF Refusal(r, command) = "ok" THEN "reread" ELSE "failed")
              /\ UNCHANGED <<briefs, commands>>
      /\ UNCHANGED <<missions, attempts, coreLock, modelLock, history, requests, faults>>

ResultRead(t) ==
  /\ thread[t].pc = "reread" /\ Goto(t, "done")
  /\ UNCHANGED <<database, coreLock, modelLock, history, requests, faults>>

\* The outcome is a commit of its own.
MarkAttempt(t) ==
  /\ thread[t].pc \in {"done", "failed"}
  /\ attempts' = [attempts EXCEPT ![thread[t].command].status = thread[t].pc]
  /\ End(t)
  /\ UNCHANGED <<missions, briefs, commands, coreLock, modelLock, history, requests, faults>>

-----------------------------------------------------------------------------
(* Failures. *)

\* A step raises: locks are let go, and an attempt that was recorded is marked.
Raise(t) ==
  LET pc == thread[t].pc
  IN  /\ pc # "idle" /\ faults < MaxFaults
      /\ IF pc \in {"propose", "infer", "result", "reread"} THEN Goto(t, "failed") ELSE End(t)
      /\ coreLock' = IF coreLock = t THEN Nobody ELSE coreLock
      /\ modelLock' = IF modelLock = t THEN Nobody ELSE modelLock
      /\ faults' = faults + 1
      /\ UNCHANGED <<database, history, requests>>

\* The process is killed and started again.
Restart ==
  /\ faults < MaxFaults
  /\ thread' = [t \in Threads |-> Idle]
  /\ coreLock' = Nobody /\ modelLock' = Nobody
  /\ faults' = faults + 1
  /\ UNCHANGED <<database, history, requests>>

Next ==
  \/ \E t \in Threads :
       \/ \E i \in Ideas :
            \/ SendCreate(t, i)
            \/ \E e \in Edits, v \in 1 .. MaxRevision, fields \in Texts, a \in SUBSET Asked :
                 SendEdit(t, e, i, v, fields, a)
            \/ \E s \in Suggests, v \in 1 .. MaxRevision : SendSuggest(t, s, i, v)
       \/ CreateLocked(t) \/ Intake(t) \/ Record(t)
       \/ EditRead(t) \/ EditSave(t) \/ EditAnswer(t)
       \/ SuggestRefused(t) \/ SuggestBegin(t) \/ Propose(t)
       \/ \E proposed \in Texts \cup {Blank} : Infer(t, proposed)
       \/ ResultSave(t) \/ ResultRead(t) \/ MarkAttempt(t)
       \/ Raise(t)
  \/ Restart

Spec == Init /\ [][Next]_vars

-----------------------------------------------------------------------------
(* Properties. *)

\* A brief begins with its mission in Core.  Every version was made by one
\* command, from the version before it: its questions were carried over from
\* there, and the answers in it answer them, although the edit route and the
\* model read long before the save (expected in save and suggest).
BuildsOnLast ==
  \A i \in Ideas : \A n \in DOMAIN briefs[i] :
    LET v == briefs[i][n]
    IN  /\ \A j \in Ideas : \A m \in DOMAIN briefs[j] :
             briefs[j][m].command = v.command => <<j, m>> = <<i, n>>
        /\ n = 1 => i \in missions /\ v.command = <<"create", i>>
        /\ n > 1 => /\ v.from = n - 1
                    /\ v.answered \subseteq briefs[i][n - 1].questions
                    /\ v.questions \cap v.answered = {}

\* What a human last filled in outlives every suggestion after it, and is not
\* asked for again (human_fields in suggest and save).
HumanChoicesKept ==
  \A i \in Ideas : \A m, n \in DOMAIN briefs[i] :
    /\ m < n /\ briefs[i][m].kind = "human_edited"
    /\ \A k \in m + 1 .. n : briefs[i][k].kind = "ai_proposal"
    => \A f \in Filled(briefs[i][m].fields) :
         briefs[i][n].fields[f] = briefs[i][m].fields[f] /\ f \notin briefs[i][n].questions

\* However often a suggestion is asked for under one command, and wherever it
\* was interrupted, the model is called at most once, and an attempt is done
\* only when its result is in the brief (proposal_attempts).
OneInference ==
  \A s \in Suggests :
    /\ inferences[s] <= 1
    /\ attempts[s].status = "done" => Known(<<"result", s>>)
    /\ Known(<<"result", s>>) => inferences[s] = 1 /\ attempts[s].status # "none"

\* An edit that was confirmed is a version of its brief as it was sent, on top
\* of the version it named; one that was told of a newer version never becomes
\* one, whatever other copies of the request are on their way.
AnswersAreTrue ==
  \A a \in told :
    LET saved == \E n \in DOMAIN briefs[a.digest.brief] :
                   LET v == briefs[a.digest.brief][n]
                   IN  /\ n = a.digest.expected + 1 /\ v.command = <<"edit", a.command>>
                       /\ v.fields = a.digest.fields /\ v.answered = a.digest.answers
    IN  /\ a.verdict = "ok" => saved
        /\ a.verdict = "newer" => ~saved

=============================================================================
