--------------------------- MODULE MCObjectCleanup ---------------------------
(***************************************************************************)
(* ProtectedObjects with two objects, a bounded number of failures and a   *)
(* host that keeps calling cleanup: what must eventually happen.           *)
(***************************************************************************)
EXTENDS MCProtectedObjects

CONSTANTS
  MaxFaults,  \* bound: lost connections, abandoned operations, 409 answers
  Cleaner     \* the client whose host calls cleanup again and again

VARIABLE faults

BoundedNext ==
  \/ Step /\ UNCHANGED faults
  \/ Fault /\ faults < MaxFaults /\ faults' = faults + 1

\* A thread goes on until its operation ends.  It competes for the advisory
\* lock, which PostgreSQL grants in the order of the requests.
Progress(c) ==
  \/ Continue(c)
  \/ job[c].pc = "cleaning" /\ \E o \in Objects : Delete(c, o)

FairSpec ==
  /\ Init /\ faults = 0
  /\ [][BoundedNext]_<<vars, faults>>
  /\ \A c \in Clients : SF_vars(Progress(c))
  /\ SF_vars(StartCleanup(Cleaner))

\* A committed deletion is confirmed, whichever thread started it and wherever
\* it stopped (docs/protected-objects.md: cleanup handles interrupted deletions).
DeletionIsConfirmed ==
  \A o \in Objects : state[o] = "deleting" ~> state[o] = "deleted"

\* No expired and unreferenced object, reserved or ready, is left behind for
\* ever, although each cleanup call takes only the oldest rows.
ExpiredIsErased ==
  \A o \in Objects :
    []<>~(state[o] \in {"pending", "ready", "deleting"} /\ o \in lapsed /\ refs[o] = {})

==============================================================================
