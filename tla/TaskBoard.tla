----------------------------- MODULE TaskBoard -----------------------------
(***************************************************************************)
(* What scripts/team.py promises its workers: a board of tasks that        *)
(* changes by one command at a time.  A claim takes a planned task, with   *)
(* its dependencies finished, for a worker and an area of paths no other   *)
(* active task holds; every later command on the task is under that claim, *)
(* and a claim is never used again after its release.                      *)
(***************************************************************************)
EXTENDS Naturals

CONSTANTS Tasks, Workers, Dependencies, Resources, Claims, Paths, None

VARIABLES
  board,  \* board[t]: status, owner, claim and area of a task
  used    \* claims made so far

Active == {"claimed", "review"}

Init ==
  /\ board = [t \in Tasks |-> [status |-> "planned", owner |-> None, claim |-> 0, area |-> {}]]
  /\ used = {}

Free(t, area) ==
  \A u \in Tasks \ {t} : board[u].status \in Active =>
    board[u].area \cap area = {} /\ Resources[u] \cap Resources[t] = {}

\* Dependencies finished.
Ready(t) == \A d \in Dependencies[t] : board[d].status = "done"

Claim(t) ==
  \E w \in Workers, claim \in Claims \ used, area \in (SUBSET Paths) \ {{}} :
    /\ board[t].status = "planned" /\ Ready(t) /\ Free(t, area)
    /\ board' = [board EXCEPT ![t] = [status |-> "claimed", owner |-> w,
                                      claim |-> claim, area |-> area]]
    /\ used' = used \cup {claim}

\* The holder of a claim carries on with status and area.
Carry(t, from, status, area) ==
  /\ board[t].status \in from
  /\ board' = [board EXCEPT ![t].status = status, ![t].area = area]
  /\ UNCHANGED used

Rescope(t) ==
  \E area \in (SUBSET Paths) \ {{}} :
    Free(t, area) /\ Carry(t, Active, board[t].status, area)

Block(t)    == Carry(t, Active, "blocked", {})
Review(t)   == Ready(t) /\ Carry(t, Active, "review", board[t].area)
Complete(t) == Ready(t) /\ Carry(t, {"review"}, "done", {})

Release(t) ==
  /\ board[t].status \in Active \cup {"blocked"}
  /\ board' = [board EXCEPT ![t] = [@ EXCEPT !.status = "planned", !.owner = None, !.area = {}]]
  /\ UNCHANGED used

Next ==
  \E t \in Tasks :
    Claim(t) \/ Rescope(t) \/ Block(t) \/ Review(t) \/ Complete(t) \/ Release(t)

Spec == Init /\ [][Next]_<<board, used>>

=============================================================================
