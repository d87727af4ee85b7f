------------------------- MODULE MCProtectedObjects -------------------------
(* Small instances of ProtectedObjects for TLC. *)
EXTENDS ProtectedObjects, TLC

CONSTANTS o1, o2, m1, m2

\* The second manifest is the larger one: it fits only once a limit is raised.
MCSize == (m1 :> 1) @@ (m2 :> 2)

MCSize1 == m1 :> 1

Symmetry == Permutations(Clients)

=============================================================================
