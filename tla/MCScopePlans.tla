---------------------------- MODULE MCScopePlans ----------------------------
(* Instance of ScopePlans: one brief on record and one to be created. *)
EXTENDS ScopePlans

CONSTANTS garden, cave, c0

mcFirstDraft == [i \in {garden} |-> c0]
=============================================================================
