----------------------------- MODULE MCIdentity -----------------------------
(* Instance of Identity for TLC; the values are in the .cfg. *)
EXTENDS Identity
=============================================================================
