---------------------------- MODULE MCHostedStore ----------------------------
(* A small instance of HostedStore for TLC. *)
EXTENDS HostedStore, TLC

CONSTANTS r1, r2, d1, d2, d3

\* d1 and d2 differ in their body only, d3 names another source or build.
MCIdentity == (d1 :> "a") @@ (d2 :> "a") @@ (d3 :> "b")

MCIdentity1 == d1 :> "a"

Exported(r, n, d) == [id |-> r, revision |-> n, doc |-> d]

\* A snapshot of one record at an earlier and at a later revision, and one that
\* holds two records, so that a conflict on the second undoes the first.
MCSnapshots == {{Exported(r1, 1, d1)},
                {Exported(r2, 1, d1), Exported(r1, 2, d2)}}

==============================================================================
