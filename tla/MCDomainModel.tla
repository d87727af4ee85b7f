--------------------------- MODULE MCDomainModel ---------------------------
(* An owner with every scope and a helper who may cancel and delete for a while; *)
(* four kinds of behaviour, each with its own bounds.                            *)
EXTENDS DomainModel

mcGrants == [a \in Actors |->
  IF a = "owner" THEN {Operations[o].scope : o \in DOMAIN Operations}
  ELSE {"runs:cancel", "projects:delete"}]
mcSession == [a \in Actors |-> IF a = "owner" THEN MaxNow + 1 ELSE 1]

mcRequired == [readiness |-> {"tools"}, execution |-> {"execution"}, build_evidence |-> {"smoke"}]

AllOps == DOMAIN Operations
Commands5(run, build, release, listing, project) ==
  [Run |-> run, Build |-> build, Release |-> release, Listing |-> listing, Project |-> project]

\* Every command, with nothing that expires.
lifecycle ==
  [actors |-> {"owner"}, ops |-> AllOps, commands |-> Commands5(4, 1, 1, 1, 1),
   checks |-> [Run |-> 2, Build |-> 1], now |-> 0, failures |-> FALSE, fickle |-> {}, rights |-> {}]

\* Retries of a run: failed and late reports, expired evidence, a quarantined source.
attempts ==
  [lifecycle EXCEPT !.ops = {o \in AllOps : Operations[o].entity = "Run"}, !.now = 1,
   !.checks = [Run |-> 2, Build |-> 0], !.commands = Commands5(4, 0, 0, 0, 0),
   !.failures = TRUE, !.fickle = {"source"}]

\* Repeated commands of two people, while receipts and a session expire.
repeats ==
  [lifecycle EXCEPT !.actors = {"owner", "helper"}, !.now = 2, !.fickle = {"tenant"},
   !.checks = [Run |-> 0, Build |-> 0], !.commands = Commands5(4, 0, 0, 0, 1),
   !.ops = {"run_block", "run_cancel", "run_retry", "project_delete"}]

\* From a build to a published listing and back, while rights are withdrawn.
publication ==
  [lifecycle EXCEPT !.now = 1, !.fickle = {"source"}, !.rights = {{"build"}, {"publish", "sell"}},
   !.commands = Commands5(3, 2, 2, 2, 1),
   !.ops = {"run_qualify", "run_start", "run_succeed", "build_qualify", "build_block",
            "release_approve", "release_withdraw", "listing_publish", "listing_withdraw",
            "project_delete"}]

mcBounds == {lifecycle, attempts, repeats, publication}

=============================================================================
