---------------------------- MODULE MCBriefStore ----------------------------
(* Instance of BriefStore: two fields, one of them asked for, and two texts. *)
EXTENDS BriefStore, TLC

CONSTANTS loop, genre, seeds, stars, t1, t2

mcFields  == {loop, genre}
mcAsked   == {loop}
mcWords   == {seeds, stars, Empty}
mcTexts   == {loop :> seeds @@ genre :> Empty, loop :> Empty @@ genre :> stars,
              loop :> stars @@ genre :> Empty}
mcThreads == {t1, t2}
mcSymmetry == Permutations(mcThreads)
=============================================================================
