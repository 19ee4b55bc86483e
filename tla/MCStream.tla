------------------------------ MODULE MCStream ------------------------------
(***************************************************************************)
(* Instances of Stream for TLC.  Two tasks are enough for one to be woken  *)
(* while the scan still holds the other's future; three stanzas and a      *)
(* queue of two make the queue overflow.                                   *)
(***************************************************************************)
EXTENDS Stream, TLC

CONSTANTS t1, t2, a, b, err

MCTasks == {t1, t2}
MCKinds == {a, b, err}
OneTimed == {t2}
Sym == Permutations({a, b})
=============================================================================
