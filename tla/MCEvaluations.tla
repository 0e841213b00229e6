--------------------------- MODULE MCEvaluations ---------------------------
(* Small instances of Evaluations for TLC.                                 *)
EXTENDS Evaluations, TLC

CONSTANTS Ann, Bob

Symmetry == Permutations(Req)
=============================================================================
