------------------------------ MODULE MCGroups ------------------------------
(* Small instances of Groups for TLC.                                      *)
EXTENDS Groups, TLC

CONSTANTS Ann, Bob

Symmetry == Permutations(Req)
=============================================================================
