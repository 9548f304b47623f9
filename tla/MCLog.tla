------------------------------- MODULE MCLog --------------------------------
(* Instances of Log for TLC.                                               *)
EXTENDS Log, TLC

CONSTANTS p1, p2, p3, b1, b2, b3, b4, b5, b6, v1, v2

Symmetry == Permutations(Proc) \cup Permutations(Block)
=============================================================================
