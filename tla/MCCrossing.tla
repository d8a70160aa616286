------------------------------ MODULE MCCrossing ------------------------------
(* Instances of CrossingLogic for TLC. *)
EXTENDS CrossingLogic, TLC

CONSTANTS c1, c2, c3, t1, t2   \* model values

Sym == Permutations(Train)

=============================================================================
