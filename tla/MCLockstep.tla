----------------------------- MODULE MCLockstep -----------------------------
(* Lockstep on small instances: clients and tools are model values, and the *)
(* runs without liveness properties identify states that differ by their    *)
(* names only.                                                               *)
EXTENDS LockstepRefinement, TLC

CONSTANTS c1, c2, t1, t2

Sym == Permutations(Client) \cup Permutations(Tool)

=============================================================================
