------------------------- MODULE MCRequestLifecycle -------------------------
EXTENDS RequestLifecycle, TLC

CONSTANTS r1, r2, i1, i2, i3, q1, q2

(* Instances are interchangeable. *)
Symmetry == Permutations(Instance)

=============================================================================
