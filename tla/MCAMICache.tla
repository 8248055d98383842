---------------------------- MODULE MCAMICache ------------------------------
EXTENDS AMICache, TLC

CONSTANTS p1, p2, a, b, i1, i2

(* Each parameter has an image of its own. *)
OneEach == [q \in Param |-> IF q = a THEN {i1} ELSE {i2}]

(* A torn file that gives a parameter the image of the other and a time    *)
(* that is still to come.                                                  *)
Foreign == {[q \in Param |-> IF q = a THEN [image |-> i2, at |-> MaxTime] ELSE NoEntry]}

Symmetry == Permutations({p1, p2})
=============================================================================
