------------------------------ MODULE MCRWLock ------------------------------
(* Three interchangeable threads: two readers against a writer, or two     *)
(* writers against a reader.                                               *)
EXTENDS RWLock, TLC

CONSTANTS t1, t2, t3

MCThread == {t1, t2, t3}
Symmetry == Permutations(MCThread)
=============================================================================
