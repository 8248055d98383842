----------------------------- MODULE MCJsonStore -----------------------------
EXTENDS JsonStore, TLC

CONSTANTS s1, s2, a, b, v, w

(* ids that operations name one by one, and both at once *)
OneOrBoth == {{a}, {b}, {a, b}}
OneByOne == {{a}, {b}}
BothAtOnce == {{a, b}}

Symmetry == Permutations({v, w})
=============================================================================
