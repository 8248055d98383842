--------------------------- MODULE MCConfiguration ---------------------------
(* Configuration with one section of two keys.  A file holds a table with    *)
(* either key or both, or a value in the place of the section; the           *)
(* environment sets one key, to either value, or nothing.                    *)
EXTENDS Configuration

CONSTANTS s1, k1, k2, v1, v2

MCWritten == {[s \in {s1} |-> n] :
                n \in {v1, [k \in {k1, k2} |-> v1],
                       [k \in {k1, k2} |-> IF k = k1 THEN v2 ELSE Unset]}}

MCVariables == {[s \in {s1} |-> n] :
                  n \in {Unset} \union
                        {[k \in {k1, k2} |-> IF k = k1 THEN v ELSE Unset] :
                           v \in {v1, v2}}}

MCInitialDisks == {d \in [File -> MCWritten \union {Absent, Broken}] :
                     /\ d["confdir/default"] = Absent
                     /\ d["config/main"] \in {Absent, [s \in {s1} |-> v1]}
                     /\ \A f \in File \ {"path"} : d[f] # Broken}
=============================================================================
