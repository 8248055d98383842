----------------------------- MODULE EntityStore -----------------------------
(***************************************************************************)
(* What StoragePort promises its callers: entities by id, changed by one   *)
(* operation at a time, each of which takes effect as a whole or not at    *)
(* all.  save names one entity, save_batch several; deleting stores        *)
(* Absent.                                                                 *)
(***************************************************************************)
CONSTANTS Key, Value, Absent,
          BatchOf   \* the sets of ids one operation may name

VARIABLE entities

Init == entities = [k \in Key |-> Absent]

Change(keys, data) ==
    entities' = [k \in Key |-> IF k \in keys THEN data ELSE entities[k]]

Next == \E keys \in BatchOf, data \in Value \cup {Absent} : Change(keys, data)

Spec == Init /\ [][Next]_entities
=============================================================================
