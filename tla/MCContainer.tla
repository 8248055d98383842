---------------------------- MODULE MCContainer -----------------------------
(***************************************************************************)
(* Services like those of the program: a logger, a store and a REST        *)
(* handler (singletons made by factories), the query bus (transient, its   *)
(* factory may raise), a service with a lazy factory, an injectable class, *)
(* a port nobody registers and a service that is set up on demand.         *)
(***************************************************************************)
EXTENDS Container

CONSTANTS t1, t2, logger, store, bus, handler, lazy, class, port, setup

Scopes == [s \in Service |->
    CASE s \in {logger, store, handler} -> "singleton"
      [] s = bus -> "transient"
      [] OTHER -> "none"]

NeededBy == [s \in Service |->
    CASE s \in {store, bus} -> <<logger>>
      [] s = class -> <<store>>
      [] s = handler -> <<bus, lazy>>
      [] OTHER -> <<>>]

(* A registration function that asks for nothing, as register_scheduler_lazy, *)
(* and one that asks for the logger and is for a service that the start of    *)
(* the program has registered, as setup_cqrs_lazy for the buses.              *)
SetupUses == [s \in {setup, bus} |-> IF s = bus THEN <<logger>> ELSE <<>>]
SetupSets == [s \in {setup, bus} |-> {s}]

=============================================================================
