----------------------------- MODULE Container ------------------------------
(***************************************************************************)
(* The dependency injection container (infrastructure/di/container.py with *)
(* components/dependency_resolver.py and service_registry.py), asked for   *)
(* services by several threads: the synchronous dependencies of the REST   *)
(* API run in a thread pool, each with a container.get of its own.         *)
(*                                                                         *)
(* A get may need others: a thread has a stack of calls.  Three locks are  *)
(* involved.  The resolver's is held while an instance is made, with all   *)
(* that it needs; the container's while a service is registered on demand; *)
(* both are re-entrant.  The registry's protects single reads and writes,  *)
(* which are steps here.                                                   *)
(***************************************************************************)
EXTENDS Integers, Sequences, FiniteSets

CONSTANTS
    Thread,
    Service,
    Registered,  \* [Service -> Scope]: what the start of the program registered
    Lazy,        \* the services with a lazy factory
    OnDemand,    \* the services with a registration function
    Sets,        \* [OnDemand -> SUBSET Service]: what that function registers
    Injectable,  \* the classes decorated @injectable
    Decorated,   \* those of them whose metadata says singleton
    Concrete,    \* the classes that can be made without a registration
    ByFactory,   \* the services made by a function that is given the container
    Needs,       \* [Service -> Seq(Service)]: what making a service asks for
    Uses,        \* [OnDemand -> Seq(Service)]: what a registration function asks for
    Fragile,     \* the services whose factory or constructor may raise
    MaxGets      \* bound: how many services one thread asks for

Scope == {"none", "transient", "singleton"}

ASSUME ContainerAssumption ==
    /\ Registered \in [Service -> Scope]
    /\ Lazy \subseteq Service /\ OnDemand \subseteq Service
    /\ Injectable \subseteq Concrete /\ Decorated \subseteq Injectable
    /\ Concrete \subseteq Service /\ ByFactory \subseteq Service
    /\ Fragile \subseteq Service
    /\ Needs \in [Service -> Seq(Service)]
    /\ Uses \in [OnDemand -> Seq(Service)]
    /\ Sets \in [OnDemand -> SUBSET Service]
    /\ MaxGets \in Nat

(* No service needs itself, whatever the way.                              *)
ASSUME AcyclicAssumption ==
    \E rank \in [Service -> 1 .. Cardinality(Service)] :
        /\ \A s \in Service : \A k \in DOMAIN Needs[s] : rank[Needs[s][k]] < rank[s]
        /\ \A s \in OnDemand : \A k \in DOMAIN Uses[s] : rank[Uses[s][k]] < rank[s]

(* What the program registers as singletons at its start, no registration  *)
(* function replaces.                                                      *)
ASSUME SetsAssumption ==
    \A s \in OnDemand : \A u \in Sets[s] : Registered[u] # "singleton"

VARIABLES
    registration,  \* ServiceRegistry._registrations: the scope of every service
    singletons,    \* ServiceRegistry._singletons, 0 where there is none
    lazyFactories, \* DIContainer._lazy_factories
    onDemand,      \* DIContainer._on_demand_registrations
    stack,         \* the calls every thread is in, the innermost last
    gets,          \* how many services a thread has asked for
    \* what happened
    made,          \* how many instances of a service were made
    given,         \* which of them were given to somebody
    refused        \* the services a thread asked for in vain

registry == <<registration, singletons, lazyFactories, onDemand>>
history  == <<made, given, refused>>
vars     == <<registry, stack, gets, history>>

(* One call: the service, whether it came through container.get or from    *)
(* the resolver, where it is, the scope that it read when it began to make *)
(* the instance, and what it has still to ask for.                         *)
Place == {"resolve", "making", "missed", "registering", "setup", "retry",
          "again", "makingAgain", "raised"}
Call == [of : Service, via : {"get", "resolver"}, at : Place,
         scope : Scope, left : Seq(Service)]

NewCall(s, via) ==
    [of |-> s, via |-> via, at |-> "resolve", scope |-> "none", left |-> <<>>]

Making == {"making", "makingAgain"}

Init ==
    /\ registration = Registered
    /\ singletons = [s \in Service |-> 0]
    /\ lazyFactories = Lazy
    /\ onDemand = OnDemand
    /\ stack = [t \in Thread |-> <<>>]
    /\ gets = [t \in Thread |-> 0]
    /\ made = [s \in Service |-> 0]
    /\ given = [s \in Service |-> {}]
    /\ refused = {}

Top(t)   == stack[t][Len(stack[t])]
Below(t) == SubSeq(stack[t], 1, Len(stack[t]) - 1)
At(t, P) == stack[t] # <<>> /\ Top(t).at \in P

HoldsResolver(t)  == \E k \in DOMAIN stack[t] : stack[t][k].at \in Making
HoldsContainer(t) == \E k \in DOMAIN stack[t] : stack[t][k].at = "setup"
(* a plausible fault: the resolver's lock is given back while an instance is made *)
ResolverFree_Never(t) == TRUE

ResolverFree(t)   == \A u \in Thread \ {t} : ~HoldsResolver(u)
ContainerFree(t)  == \A u \in Thread \ {t} : ~HoldsContainer(u)

Replace(t, call) == stack' = [stack EXCEPT ![t] = Append(Below(t), call)]
Move(t, p) == Replace(t, [Top(t) EXCEPT !.at = p])

(* Where an exception leaves the call that meets it: the first failure of  *)
(* a get may be cured by a registration on demand.                         *)
Failed(call) ==
    IF call.at \in {"resolve", "making"} /\ call.via = "get" THEN "missed" ELSE "raised"

Push(t, caller, call) == stack' = [stack EXCEPT ![t] = Append(Append(Below(t), caller), call)]
Unwind(t, caller) == stack' = [stack EXCEPT ![t] =
                        Append(SubSeq(stack[t], 1, Len(stack[t]) - 2), caller)]

-----------------------------------------------------------------------------
(* Plausible faults of the code, each in place of the operation it names.  *)

(* resolve: only classes can be made *)
Miss_ClassesOnly(t) ==
    /\ At(t, {"resolve", "again"})
    /\ ResolverFree(t)
    /\ Top(t).of \notin Concrete
    /\ Move(t, Failed(Top(t)))
    /\ UNCHANGED <<registry, gets, history>>

(* the lazy factory is taken out and used, but not registered *)
RegisterLazy_TakesOnly(t) ==
    /\ At(t, {"registering"})
    /\ ContainerFree(t)
    /\ Top(t).of \in lazyFactories
    /\ lazyFactories' = lazyFactories \ {Top(t).of}
    /\ Move(t, "retry")
    /\ UNCHANGED <<registration, singletons, onDemand, gets, history>>

(* the function registers its services with a kind of their own *)
FinishSetup_OwnScope(t) ==
    /\ At(t, {"setup"})
    /\ Top(t).left = <<>>
    /\ registration' = [s \in Service |->
            IF s \in Sets[Top(t).of] THEN "instance" ELSE registration[s]]
    /\ Move(t, "retry")
    /\ UNCHANGED <<singletons, lazyFactories, onDemand, gets, history>>

(* get: the registration on demand is tried after every failure *)
Registered_Now_NotAsked(t) ==
    /\ At(t, {"missed"})
    /\ Move(t, "registering")
    /\ UNCHANGED <<registry, gets, history>>

-----------------------------------------------------------------------------
(* container.get(s) *)
Get(t, s) ==
    /\ stack[t] = <<>>
    /\ gets[t] < MaxGets
    /\ gets' = [gets EXCEPT ![t] = @ + 1]
    /\ stack' = [stack EXCEPT ![t] = <<NewCall(s, "get")>>]
    /\ UNCHANGED <<registry, history>>

(* The call of t returns instance n of s to the one that waits for it.     *)
Return(t, s, n) ==
    /\ stack' = [stack EXCEPT ![t] = Below(t)]
    /\ given' = [given EXCEPT ![s] = @ \union {n}]

(* resolve: a singleton that was made before *)
SeeCached(t) ==
    /\ At(t, {"resolve", "again"})
    /\ ResolverFree(t)
    /\ LET s == Top(t).of
       IN /\ registration[s] = "singleton"
          /\ singletons[s] # 0
          /\ Return(t, s, singletons[s])
    /\ UNCHANGED <<registry, gets, made, refused>>

(* resolve: an instance is to be made.  A class that is not registered is  *)
(* registered on the way if it is injectable, too late for the scope that  *)
(* was read.                                                               *)
StartMaking(t) ==
    /\ At(t, {"resolve", "again"})
    /\ ResolverFree(t)
    /\ LET s == Top(t).of
       IN /\ registration[s] = "none" => s \in Concrete
          /\ registration[s] = "singleton" => singletons[s] = 0
          /\ Replace(t, [Top(t) EXCEPT
                !.at = IF @ = "again" THEN "makingAgain" ELSE "making",
                !.scope = registration[s],
                !.left = Needs[s]])
          /\ registration' = [registration EXCEPT ![s] =
                IF @ # "none" \/ s \notin Injectable THEN @
                ELSE IF s \in Decorated THEN "singleton" ELSE "transient"]
    /\ UNCHANGED <<singletons, lazyFactories, onDemand, gets, history>>

(* What is needed is asked for: by a factory of the container, by a class  *)
(* of the resolver.                                                        *)
Ask(t) ==
    /\ At(t, Making \union {"setup"})
    /\ Top(t).left # <<>>
    /\ LET via == IF Top(t).at = "setup" \/ Top(t).of \in ByFactory
                  THEN "get" ELSE "resolver"
       IN Push(t, [Top(t) EXCEPT !.left = Tail(@)], NewCall(Head(Top(t).left), via))
    /\ UNCHANGED <<registry, gets, history>>

(* The instance is made, and kept if its scope was singleton. *)
Make(t) ==
    /\ At(t, Making)
    /\ Top(t).left = <<>>
    /\ LET s == Top(t).of
       IN /\ made' = [made EXCEPT ![s] = @ + 1]
          /\ singletons' = IF Top(t).scope = "singleton"
                           THEN [singletons EXCEPT ![s] = made'[s]] ELSE singletons
          /\ Return(t, s, made'[s])
    /\ UNCHANGED <<registration, lazyFactories, onDemand, gets, refused>>

(* The factory or the constructor raises, at whatever point; nothing is    *)
(* kept.                                                                   *)
MakeRaises(t) ==
    /\ At(t, Making)
    /\ Top(t).of \in Fragile
    /\ Move(t, Failed(Top(t)))
    /\ UNCHANGED <<registry, gets, history>>

(* resolve: nobody registered it, and it is no class that can be made. *)
Miss(t) ==
    /\ At(t, {"resolve", "again"})
    /\ ResolverFree(t)
    /\ registration[Top(t).of] = "none"
    /\ Top(t).of \notin Concrete
    /\ Move(t, Failed(Top(t)))
    /\ UNCHANGED <<registry, gets, history>>

(* get, after a failure: the exception is raised again if the service is   *)
(* registered, be it by now.                                               *)
Registered_Now(t) ==
    /\ At(t, {"missed"})
    /\ Move(t, IF registration[Top(t).of] # "none" THEN "raised" ELSE "registering")
    /\ UNCHANGED <<registry, gets, history>>

(* _register_on_demand, under the container's lock *)
RegisterLazy(t) ==
    /\ At(t, {"registering"})
    /\ ContainerFree(t)
    /\ LET s == Top(t).of
       IN /\ s \in lazyFactories
          /\ lazyFactories' = lazyFactories \ {s}
          /\ registration' = [registration EXCEPT ![s] = "transient"]
    /\ Move(t, "retry")
    /\ UNCHANGED <<singletons, onDemand, gets, history>>

StartSetup(t) ==
    /\ At(t, {"registering"})
    /\ ContainerFree(t)
    /\ LET s == Top(t).of
       IN /\ s \in onDemand \ lazyFactories
          /\ onDemand' = onDemand \ {s}
          /\ Replace(t, [Top(t) EXCEPT !.at = "setup", !.left = Uses[s]])
    /\ UNCHANGED <<registration, singletons, lazyFactories, gets, history>>

(* Nothing is known of the service: an abstract class without a            *)
(* registration function.  (An injectable class has been registered when   *)
(* it was made.)                                                           *)
NothingToRegister(t) ==
    /\ At(t, {"registering"})
    /\ ContainerFree(t)
    /\ Top(t).of \notin onDemand \union lazyFactories
    /\ Move(t, "retry")
    /\ UNCHANGED <<registry, gets, history>>

(* The registration function has what it uses and registers instances. *)
FinishSetup(t) ==
    /\ At(t, {"setup"})
    /\ Top(t).left = <<>>
    /\ LET S == Sets[Top(t).of]
       IN /\ made' = [s \in Service |-> IF s \in S THEN made[s] + 1 ELSE made[s]]
          /\ singletons' = [s \in Service |-> IF s \in S THEN made'[s] ELSE singletons[s]]
          /\ registration' = [s \in Service |-> IF s \in S THEN "singleton" ELSE registration[s]]
    /\ Move(t, "retry")
    /\ UNCHANGED <<lazyFactories, onDemand, gets, given, refused>>

(* get, after the registration: a second and last attempt if there is one. *)
StillMissing(t) ==
    /\ At(t, {"retry"})
    /\ Move(t, IF registration[Top(t).of] # "none" THEN "again" ELSE "raised")
    /\ UNCHANGED <<registry, gets, history>>

(* The exception reaches the call that asked: making fails with it, for a  *)
(* get it may be the first failure; the registration functions swallow it  *)
(* and register nothing.                                                   *)
Propagate(t) ==
    /\ At(t, {"raised"})
    /\ Len(stack[t]) > 1
    /\ LET caller == stack[t][Len(stack[t]) - 1]
           p == IF caller.at = "setup" THEN "retry" ELSE Failed(caller)
       IN Unwind(t, [caller EXCEPT !.at = p])
    /\ UNCHANGED <<registry, gets, history>>

Refuse(t) ==
    /\ At(t, {"raised"})
    /\ Len(stack[t]) = 1
    /\ refused' = refused \union {Top(t).of}
    /\ stack' = [stack EXCEPT ![t] = <<>>]
    /\ UNCHANGED <<registry, gets, made, given>>

-----------------------------------------------------------------------------
Resolve(t) ==
    \/ SeeCached(t) \/ StartMaking(t) \/ Ask(t) \/ Make(t) \/ MakeRaises(t) \/ Miss(t)

Register(t) ==
    \/ Registered_Now(t) \/ RegisterLazy(t) \/ StartSetup(t) \/ NothingToRegister(t)
    \/ FinishSetup(t) \/ StillMissing(t)

Step(t) == Resolve(t) \/ Register(t) \/ Propagate(t) \/ Refuse(t)

Next == \E t \in Thread : Step(t) \/ \E s \in Service : Get(t, s)

Spec == Init /\ [][Next]_vars

(* A thread that can go on does so. *)
FairSpec == Spec /\ \A t \in Thread : WF_vars(Step(t))

-----------------------------------------------------------------------------
(* Every variable has its type; in particular no thread is deeper in calls *)
(* than services can need each other.                                      *)
TypeOK ==
    /\ registration \in [Service -> Scope]
    /\ singletons \in [Service -> Nat]
    /\ lazyFactories \subseteq Service
    /\ onDemand \subseteq OnDemand
    /\ stack \in [Thread -> Seq(Call)]
    /\ gets \in [Thread -> 0 .. MaxGets]
    /\ made \in [Service -> Nat]
    /\ given \in [Service -> SUBSET Nat]
    /\ refused \subseteq Service

(* However many threads ask for it at the same time, and whatever else is  *)
(* registered meanwhile, a service that was registered as a singleton is   *)
(* one instance for all (DependencyResolver.resolve).                      *)
OneInstance ==
    \A s \in Service :
        Registered[s] = "singleton" => Cardinality(given[s]) <= 1

(* s and all it needs, directly or not, can be made without the help of a  *)
(* registration on demand, and raises nothing of its own.                  *)
Sound(s) ==
    \E S \in SUBSET Service :
        /\ s \in S
        /\ \A u \in S :
             /\ Registered[u] # "none" \/ u \in Concrete
             /\ u \notin Fragile
             /\ \A k \in DOMAIN Needs[u] : Needs[u][k] \in S

(* A service that is registered with all it needs, none of which raises,   *)
(* is never refused as unregistered, even while other threads fail or      *)
(* register others (DIContainer.get).                                      *)
SoundIsServed == \A s \in refused : ~Sound(s)

(* What can be registered on demand stays so until it is registered: the   *)
(* registration functions are taken out before they run                    *)
(* (DIContainer._register_on_demand).                                      *)
NothingIsLost ==
    /\ \A s \in Lazy : s \in lazyFactories \/ registration[s] # "none"
    /\ \A s \in OnDemand :
         (s \in Sets[s] /\ \A k \in DOMAIN Uses[s] : Sound(Uses[s][k])) =>
             \/ s \in onDemand
             \/ registration[s] # "none"
             \/ \E t \in Thread : \E k \in DOMAIN stack[t] :
                   stack[t][k].of = s /\ stack[t][k].at = "setup"

(* A service that can be registered on demand is never refused             *)
(* (DIContainer.get).  Two threads that ask for it at the same time refute *)
(* it.                                                                     *)
LazyIsServed == refused \intersect Lazy = {}

(* A thread that asked for a service gets it or an exception: no two       *)
(* threads wait for each other's locks (resolver and container), though    *)
(* what is registered is made under the first lock and may fail, and a     *)
(* registration function asks for services under the second.  It is        *)
(* is_registered in DIContainer.get that keeps a failure of a registered   *)
(* service away from the second lock.                                      *)
EveryGetEnds == \A t \in Thread : stack[t] # <<>> ~> stack[t] = <<>>

=============================================================================
