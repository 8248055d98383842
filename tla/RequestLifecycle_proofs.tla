----------------------- MODULE RequestLifecycle_proofs -----------------------
(***************************************************************************)
(* For any requests, instances and queries, any count and any faults:      *)
(* what the stored status of a request says of its machines is so, no      *)
(* request has more machines than it asked for, a reply that says COMPLETED *)
(* lists all machines or none, and an older status is stored in the place  *)
(* of a newer one only by a query that another one met.                    *)
(***************************************************************************)
EXTENDS RequestLifecycle, FiniteSetTheorems, TLAPS

(* A stored machine is one that was launched, and for its own request. *)
Owned ==
    \A i \in Instance :
        /\ machine[i] # None => launchedFor[i] = machine[i].request
        /\ launchedFor[i] # None => cloud[i] # "none"

(* The handler records what the launch answered, and nothing else. *)
Results ==
    \A r \in Request :
        /\ answer[r] \subseteq LaunchedFor(r) /\ Cardinality(answer[r]) <= Count
        /\ found[r] \subseteq LaunchedFor(r) /\ Cardinality(found[r]) <= Count
        /\ MachinesOf(r) \subseteq found[r]
        /\ todo[r] \subseteq found[r]

Says(s, n) ==
    /\ s = "completed" => n = Count
    /\ s = "partial" => 0 < n /\ n < Count
    /\ s = "in_progress" => n = 0

(* Where the handler is tells what it has stored so far. *)
Progress ==
    \A r \in Request :
        /\ pc[r] \in {"idle", "dryRun", "launching", "requesting", "describing", "raised"}
             => found[r] = {}
        /\ pc[r] = "recording" => MachinesOf(r) = found[r] \ todo[r]
        /\ pc[r] = "saving" => Says(status[r], Cardinality(MachinesOf(r)))
        /\ request[r] # None <=> pc[r] = "answered"

(* A query lists stored machines, each with the request it still has. *)
Listed ==
    \A q \in Query, i \in Instance :
        /\ query[q].machines[i] # None =>
             machine[i] # None /\ query[q].machines[i].request = machine[i].request
        /\ query[q].news[i] # None =>
             machine[i] # None /\ query[q].news[i].request = machine[i].request
        /\ i \in query[q].todo => query[q].news[i] # None

IInv ==
    /\ TypeOK
    /\ Owned
    /\ Results
    /\ Progress
    /\ StatusCountsMachines
    /\ Listed

-----------------------------------------------------------------------------
USE LifecycleAssumption

LEMMA MachinesOfStay ==
    machine' = machine => \A r \in Request : MachinesOf(r)' = MachinesOf(r)
BY DEF MachinesOf

LEMMA LaunchedForStay ==
    launchedFor' = launchedFor => \A r \in Request : LaunchedFor(r)' = LaunchedFor(r)
BY DEF LaunchedFor

LEMMA InitIInv == Init => IInv
<1> SUFFICES ASSUME Init PROVE IInv
    OBVIOUS
<1>1. \A r \in Request : MachinesOf(r) = {}
    BY DEF Init, MachinesOf
<1>2. Cardinality({}) = 0
    BY FS_EmptySet
<1>3. TypeOK
    BY DEF Init, TypeOK, Location, RequestStatus, QueryState, Listing, Idle, NoMachines
<1>4. Owned
    BY DEF Init, Owned
<1>5. Results
    BY <1>1, <1>2 DEF Init, Results
<1>6. Progress
    BY <1>1 DEF Init, Progress
<1>7. StatusCountsMachines
    BY DEF Init, StatusCountsMachines
<1>8. Listed
    BY DEF Init, Listed, Idle, NoMachines
<1> QED
    BY <1>3, <1>4, <1>5, <1>6, <1>7, <1>8 DEF IInv

-----------------------------------------------------------------------------
(* What a step leaves as it was keeps what is said of it. *)

LEMMA HandlerStep ==
    ASSUME IInv, UNCHANGED <<storage, world, query>>,
           TypeOK', Results', Progress'
    PROVE  IInv'
<1>1. Owned'
    BY DEF IInv, Owned, storage, world
<1>2. StatusCountsMachines'
    BY MachinesOfStay DEF IInv, StatusCountsMachines, storage
<1>3. Listed'
    BY DEF IInv, Listed, storage
<1> QED
    BY <1>1, <1>2, <1>3 DEF IInv

LEMMA QueryStep ==
    ASSUME IInv, UNCHANGED <<storage, world, create, returned>>,
           query' \in [Query -> QueryState], Listed'
    PROVE  IInv'
<1>1. \A r \in Request : MachinesOf(r)' = MachinesOf(r) /\ LaunchedFor(r)' = LaunchedFor(r)
    BY MachinesOfStay, LaunchedForStay DEF storage, world
<1>2. TypeOK'
    BY DEF IInv, TypeOK, storage, world, create
<1>3. Owned'
    BY DEF IInv, Owned, storage, world
<1>4. Results'
    BY <1>1 DEF IInv, Results, create
<1>5. Progress'
    BY <1>1 DEF IInv, Progress, create, storage
<1>6. StatusCountsMachines'
    BY <1>1 DEF IInv, StatusCountsMachines, storage
<1> QED
    BY <1>2, <1>3, <1>4, <1>5, <1>6 DEF IInv

LEMMA StartLemma ==
    ASSUME IInv, NEW r \in Request, NEW S \in SUBSET Instance,
           \A i \in S : cloud[i] = "none", Start(S, r)
    PROVE  /\ \A u \in Request : LaunchedFor(u) \subseteq LaunchedFor(u)'
           /\ S \subseteq LaunchedFor(r)'
           /\ cloud' \in [Instance -> InstanceState \union {"none"}]
           /\ launchedFor' \in [Instance -> Request \union {None}]
           /\ machine' = machine => Owned'
<1>1. \A i \in S : launchedFor[i] = None /\ machine[i] = None
    BY DEF IInv, Owned, TypeOK, StoredMachine
<1>2. \A u \in Request : LaunchedFor(u) \subseteq LaunchedFor(u)'
    BY <1>1 DEF Start, LaunchedFor
<1>3. S \subseteq LaunchedFor(r)'
    BY DEF Start, LaunchedFor
<1>4. /\ cloud' \in [Instance -> InstanceState \union {"none"}]
      /\ launchedFor' \in [Instance -> Request \union {None}]
    BY DEF Start, IInv, TypeOK, InstanceState
<1>5. machine' = machine => Owned'
    BY <1>1 DEF Start, IInv, Owned
<1> QED
    BY <1>2, <1>3, <1>4, <1>5

-----------------------------------------------------------------------------
(* The steps of CreateMachineRequestHandler. *)

LEMMA QuietSteps ==
    ASSUME IInv, NEW r \in Request,
           \/ Accept(r) \/ AcceptDryRun(r) \/ Reject(r) \/ LaunchRefused(r)
           \/ RequestSaveFails(r) \/ Crash(r)
    PROVE  IInv'
<1>1. UNCHANGED <<storage, world, query, returned, answer, found, todo>>
    BY DEF Accept, AcceptDryRun, Reject, LaunchRefused, RequestSaveFails, Crash
<1>2. \A u \in Request : MachinesOf(u)' = MachinesOf(u) /\ LaunchedFor(u)' = LaunchedFor(u)
    BY <1>1, MachinesOfStay, LaunchedForStay DEF storage, world
<1>3. TypeOK'
    BY <1>1 DEF IInv, TypeOK, storage, world, Location, Calling, RequestStatus, Accept,
                AcceptDryRun, Reject, LaunchRefused, RequestSaveFails, Crash
<1>4. Results'
    BY <1>1, <1>2 DEF IInv, Results
<1>5. Progress'
    BY <1>1, <1>2 DEF IInv, TypeOK, Progress, storage, Ended, Calling, Accept,
                AcceptDryRun, Reject, LaunchRefused, RequestSaveFails, Crash
<1> QED
    BY <1>1, <1>3, <1>4, <1>5, HandlerStep

(* A handler that gives up says FAILED, which promises nothing. *)
LEMMA FailingSteps ==
    ASSUME IInv, NEW r \in Request,
           ProvisioningFails(r) \/ AfterLaunchFails(r) \/ MachineSaveFails(r)
    PROVE  IInv'
<1>1. /\ UNCHANGED <<storage, world, query, returned, attempt, answer, found, todo>>
      /\ pc' = [pc EXCEPT ![r] = "saving"]
      /\ status' = [status EXCEPT ![r] = "failed"]
      /\ pc[r] # "answered"
    BY DEF ProvisioningFails, AfterLaunchFails, MachineSaveFails, Calling, Failed
<1>2. \A u \in Request : MachinesOf(u)' = MachinesOf(u) /\ LaunchedFor(u)' = LaunchedFor(u)
    BY <1>1, MachinesOfStay, LaunchedForStay DEF storage, world
<1>3. TypeOK'
    BY <1>1 DEF IInv, TypeOK, storage, world, Location, RequestStatus
<1>4. Results'
    BY <1>1, <1>2 DEF IInv, Results
<1>5. Progress'
    BY <1>1, <1>2 DEF IInv, TypeOK, Progress, storage, Says
<1> QED
    BY <1>1, <1>3, <1>4, <1>5, HandlerStep

LEMMA DescribeLaunchedStep ==
    ASSUME IInv, NEW r \in Request, DescribeLaunched(r)
    PROVE  IInv'
<1>1. \A u \in Request : MachinesOf(u)' = MachinesOf(u) /\ LaunchedFor(u)' = LaunchedFor(u)
    BY MachinesOfStay, LaunchedForStay DEF DescribeLaunched, storage, world
<1>2. MachinesOf(r) = {}
    BY DEF IInv, Results, Progress, DescribeLaunched
<1>3. TypeOK'
    BY DEF IInv, TypeOK, DescribeLaunched, storage, world, Location
<1>4. Results'
    BY <1>1, <1>2 DEF IInv, TypeOK, Results, DescribeLaunched
<1>5. Progress'
    BY <1>1, <1>2 DEF IInv, TypeOK, Progress, DescribeLaunched, storage
<1> QED
    BY <1>3, <1>4, <1>5, HandlerStep DEF DescribeLaunched

(* Every machine is saved, so their number is what the status goes by. *)
LEMMA FulfilStep ==
    ASSUME IInv, NEW r \in Request, Fulfil(r)
    PROVE  IInv'
<1>1. \A u \in Request : MachinesOf(u)' = MachinesOf(u) /\ LaunchedFor(u)' = LaunchedFor(u)
    BY MachinesOfStay, LaunchedForStay DEF Fulfil, storage, world
<1>2. TypeOK'
    BY DEF IInv, TypeOK, Fulfil, Fulfilment, storage, world, Location, RequestStatus
<1>3. Results'
    BY <1>1 DEF IInv, Results, Fulfil
<1>4. Says(Fulfilment(found[r]), Cardinality(MachinesOf(r)))
  <2>1. MachinesOf(r) = found[r]
    BY DEF IInv, Progress, Fulfil
  <2>2. /\ IsFiniteSet(found[r])
        /\ Cardinality(found[r]) <= Count
    BY FS_Subset DEF IInv, TypeOK, Results
  <2>3. /\ Cardinality(found[r]) \in Nat
        /\ Cardinality(found[r]) = 0 <=> found[r] = {}
    BY <2>2, FS_CardinalityType, FS_EmptySet
  <2> QED
    BY <2>1, <2>2, <2>3 DEF Says, Fulfilment
<1>5. Progress'
    BY <1>1, <1>4 DEF IInv, TypeOK, Progress, Fulfil, storage
<1> QED
    BY <1>2, <1>3, <1>5, HandlerStep DEF Fulfil

LEMMA LaunchStep ==
    ASSUME IInv, NEW r \in Request, Launch(r)
    PROVE  IInv'
<1> PICK S \in SUBSET Instance :
        CanStart(S) /\ Start(S, r) /\ answer' = [answer EXCEPT ![r] = S]
    BY DEF Launch
<1>1. \A u \in Request : MachinesOf(u)' = MachinesOf(u)
    BY MachinesOfStay DEF Launch, storage
<1>2. /\ \A u \in Request : LaunchedFor(u) \subseteq LaunchedFor(u)'
      /\ S \subseteq LaunchedFor(r)'
      /\ cloud' \in [Instance -> InstanceState \union {"none"}]
      /\ launchedFor' \in [Instance -> Request \union {None}]
      /\ Owned'
    BY StartLemma DEF Launch, CanStart, storage
<1>3. TypeOK'
    BY <1>2 DEF IInv, TypeOK, Launch, Start, storage, Location
<1>4. Results'
    BY <1>1, <1>2 DEF IInv, TypeOK, Results, Launch, CanStart
<1>5. Progress'
    BY <1>1 DEF IInv, TypeOK, Progress, Launch, storage
<1>6. StatusCountsMachines'
    BY <1>1 DEF IInv, StatusCountsMachines, Launch, storage
<1>7. Listed'
    BY DEF IInv, Listed, Launch, storage
<1> QED
    BY <1>2, <1>3, <1>4, <1>5, <1>6, <1>7 DEF IInv

(* The cloud launches on its own: for a call whose answer is lost, or for  *)
(* a fleet.                                                                *)
LEMMA UnseenLaunches ==
    ASSUME IInv, NEW r \in Request, LaunchUnanswered(r) \/ FleetLaunches(r)
    PROVE  IInv'
<1>1. /\ UNCHANGED <<storage, pc, answer, found, todo, status, query, returned>>
      /\ attempt' \in [Request -> 0 .. MaxAttempts]
    BY DEF LaunchUnanswered, FleetLaunches, create, IInv, TypeOK
<1>2. PICK S \in SUBSET Instance : Start(S, r) /\ \A i \in S : cloud[i] = "none"
  <2>1. CASE LaunchUnanswered(r)
    BY <2>1 DEF LaunchUnanswered, CanStart
  <2>2. CASE FleetLaunches(r)
    <3> PICK i \in Instance : cloud[i] = "none" /\ Start({i}, r)
      BY <2>2 DEF FleetLaunches
    <3> WITNESS {i} \in SUBSET Instance
    <3> QED
      OBVIOUS
  <2> QED
    BY <2>1, <2>2
<1>3. \A u \in Request : MachinesOf(u)' = MachinesOf(u)
    BY <1>1, MachinesOfStay DEF storage
<1>4. /\ \A u \in Request : LaunchedFor(u) \subseteq LaunchedFor(u)'
      /\ cloud' \in [Instance -> InstanceState \union {"none"}]
      /\ launchedFor' \in [Instance -> Request \union {None}]
      /\ Owned'
    BY <1>1, <1>2, StartLemma DEF storage
<1>5. TypeOK'
    BY <1>1, <1>2, <1>4 DEF IInv, TypeOK, Start, storage
<1>6. Results'
    BY <1>1, <1>3, <1>4 DEF IInv, Results
<1>7. Progress'
    BY <1>1, <1>3 DEF IInv, Progress, storage
<1>8. StatusCountsMachines'
    BY <1>1, <1>3 DEF IInv, StatusCountsMachines, storage
<1>9. Listed'
    BY <1>1 DEF IInv, Listed, storage
<1> QED
    BY <1>4, <1>5, <1>6, <1>7, <1>8, <1>9 DEF IInv

(* A fleet is created, and its answer arrives or is lost. *)
LEMMA FleetSteps ==
    ASSUME IInv, NEW r \in Request, CreateFleet(r) \/ FleetUnanswered(r)
    PROVE  IInv'
<1>1. \A u \in Request : MachinesOf(u)' = MachinesOf(u) /\ LaunchedFor(u)' = LaunchedFor(u)
    BY MachinesOfStay, LaunchedForStay DEF CreateFleet, FleetUnanswered, storage
<1>2. TypeOK'
    BY DEF IInv, TypeOK, CreateFleet, FleetUnanswered, storage, Location
<1>3. Owned'
    BY DEF IInv, Owned, CreateFleet, FleetUnanswered, storage
<1>4. Results'
    BY <1>1 DEF IInv, Results, CreateFleet, FleetUnanswered
<1>5. Progress'
    BY <1>1 DEF IInv, TypeOK, Progress, Results, CreateFleet, FleetUnanswered, storage
<1>6. StatusCountsMachines'
    BY <1>1 DEF IInv, StatusCountsMachines, CreateFleet, FleetUnanswered, storage
<1>7. Listed'
    BY DEF IInv, Listed, CreateFleet, FleetUnanswered, storage
<1> QED
    BY <1>2, <1>3, <1>4, <1>5, <1>6, <1>7 DEF IInv

(* What is yet to be saved is not there. *)
LEMMA NotYetSaved ==
    ASSUME IInv, NEW r \in Request, pc[r] = "recording", NEW i \in todo[r]
    PROVE  /\ i \in Instance /\ i \in found[r] /\ launchedFor[i] = r
           /\ i \notin MachinesOf(r) /\ machine[i] = None
<1>1. /\ i \in Instance /\ i \in found[r] /\ launchedFor[i] = r
      /\ i \notin MachinesOf(r)
    BY DEF IInv, TypeOK, Results, Progress, LaunchedFor
<1> QED
    BY <1>1 DEF IInv, Owned, MachinesOf

LEMMA SaveMachineStep ==
    ASSUME IInv, NEW r \in Request, SaveMachine(r)
    PROVE  IInv'
<1> DEFINE new == [request |-> r, status |-> "pending", seen |-> 0]
<1> PICK i \in todo[r] :
        /\ machine' = [machine EXCEPT ![i] = new]
        /\ todo' = [todo EXCEPT ![r] = @ \ {i}]
    BY DEF SaveMachine
<1>1. /\ i \in Instance /\ i \in found[r] /\ launchedFor[i] = r
      /\ pc[r] = "recording" /\ i \notin MachinesOf(r)
    BY NotYetSaved DEF SaveMachine
<1>2. machine[i] = None
    BY NotYetSaved DEF SaveMachine
<1>3. new \in StoredMachine /\ new # None /\ new.request = r
    BY DEF StoredMachine, InstanceState
<1>4. MachinesOf(r)' = MachinesOf(r) \union {i}
    BY <1>1, <1>2, <1>3 DEF MachinesOf, IInv, TypeOK
<1>5. \A u \in Request \ {r} : MachinesOf(u)' = MachinesOf(u)
    BY <1>1, <1>2, <1>3 DEF MachinesOf, IInv, TypeOK
<1>6. \A u \in Request : LaunchedFor(u)' = LaunchedFor(u)
    BY LaunchedForStay DEF SaveMachine, world
<1>7. TypeOK'
    BY <1>1, <1>3 DEF IInv, TypeOK, SaveMachine, world
<1>8. Owned'
    BY <1>1, <1>3 DEF IInv, Owned, TypeOK, SaveMachine, world
<1>9. Results'
    BY <1>1, <1>4, <1>5, <1>6 DEF IInv, TypeOK, Results, SaveMachine
<1>10. Progress'
    BY <1>1, <1>4, <1>5 DEF IInv, TypeOK, Results, Progress, SaveMachine
<1>11. StatusCountsMachines'
    BY <1>1, <1>5 DEF IInv, Progress, StatusCountsMachines, SaveMachine
<1>12. Listed'
    BY <1>2 DEF IInv, Listed, TypeOK, SaveMachine
<1> QED
    BY <1>7, <1>8, <1>9, <1>10, <1>11, <1>12 DEF IInv

LEMMA SaveRequestStep ==
    ASSUME IInv, NEW r \in Request, SaveRequest(r)
    PROVE  IInv'
<1> DEFINE new == [status |-> status[r], dryRun |-> pc[r] = "dryRun"]
<1>1. \A u \in Request : MachinesOf(u)' = MachinesOf(u) /\ LaunchedFor(u)' = LaunchedFor(u)
    BY MachinesOfStay, LaunchedForStay DEF SaveRequest, world
<1>2. new \in StoredRequest /\ new # None
  <2>1. status[r] \in RequestStatus
    BY DEF IInv, TypeOK
  <2>2. new \in StoredRequest
    BY <2>1 DEF StoredRequest
  <2> QED
    BY <2>2
<1>3. TypeOK'
    BY <1>2 DEF IInv, TypeOK, SaveRequest, world, Location
<1>4. Owned'
    BY DEF IInv, Owned, SaveRequest, world
<1>5. Results'
    BY <1>1 DEF IInv, Results, SaveRequest
<1>6. Progress'
    BY <1>1, <1>2 DEF IInv, TypeOK, Progress, SaveRequest
<1>7. StatusCountsMachines'
  <2>1. \A u \in Request \ {r} : request'[u] = request[u]
    BY DEF SaveRequest, IInv, TypeOK
  <2>2. request'[r] = new
    BY DEF SaveRequest, IInv, TypeOK
  <2>3. ~new.dryRun => Says(new.status, Cardinality(MachinesOf(r)))
    BY DEF SaveRequest, IInv, Progress
  <2> HIDE DEF new
  <2> QED
    BY <1>1, <2>1, <2>2, <2>3 DEF IInv, Says, StatusCountsMachines
<1>8. Listed'
    BY DEF IInv, Listed, SaveRequest
<1> QED
    BY <1>3, <1>4, <1>5, <1>6, <1>7, <1>8 DEF IInv

-----------------------------------------------------------------------------
(* The steps of GetRequestHandler. *)

LEMMA QueryType ==
    ASSUME TypeOK, NEW q \in Query, NEW new \in QueryState,
           query' = [query EXCEPT ![q] = new]
    PROVE  query' \in [Query -> QueryState]
BY DEF TypeOK

(* What a query knows of a machine, its machines and news, says nothing of *)
(* the others.                                                             *)
LEMMA ListedStays ==
    ASSUME IInv, NEW q \in Query, NEW new \in QueryState,
           query' = [query EXCEPT ![q] = new], machine' = machine,
           \A i \in Instance :
             /\ new.machines[i] # None =>
                  machine[i] # None /\ new.machines[i].request = machine[i].request
             /\ new.news[i] # None =>
                  machine[i] # None /\ new.news[i].request = machine[i].request
             /\ i \in new.todo => new.news[i] # None
    PROVE  Listed'
BY DEF IInv, TypeOK, Listed

LEMMA ReadRequestStep ==
    ASSUME IInv, NEW q \in Query, ReadRequest(q)
    PROVE  IInv'
<1> PICK r \in Request :
        /\ request[r] # None
        /\ query' = [query EXCEPT ![q] =
               [Idle EXCEPT !.at = "listing", !.of = r, !.reply = request[r]]]
    BY DEF ReadRequest
<1> DEFINE new == [Idle EXCEPT !.at = "listing", !.of = r, !.reply = request[r]]
<1>1. NoMachines \in Listing
    BY DEF NoMachines, Listing
<1>2. new \in QueryState
    BY <1>1 DEF IInv, TypeOK, QueryState, Idle
<1>3. \A i \in Instance :
        new.machines[i] = None /\ new.news[i] = None /\ i \notin new.todo
    BY DEF Idle, NoMachines
<1> HIDE DEF new
<1>4. query' \in [Query -> QueryState]
    BY <1>2, QueryType DEF new, IInv
<1>5. Listed'
    BY <1>2, <1>3, ListedStays DEF ReadRequest, storage, new
<1> QED
    BY <1>4, <1>5, QueryStep DEF ReadRequest

LEMMA ListMachinesStep ==
    ASSUME IInv, NEW q \in Query, ListMachines(q)
    PROVE  IInv'
<1> DEFINE S == MachinesOf(query[q].of)
           listed == [i \in Instance |-> IF i \in S THEN machine[i] ELSE None]
           new == [query[q] EXCEPT !.at = IF S = {} THEN "replied" ELSE "asking",
                                   !.machines = listed]
<1>1. query[q] \in QueryState
    BY DEF IInv, TypeOK
<1>2. listed \in Listing
    BY DEF IInv, TypeOK, Listing, MachinesOf
<1>3. new \in QueryState
    BY <1>1, <1>2 DEF QueryState
<1>4. query' = [query EXCEPT ![q] = new]
    BY DEF ListMachines, IInv, TypeOK
<1>5. \A i \in Instance :
        /\ new.machines[i] \in {None, machine[i]}
        /\ new.news = query[q].news
        /\ new.todo = query[q].todo
    BY <1>1 DEF QueryState
<1> HIDE DEF new
<1>6. query' \in [Query -> QueryState]
    BY <1>3, <1>4, QueryType DEF IInv
<1>7. UNCHANGED <<storage, world, create, returned>>
    BY DEF ListMachines
<1>8. \A i \in Instance :
        /\ new.machines[i] # None =>
             machine[i] # None /\ new.machines[i].request = machine[i].request
        /\ new.news[i] # None =>
             machine[i] # None /\ new.news[i].request = machine[i].request
        /\ i \in new.todo => new.news[i] # None
    BY <1>5 DEF IInv, Listed
<1>9. Listed'
    BY <1>3, <1>4, <1>7, <1>8, ListedStays DEF storage
<1> QED
    BY <1>6, <1>7, <1>9, QueryStep

LEMMA AskProviderStep ==
    ASSUME IInv, NEW q \in Query, AskProvider(q)
    PROVE  IInv'
<1> DEFINE listed == query[q].machines
           news == [i \in Instance |->
                      IF listed[i] = None THEN None
                      ELSE [listed[i] EXCEPT !.status = cloud[i], !.seen = age[i]]]
           changed == {i \in Instance : listed[i] # None /\ listed[i].status # cloud[i]}
           new == [query[q] EXCEPT !.at = "updating", !.news = news, !.todo = changed]
<1>1. query[q] \in QueryState
    BY DEF IInv, TypeOK
<1>2. ASSUME NEW i \in Instance, listed[i] # None
      PROVE  news[i] \in StoredMachine /\ news[i].request = listed[i].request
  <2>1. listed[i] \in StoredMachine
    BY <1>1, <1>2 DEF QueryState, Listing
  <2>2. cloud[i] \in InstanceState /\ age[i] \in Nat
    BY <1>2 DEF IInv, TypeOK, Owned, Listed, StoredMachine
  <2> QED
    BY <1>2, <2>1, <2>2 DEF StoredMachine
<1>3. news \in Listing
    BY <1>2 DEF Listing
<1>4. new \in QueryState
    BY <1>1, <1>3 DEF QueryState
<1>5. query' = [query EXCEPT ![q] = new]
    BY DEF AskProvider, IInv, TypeOK
<1>6. \A i \in Instance :
        /\ new.machines[i] = listed[i]
        /\ new.news[i] # None => listed[i] # None /\ new.news[i].request = listed[i].request
        /\ i \in new.todo => new.news[i] # None
    BY <1>1, <1>2 DEF QueryState
<1> HIDE DEF new
<1>7. query' \in [Query -> QueryState]
    BY <1>4, <1>5, QueryType DEF IInv
<1>8. UNCHANGED <<storage, world, create, returned>>
    BY DEF AskProvider
<1>9. \A i \in Instance :
        listed[i] # None => machine[i] # None /\ listed[i].request = machine[i].request
    BY DEF IInv, Listed
<1> HIDE DEF listed, news
<1>10. Listed'
    BY <1>4, <1>5, <1>6, <1>8, <1>9, ListedStays DEF storage
<1> QED
    BY <1>7, <1>8, <1>10, QueryStep

(* The ways to a reply that bring nothing new. *)
LEMMA ReplySteps ==
    ASSUME IInv, NEW q \in Query,
           ListFails(q) \/ AskProviderFails(q) \/ UpdateFails(q) \/ Reply(q)
    PROVE  IInv'
<1>1. query[q] \in QueryState
    BY DEF IInv, TypeOK
<1>2. PICK new \in QueryState :
        /\ query' = [query EXCEPT ![q] = new]
        /\ new.machines \in {query[q].machines, query[q].news, NoMachines}
        /\ new.news = query[q].news
        /\ new.todo \subseteq query[q].todo
  <2>1. CASE AskProviderFails(q)
    <3> DEFINE new == [query[q] EXCEPT !.at = "replied"]
    <3>1. new \in QueryState
      BY <1>1 DEF QueryState
    <3>2. query' = [query EXCEPT ![q] = new]
      BY <2>1 DEF AskProviderFails, IInv, TypeOK
    <3> QED
      BY <1>1, <3>1, <3>2 DEF QueryState
  <2>2. CASE UpdateFails(q)
    <3> DEFINE new == [query[q] EXCEPT !.at = "replied", !.todo = {}]
    <3>1. new \in QueryState
      BY <1>1 DEF QueryState
    <3>2. query' = [query EXCEPT ![q] = new]
      BY <2>2 DEF UpdateFails, IInv, TypeOK
    <3> QED
      BY <1>1, <3>1, <3>2 DEF QueryState
  <2>3. CASE Reply(q)
    <3> DEFINE new == [query[q] EXCEPT !.at = "replied", !.machines = query[q].news]
    <3>1. new \in QueryState
      BY <1>1 DEF QueryState
    <3>2. query' = [query EXCEPT ![q] = new]
      BY <2>3 DEF Reply, IInv, TypeOK
    <3> QED
      BY <1>1, <3>1, <3>2 DEF QueryState
  <2>4. CASE ListFails(q)
    <3> DEFINE new == [query[q] EXCEPT !.at = "blind", !.machines = NoMachines]
    <3>1. NoMachines \in Listing
      BY DEF NoMachines, Listing
    <3>2. new \in QueryState
      BY <1>1, <3>1 DEF QueryState
    <3>3. query' = [query EXCEPT ![q] = new]
      BY <2>4 DEF ListFails, IInv, TypeOK
    <3> QED
      BY <1>1, <3>2, <3>3 DEF QueryState
  <2> QED
    BY <2>1, <2>2, <2>3, <2>4
<1>3. UNCHANGED <<storage, world, create, returned>>
    BY DEF ListFails, AskProviderFails, UpdateFails, Reply
<1>4. query' \in [Query -> QueryState]
    BY <1>2, QueryType DEF IInv
<1>5. Listed'
    BY <1>2, <1>3, ListedStays DEF storage, IInv, Listed, NoMachines
<1> QED
    BY <1>3, <1>4, <1>5, QueryStep

(* What a query has still to update is stored, and stays of its request. *)
LEMMA StillListed ==
    ASSUME IInv, NEW q \in Query, NEW i \in query[q].todo
    PROVE  /\ i \in Instance /\ query[q].news[i] \in StoredMachine /\ machine[i] # None
           /\ query[q].news[i].request = machine[i].request
<1>1. query[q] \in QueryState
    BY DEF IInv, TypeOK
<1>2. i \in Instance /\ query[q].news[i] \in StoredMachine \union {None}
    BY <1>1 DEF QueryState, Listing
<1> QED
    BY <1>2 DEF IInv, Listed

(* The machine that is overwritten keeps its request. *)
LEMMA UpdateMachineStep ==
    ASSUME IInv, NEW q \in Query, UpdateMachine(q)
    PROVE  IInv'
<1> PICK i \in query[q].todo :
        /\ machine' = [machine EXCEPT ![i] = query[q].news[i]]
        /\ query' = [query EXCEPT ![q].todo = @ \ {i}]
    BY DEF UpdateMachine
<1> DEFINE new == [query[q] EXCEPT !.todo = @ \ {i}]
<1>1. query[q] \in QueryState
    BY DEF IInv, TypeOK
<1>2. i \in Instance
    BY StillListed
<1>3. /\ query[q].news[i] \in StoredMachine /\ machine[i] # None
      /\ query[q].news[i].request = machine[i].request
    BY StillListed
<1>4. /\ machine' \in [Instance -> StoredMachine \union {None}]
      /\ \A j \in Instance :
           /\ machine'[j] # None <=> machine[j] # None
           /\ machine[j] # None => machine'[j].request = machine[j].request
    BY <1>2, <1>3 DEF IInv, TypeOK
<1>5. new \in QueryState
    BY <1>1 DEF QueryState
<1>6. query' = [query EXCEPT ![q] = new]
    BY DEF IInv, TypeOK
<1>7. /\ new.machines = query[q].machines
      /\ new.news = query[q].news
      /\ new.todo \subseteq query[q].todo
    BY <1>1 DEF QueryState
<1> HIDE DEF new
<1>8. \A u \in Request : MachinesOf(u)' = MachinesOf(u)
    BY <1>4 DEF MachinesOf
<1>9. \A u \in Request : LaunchedFor(u)' = LaunchedFor(u)
    BY LaunchedForStay DEF UpdateMachine, world
<1>10. TypeOK'
    BY <1>4, <1>5, <1>6, QueryType DEF IInv, TypeOK, UpdateMachine, world, create
<1>11. Owned'
    BY <1>4 DEF IInv, Owned, UpdateMachine, world
<1>12. Results'
    BY <1>8, <1>9 DEF IInv, Results, UpdateMachine, create
<1>13. Progress'
    BY <1>8 DEF IInv, Progress, UpdateMachine, create
<1>14. StatusCountsMachines'
    BY <1>8 DEF IInv, StatusCountsMachines, UpdateMachine
<1>15. Listed'
  <2> SUFFICES ASSUME NEW u \in Query, NEW j \in Instance
               PROVE  /\ query'[u].machines[j] # None =>
                           /\ machine'[j] # None
                           /\ query'[u].machines[j].request = machine'[j].request
                      /\ query'[u].news[j] # None =>
                           /\ machine'[j] # None
                           /\ query'[u].news[j].request = machine'[j].request
                      /\ j \in query'[u].todo => query'[u].news[j] # None
    BY DEF Listed
  <2>1. /\ query'[u].machines = query[u].machines
        /\ query'[u].news = query[u].news
        /\ query'[u].todo \subseteq query[u].todo
    BY <1>6, <1>7 DEF IInv, TypeOK
  <2> QED
    BY <1>4, <2>1 DEF IInv, Listed
<1> QED
    BY <1>10, <1>11, <1>12, <1>13, <1>14, <1>15 DEF IInv

-----------------------------------------------------------------------------
(* The other steps: no handler takes part in them. *)

LEMMA CreateReturnStep ==
    ASSUME IInv, CreateReturn
    PROVE  IInv'
<1>1. UNCHANGED <<storage, world, create, query>> /\ returned' \subseteq Instance
    BY DEF CreateReturn, IInv, TypeOK
<1>2. TypeOK'
    BY <1>1 DEF IInv, TypeOK, storage, world, create
<1>3. \A r \in Request : MachinesOf(r)' = MachinesOf(r) /\ LaunchedFor(r)' = LaunchedFor(r)
    BY <1>1, MachinesOfStay, LaunchedForStay DEF storage, world
<1>4. Results'
    BY <1>1, <1>3 DEF IInv, Results, create
<1>5. Progress'
    BY <1>1, <1>3 DEF IInv, Progress, create, storage
<1> QED
    BY <1>1, <1>2, <1>4, <1>5, HandlerStep

LEMMA InstanceChangesStep ==
    ASSUME IInv, NEW i \in Instance, InstanceChanges(i)
    PROVE  IInv'
<1>1. PICK s \in InstanceState :
          <<cloud[i], s>> \in Change /\ cloud' = [cloud EXCEPT ![i] = s]
    BY DEF InstanceChanges
<1>2. UNCHANGED <<storage, launchedFor, fleets, create, query, returned>>
    BY DEF InstanceChanges
<1>3. \A r \in Request : MachinesOf(r)' = MachinesOf(r) /\ LaunchedFor(r)' = LaunchedFor(r)
    BY <1>2, MachinesOfStay, LaunchedForStay DEF storage
<1>4. TypeOK'
    BY <1>1, <1>2 DEF InstanceChanges, IInv, TypeOK, storage, create
<1>5. Owned'
    BY <1>1, <1>2 DEF IInv, Owned, TypeOK, InstanceState, storage
<1>6. Results'
    BY <1>2, <1>3 DEF IInv, Results, create
<1>7. Progress'
    BY <1>2, <1>3 DEF IInv, Progress, create, storage
<1>8. StatusCountsMachines'
    BY <1>2, <1>3 DEF IInv, StatusCountsMachines, storage
<1>9. Listed'
    BY <1>2 DEF IInv, Listed, storage
<1> QED
    BY <1>4, <1>5, <1>6, <1>7, <1>8, <1>9 DEF IInv

LEMMA StutterStep ==
    ASSUME IInv, UNCHANGED vars
    PROVE  IInv'
<1>1. UNCHANGED <<storage, world, create, query, returned>>
    BY DEF vars
<1>2. query' \in [Query -> QueryState] /\ Listed'
    BY <1>1 DEF IInv, TypeOK, Listed, storage
<1> QED
    BY <1>1, <1>2, QueryStep

LEMMA NextIInv == IInv /\ [Next]_vars => IInv'
<1> SUFFICES ASSUME IInv, [Next]_vars PROVE IInv'
    OBVIOUS
<1>1. CASE \E r \in Request : Create(r)
    BY <1>1, QuietSteps, FailingSteps, DescribeLaunchedStep, FulfilStep, LaunchStep,
       UnseenLaunches, FleetSteps, SaveMachineStep, SaveRequestStep
       DEF Create, Provision, Record
<1>2. CASE \E r \in Request : Crash(r) \/ FleetLaunches(r)
    BY <1>2, QuietSteps, UnseenLaunches
<1>3. CASE \E q \in Query : GetRequest(q)
    BY <1>3, ReadRequestStep, ListMachinesStep, AskProviderStep, ReplySteps,
       UpdateMachineStep DEF GetRequest
<1>4. CASE CreateReturn
    BY <1>4, CreateReturnStep
<1>5. CASE \E i \in Instance : InstanceChanges(i)
    BY <1>5, InstanceChangesStep
<1>6. CASE UNCHANGED vars
    BY <1>6, StutterStep
<1> QED
    BY <1>1, <1>2, <1>3, <1>4, <1>5, <1>6 DEF Next

(* The inductive invariant. *)
THEOREM Invariance == Spec => []IInv
BY InitIInv, NextIInv, PTL DEF Spec

(* Every variable has its type: no attempt is counted beyond max_attempts,  *)
(* and whatever a query stores is a machine (retry_decorator,               *)
(* GetRequestHandler).                                                      *)
THEOREM TypeCorrect == Spec => []TypeOK
<1>1. IInv => TypeOK
    BY DEF IInv
<1> QED
    BY <1>1, Invariance, PTL

(* The stored status says of the stored machines what is so, whatever       *)
(* failed on the way (CreateMachineRequestHandler stores the request last). *)
THEOREM StatusIsTrue == Spec => []StatusCountsMachines
<1>1. IInv => StatusCountsMachines
    BY DEF IInv
<1> QED
    BY <1>1, Invariance, PTL

(* No request has more machines than it asked for, nor one of another, even *)
(* when the launch is repeated without the cloud knowing it is a repetition.*)
THEOREM NothingIsDeliveredTwice == Spec => []NoOverDelivery
<1>1. IInv => NoOverDelivery
  <2> SUFFICES ASSUME IInv, NEW r \in Request
               PROVE  /\ Cardinality(MachinesOf(r)) <= Count
                      /\ MachinesOf(r) \subseteq LaunchedFor(r)
    BY DEF NoOverDelivery
  <2>1. /\ MachinesOf(r) \subseteq found[r]
        /\ found[r] \subseteq LaunchedFor(r)
        /\ Cardinality(found[r]) <= Count
    BY DEF IInv, Results
  <2>2. IsFiniteSet(found[r]) /\ Cardinality(MachinesOf(r)) <= Cardinality(found[r])
    BY <2>1, FS_Subset DEF IInv, TypeOK
  <2>3. Cardinality(MachinesOf(r)) \in Nat /\ Cardinality(found[r]) \in Nat
    BY <2>1, <2>2, FS_CardinalityType, FS_Subset
  <2> QED
    BY <2>1, <2>2, <2>3
<1> QED
    BY <1>1, Invariance, PTL

(* A command that answered or raised leaves no machine whose request nobody *)
(* can ask for, unless the save of the request itself fails.                *)
THEOREM NoOrphans == Spec => []MachinesHaveTheirRequest
<1>1. IInv => MachinesHaveTheirRequest
  <2> SUFFICES ASSUME IInv, NEW i \in Instance, machine[i] # None,
                      pc[machine[i].request] \in {"answered", "raised"}
               PROVE  request[machine[i].request] # None
    BY DEF MachinesHaveTheirRequest
  <2> DEFINE r == machine[i].request
  <2>1. r \in Request
    BY DEF IInv, TypeOK, StoredMachine
  <2>2. found[r] # {}
    BY <2>1 DEF IInv, Results, MachinesOf
  <2> QED
    BY <2>1, <2>2 DEF IInv, Progress
<1> QED
    BY <1>1, Invariance, PTL

-----------------------------------------------------------------------------
(* What a query replies.  A request is stored once, after its machines, so *)
(* what a query has read of it stays so, and so does the set of machines   *)
(* that it lists, unless it cannot read them.                              *)
Named(machines) == {i \in Instance : machines[i] # None}

Knows(state, r) ==
    /\ r \in Request
    /\ request[r] # None
    /\ state.of = r
    /\ state.reply = request[r]
    /\ state.at \in {"asking", "updating", "replied"} => Named(state.machines) = MachinesOf(r)
    /\ state.at = "updating" => Named(state.news) = MachinesOf(r)
    /\ state.at = "blind" => Named(state.machines) = {}

Reported == \A q \in Query : query[q].at # "idle" => Knows(query[q], query[q].of)

LEMMA StoredStays ==
    ASSUME IInv, [Next]_vars, NEW r \in Request, request[r] # None
    PROVE  request'[r] = request[r] /\ MachinesOf(r)' = MachinesOf(r)
<1>0. pc[r] = "answered"
    BY DEF IInv, Progress
<1>1. ASSUME NEW u \in Request, SaveMachine(u)
      PROVE  request'[r] = request[r] /\ MachinesOf(r)' = MachinesOf(r)
  <2> PICK i \in todo[u] : machine' = [machine EXCEPT ![i] =
                               [request |-> u, status |-> "pending", seen |-> 0]]
      BY <1>1 DEF SaveMachine
  <2>1. i \in Instance /\ machine[i] = None /\ u # r /\ request' = request
      BY <1>0, <1>1, NotYetSaved DEF SaveMachine
  <2>2. \A j \in Instance \ {i} : machine'[j] = machine[j]
      BY DEF IInv, TypeOK
  <2>3. machine'[i].request = u
      BY <2>1 DEF IInv, TypeOK
  <2> QED
      BY <2>1, <2>2, <2>3 DEF MachinesOf
<1>2. ASSUME NEW u \in Request, SaveRequest(u)
      PROVE  request'[r] = request[r] /\ MachinesOf(r)' = MachinesOf(r)
  <2>1. u # r /\ machine' = machine
      BY <1>0, <1>2 DEF SaveRequest
  <2>2. request'[r] = request[r]
      BY <1>2, <2>1 DEF SaveRequest, IInv, TypeOK
  <2> QED
      BY <2>1, <2>2, MachinesOfStay
<1>3. ASSUME NEW q \in Query, UpdateMachine(q)
      PROVE  request'[r] = request[r] /\ MachinesOf(r)' = MachinesOf(r)
  <2> PICK i \in query[q].todo : machine' = [machine EXCEPT ![i] = query[q].news[i]]
      BY <1>3 DEF UpdateMachine
  <2>1. /\ i \in Instance /\ machine[i] # None /\ query[q].news[i] # None
        /\ query[q].news[i].request = machine[i].request
      BY StillListed
  <2>2. \A j \in Instance :
           /\ machine'[j] # None <=> machine[j] # None
           /\ machine[j] # None => machine'[j].request = machine[j].request
      BY <2>1 DEF IInv, TypeOK
  <2> QED
      BY <1>3, <2>2 DEF MachinesOf, UpdateMachine
<1>4. CASE UNCHANGED storage
    BY <1>4, MachinesOfStay DEF storage
<1>5. CASE \E u \in Request : Create(u) \/ Crash(u) \/ FleetLaunches(u)
    BY <1>1, <1>2, <1>4, <1>5 DEF Create, Provision, Record, Accept, AcceptDryRun, Reject,
       Launch, LaunchRefused, LaunchUnanswered, ProvisioningFails, DescribeLaunched,
       AfterLaunchFails, CreateFleet, FleetUnanswered, MachineSaveFails, Fulfil,
       RequestSaveFails, Crash, FleetLaunches
<1>6. CASE \E q \in Query : GetRequest(q)
    BY <1>3, <1>4, <1>6 DEF GetRequest, ReadRequest, ListMachines, ListFails, AskProvider,
       AskProviderFails, UpdateFails, Reply
<1>7. CASE CreateReturn \/ (\E i \in Instance : InstanceChanges(i)) \/ UNCHANGED vars
    BY <1>4, <1>7 DEF CreateReturn, InstanceChanges, vars
<1> QED
    BY <1>5, <1>6, <1>7 DEF Next

(* What is known of a stored request does not get old. *)
LEMMA KnownStays ==
    ASSUME IInv, [Next]_vars, NEW state, NEW r, Knows(state, r)
    PROVE  Knows(state, r)'
<1>1. request'[r] = request[r] /\ MachinesOf(r)' = MachinesOf(r)
    BY StoredStays DEF Knows
<1> QED
    BY <1>1 DEF Knows, Named

(* It is enough to see what one query learns. *)
LEMMA Learns ==
    ASSUME IInv, Reported, [Next]_vars, NEW q \in Query, NEW new,
           query' = [query EXCEPT ![q] = new],
           NEW r \in Request, Knows(new, r)
    PROVE  Reported'
<1> SUFFICES ASSUME NEW u \in Query, query'[u].at # "idle"
             PROVE  Knows(query[u], query[u].of)'
    BY DEF Reported
<1>1. CASE u = q
  <2>1. query'[u] = new /\ new.of = r
      BY <1>1 DEF IInv, TypeOK, Knows
  <2>2. Knows(new, r)'
      BY KnownStays
  <2> QED
      BY <2>1, <2>2 DEF Knows, Named
<1>2. CASE u # q
  <2>1. query'[u] = query[u]
      BY <1>2 DEF IInv, TypeOK
  <2>2. Knows(query[u], query[u].of)
      BY <2>1 DEF Reported
  <2>3. PICK state, v : state = query[u] /\ v = query[u].of
      OBVIOUS
  <2>4. Knows(state, v)'
      BY <2>2, <2>3, KnownStays
  <2> QED
      BY <2>1, <2>3, <2>4 DEF Knows, Named
<1> QED
    BY <1>1, <1>2

LEMMA QueryReports ==
    ASSUME IInv, Reported, [Next]_vars, NEW q \in Query, GetRequest(q)
    PROVE  Reported'
<1>0. query[q] \in QueryState /\ query \in [Query -> QueryState]
    BY DEF IInv, TypeOK
<1> DEFINE r == query[q].of
<1>1. CASE ReadRequest(q)
  <2> PICK u \in Request :
          /\ request[u] # None
          /\ query' = [query EXCEPT ![q] =
                 [Idle EXCEPT !.at = "listing", !.of = u, !.reply = request[u]]]
      BY <1>1 DEF ReadRequest
  <2> DEFINE new == [Idle EXCEPT !.at = "listing", !.of = u, !.reply = request[u]]
  <2>1. new.at = "listing" /\ new.of = u /\ new.reply = request[u]
      BY DEF Idle
  <2>2. Knows(new, u)
      BY <2>1 DEF Knows
  <2>3. query' = [query EXCEPT ![q] = new]
      OBVIOUS
  <2> HIDE DEF new
  <2> QED
      BY <2>2, <2>3, Learns
<1>2. CASE ~ReadRequest(q)
  <2>1. query[q].at # "idle"
      BY <1>2 DEF GetRequest, ListMachines, ListFails, AskProvider, AskProviderFails, UpdateMachine,
         UpdateFails, Reply
  <2>2. /\ r \in Request /\ request[r] # None /\ query[q].reply = request[r]
        /\ query[q].at \in {"asking", "updating", "replied"} =>
             Named(query[q].machines) = MachinesOf(r)
        /\ query[q].at = "updating" => Named(query[q].news) = MachinesOf(r)
      BY <2>1 DEF Reported, Knows
  <2>3. PICK new :
            /\ query' = [query EXCEPT ![q] = new]
            /\ new.of = r /\ new.reply = query[q].reply
            /\ new.at \in {"asking", "updating", "replied"} => Named(new.machines) = MachinesOf(r)
            /\ new.at = "updating" => Named(new.news) = MachinesOf(r)
            /\ new.at = "blind" => Named(new.machines) = {}
    <3>1. CASE ListMachines(q)
      <4> DEFINE S == MachinesOf(r)
                 listed == [i \in Instance |-> IF i \in S THEN machine[i] ELSE None]
                 new == [query[q] EXCEPT !.at = IF S = {} THEN "replied" ELSE "asking",
                                         !.machines = listed]
      <4>1. query' = [query EXCEPT ![q] = new]
          BY <1>0, <3>1 DEF ListMachines
      <4>2. Named(listed) = S
          BY DEF Named, MachinesOf
      <4>3. /\ new.of = r /\ new.reply = query[q].reply /\ new.machines = listed
            /\ new.at \notin {"updating", "blind"}
          BY <1>0 DEF QueryState
      <4> QED
          BY <4>1, <4>2, <4>3
    <3>2. CASE AskProvider(q)
      <4> DEFINE listed == query[q].machines
                 news == [i \in Instance |->
                            IF listed[i] = None THEN None
                            ELSE [listed[i] EXCEPT !.status = cloud[i], !.seen = age[i]]]
                 changed == {i \in Instance : listed[i] # None /\ listed[i].status # cloud[i]}
                 new == [query[q] EXCEPT !.at = "updating", !.news = news, !.todo = changed]
      <4>1. query' = [query EXCEPT ![q] = new]
          BY <1>0, <3>2 DEF AskProvider
      <4>2. \A i \in Instance : listed[i] # None => news[i] # None
        <5> SUFFICES ASSUME NEW i \in Instance, listed[i] # None PROVE news[i] # None
            OBVIOUS
        <5>1. listed[i] \in StoredMachine
            BY <1>0 DEF QueryState, Listing
        <5>2. cloud[i] \in InstanceState /\ age[i] \in Nat
            BY DEF IInv, TypeOK, Owned, Listed, StoredMachine
        <5>3. news[i] \in StoredMachine
            BY <5>1, <5>2 DEF StoredMachine
        <5> QED
            BY <5>3
      <4>3. Named(news) = Named(listed)
          BY <4>2 DEF Named
      <4>4. /\ new.of = r /\ new.reply = query[q].reply /\ new.machines = listed
            /\ new.news = news /\ new.at = "updating"
          BY <1>0 DEF QueryState
      <4>5. Named(listed) = MachinesOf(r)
          BY <2>2, <3>2 DEF AskProvider
      <4> HIDE DEF new, news, listed
      <4> QED
          BY <4>1, <4>3, <4>4, <4>5
    <3>3. CASE AskProviderFails(q)
      <4> DEFINE new == [query[q] EXCEPT !.at = "replied"]
      <4>1. query' = [query EXCEPT ![q] = new]
          BY <1>0, <3>3 DEF AskProviderFails
      <4>2. /\ new.of = r /\ new.reply = query[q].reply /\ new.machines = query[q].machines
            /\ new.at = "replied" /\ query[q].at = "asking"
          BY <1>0, <3>3 DEF QueryState, AskProviderFails
      <4> HIDE DEF new
      <4> QED
          BY <2>2, <4>1, <4>2
    <3>4. CASE UpdateMachine(q)
      <4> PICK i \in query[q].todo : query' = [query EXCEPT ![q].todo = @ \ {i}]
          BY <3>4 DEF UpdateMachine
      <4>1. query' = [query EXCEPT ![q] = [query[q] EXCEPT !.todo = @ \ {i}]]
          BY <1>0
      <4> QED
          BY <1>0, <2>2, <3>4, <4>1 DEF QueryState, UpdateMachine
    <3>5. CASE UpdateFails(q)
      <4>1. query' = [query EXCEPT ![q] = [query[q] EXCEPT !.at = "replied", !.todo = {}]]
          BY <1>0, <3>5 DEF UpdateFails
      <4> QED
          BY <1>0, <2>2, <3>5, <4>1 DEF QueryState, UpdateFails
    <3>6. CASE Reply(q)
      <4>1. query' = [query EXCEPT ![q] =
                        [query[q] EXCEPT !.at = "replied", !.machines = query[q].news]]
          BY <1>0, <3>6 DEF Reply
      <4> QED
          BY <1>0, <2>2, <3>6, <4>1 DEF QueryState, Reply
    <3>7. CASE ListFails(q)
      <4> DEFINE new == [query[q] EXCEPT !.at = "blind", !.machines = NoMachines]
      <4>1. query' = [query EXCEPT ![q] = new]
          BY <1>0, <3>7 DEF ListFails
      <4>2. /\ new.of = r /\ new.reply = query[q].reply /\ new.machines = NoMachines
            /\ new.at = "blind"
          BY <1>0 DEF QueryState
      <4>3. Named(NoMachines) = {}
          BY DEF Named, NoMachines
      <4> HIDE DEF new
      <4> QED
          BY <4>1, <4>2, <4>3
    <3> QED
        BY <1>2, <3>1, <3>2, <3>3, <3>4, <3>5, <3>6, <3>7 DEF GetRequest
  <2>4. Knows(new, r)
      BY <2>2, <2>3 DEF Knows
  <2> QED
      BY <2>2, <2>3, <2>4, Learns
<1> QED
    BY <1>1, <1>2

LEMMA OthersReport ==
    ASSUME IInv, Reported, [Next]_vars, query' = query
    PROVE  Reported'
<1> SUFFICES ASSUME NEW q \in Query, query[q].at # "idle"
             PROVE  Knows(query[q], query[q].of)'
    BY DEF Reported
<1>1. PICK state, r : state = query[q] /\ r = query[q].of
    OBVIOUS
<1>2. Knows(state, r)'
    BY <1>1, KnownStays DEF Reported
<1> QED
    BY <1>1, <1>2 DEF Knows, Named

(* Every step but those of a query leaves the queries as they are. *)
LEMMA OnlyQueriesQuery ==
    ASSUME [Next]_vars
    PROVE  query' = query \/ \E q \in Query : GetRequest(q)
BY DEF Next, vars, Create, Provision, Record, Accept, AcceptDryRun, Reject, Launch,
   LaunchRefused, LaunchUnanswered, ProvisioningFails, DescribeLaunched, AfterLaunchFails,
   CreateFleet, FleetUnanswered, SaveMachine, MachineSaveFails, Fulfil, SaveRequest,
   RequestSaveFails, Crash, FleetLaunches, CreateReturn, InstanceChanges

(* A reply that says COMPLETED lists all the machines that were asked for,  *)
(* or none when they could not be read, whatever goes on while the query is *)
(* on its way (GetRequestHandler).                                          *)
THEOREM CompleteRepliesAreWhole == Spec => []CompleteReplyListsAllOrNone
<1>1. Init => Reported
    BY DEF Init, Reported, Idle
<1>2. IInv /\ Reported /\ [Next]_vars => Reported'
    BY OnlyQueriesQuery, QueryReports, OthersReport
<1>3. IInv /\ Reported => CompleteReplyListsAllOrNone
  <2> SUFFICES ASSUME IInv, Reported, NEW q \in Query, query[q].at \in {"replied", "blind"},
                      query[q].reply.status = "completed", ~query[q].reply.dryRun
               PROVE  Cardinality(Named(query[q].machines)) =
                          IF query[q].at = "blind" THEN 0 ELSE Count
      BY DEF CompleteReplyListsAllOrNone, Named
  <2> DEFINE r == query[q].of
  <2>1. Knows(query[q], r)
      BY DEF Reported
  <2>2. CASE query[q].at = "blind"
      BY <2>1, <2>2, FS_EmptySet DEF Knows
  <2>3. CASE query[q].at = "replied"
    <3>1. /\ r \in Request /\ request[r] # None /\ query[q].reply = request[r]
          /\ Named(query[q].machines) = MachinesOf(r)
        BY <2>1, <2>3 DEF Knows
    <3>2. Cardinality(MachinesOf(r)) = Count
        BY <3>1 DEF IInv, StatusCountsMachines
    <3> QED
        BY <2>3, <3>1, <3>2
  <2> QED
      BY <2>2, <2>3
<1> QED
    BY <1>1, <1>2, <1>3, Invariance, PTL DEF Spec

-----------------------------------------------------------------------------
(* What a query learns of an instance is never older than what it had read, *)
(* so its news can be older than the stored machine only when the machine   *)
(* is no longer the one that the query read.                                *)
Current(state) ==
    /\ \A i \in Instance : state.machines[i] # None => state.machines[i].seen <= age[i]
    /\ state.at = "updating" =>
         \A i \in Instance : state.news[i] # None =>
             /\ state.machines[i] # None
             /\ state.machines[i].seen <= state.news[i].seen
             /\ state.news[i].seen <= age[i]

Fresh ==
    /\ \A i \in Instance : machine[i] # None => machine[i].seen <= age[i]
    /\ \A q \in Query : Current(query[q])

RaceOnly ==
    \A i \in Instance : machine[i] # None =>
        /\ machine'[i] # None
        /\ machine'[i].seen < machine[i].seen =>
             \E q \in Query :
                 /\ query[q].at = "updating" /\ i \in query[q].todo
                 /\ machine'[i] = query[q].news[i]
                 /\ query[q].machines[i] # machine[i]

(* A step that leaves the machines alone loses nothing. *)
LEMMA SameMachines ==
    ASSUME IInv, machine' = machine
    PROVE  RaceOnly
<1>1. ASSUME NEW i \in Instance, machine[i] # None
      PROVE  machine[i].seen \in Nat
    BY <1>1 DEF IInv, TypeOK, StoredMachine
<1> QED
    BY <1>1 DEF RaceOnly

(* What a query knows stays current while the cloud changes. *)
LEMMA CurrentStays ==
    ASSUME IInv, NEW state \in QueryState, Current(state),
           age' \in [Instance -> Nat], \A i \in Instance : age'[i] >= age[i]
    PROVE  Current(state)'
<1>1. ASSUME NEW i \in Instance
      PROVE  /\ age[i] \in Nat /\ age'[i] \in Nat /\ age'[i] >= age[i]
             /\ state.machines[i] # None => state.machines[i].seen \in Nat
             /\ state.news[i] # None => state.news[i].seen \in Nat
    BY DEF IInv, TypeOK, QueryState, Listing, StoredMachine
<1>2. \A i \in Instance : state.machines[i] # None => state.machines[i].seen <= age'[i]
    BY <1>1 DEF Current
<1>3. ASSUME state.at = "updating", NEW i \in Instance, state.news[i] # None
      PROVE  /\ state.machines[i] # None
             /\ state.machines[i].seen <= state.news[i].seen
             /\ state.news[i].seen <= age'[i]
    BY <1>1, <1>3 DEF Current
<1> QED
    BY <1>2, <1>3 DEF Current

LEMMA FreshSaveMachine ==
    ASSUME IInv, Fresh, NEW r \in Request, SaveMachine(r)
    PROVE  Fresh' /\ RaceOnly
<1> PICK i \in todo[r] : machine' = [machine EXCEPT ![i] =
                             [request |-> r, status |-> "pending", seen |-> 0]]
    BY DEF SaveMachine
<1>1. i \in Instance /\ machine[i] = None
    BY NotYetSaved DEF SaveMachine
<1>2. /\ \A j \in Instance \ {i} : machine'[j] = machine[j]
      /\ machine'[i].seen = 0
    BY <1>1 DEF IInv, TypeOK
<1>3. query' = query /\ age' = age /\ age[i] \in Nat
    BY <1>1 DEF SaveMachine, world, IInv, TypeOK
<1>4. RaceOnly
  <2>1. ASSUME NEW j \in Instance, machine[j] # None
        PROVE  machine'[j] = machine[j] /\ machine[j].seen \in Nat
      BY <1>1, <1>2, <2>1 DEF IInv, TypeOK, StoredMachine
  <2> QED
      BY <2>1 DEF RaceOnly
<1>5. \A j \in Instance : machine'[j] # None => machine'[j].seen <= age'[j]
    BY <1>2, <1>3 DEF Fresh
<1>6. \A q \in Query : Current(query[q])'
    BY <1>3 DEF Fresh, Current
<1> QED
    BY <1>4, <1>5, <1>6 DEF Fresh

(* A query saves what it learned.  News older than the stored machine are   *)
(* older than what the query had read of it too, if that is still stored.   *)
LEMMA FreshUpdate ==
    ASSUME IInv, Fresh, NEW q \in Query, UpdateMachine(q)
    PROVE  Fresh' /\ RaceOnly
<1> PICK i \in query[q].todo :
        /\ machine' = [machine EXCEPT ![i] = query[q].news[i]]
        /\ query' = [query EXCEPT ![q].todo = @ \ {i}]
    BY DEF UpdateMachine
<1>1. /\ i \in Instance /\ query[q].news[i] \in StoredMachine
      /\ query[q].news[i] # None /\ query[q].at = "updating"
    BY StillListed DEF UpdateMachine
<1>2. /\ \A j \in Instance \ {i} : machine'[j] = machine[j]
      /\ machine'[i] = query[q].news[i]
    BY <1>1 DEF IInv, TypeOK
<1>3. age' = age
    BY DEF UpdateMachine, world
<1>4. /\ query[q].machines[i] # None
      /\ query[q].machines[i].seen <= query[q].news[i].seen
      /\ query[q].news[i].seen <= age[i]
    BY <1>1 DEF Fresh, Current
<1>5. RaceOnly
  <2> SUFFICES ASSUME NEW j \in Instance, machine[j] # None
               PROVE  /\ machine'[j] # None
                      /\ machine'[j].seen < machine[j].seen =>
                           /\ j = i
                           /\ query[q].machines[j] # machine[j]
      BY <1>1, <1>2 DEF RaceOnly
  <2>1. machine[j].seen \in Nat
      BY DEF IInv, TypeOK, StoredMachine
  <2>2. CASE j = i
    <3>1. query[q].news[i].seen \in Nat
        BY <1>1 DEF StoredMachine
    <3>2. query[q].machines[i] = machine[i] => machine[i].seen <= query[q].news[i].seen
        BY <1>4
    <3> QED
        BY <1>1, <1>2, <2>1, <2>2, <3>1, <3>2
  <2>3. CASE j # i
      BY <1>2, <2>1, <2>3
  <2> QED
      BY <2>2, <2>3
<1>6. \A j \in Instance : machine'[j] # None => machine'[j].seen <= age'[j]
    BY <1>2, <1>3, <1>4 DEF Fresh
<1>7. ASSUME NEW p \in Query PROVE Current(query[p])'
  <2>1. /\ query'[p].at = query[p].at
        /\ query'[p].machines = query[p].machines
        /\ query'[p].news = query[p].news
      BY DEF IInv, TypeOK, QueryState
  <2> QED
      BY <1>3, <2>1 DEF Fresh, Current
<1> QED
    BY <1>5, <1>6, <1>7 DEF Fresh

(* Every other step of a query leaves it with what is current. *)
LEMMA FreshLearns ==
    ASSUME IInv, Fresh, NEW q \in Query, GetRequest(q), ~UpdateMachine(q)
    PROVE  \E new : query' = [query EXCEPT ![q] = new] /\ Current(new)
<1>0. query[q] \in QueryState /\ query \in [Query -> QueryState]
    BY DEF IInv, TypeOK
<1>1. Current(query[q])
    BY DEF Fresh
<1>2. CASE ReadRequest(q)
  <2> PICK r \in Request : query' = [query EXCEPT ![q] =
              [Idle EXCEPT !.at = "listing", !.of = r, !.reply = request[r]]]
      BY <1>2 DEF ReadRequest
  <2> DEFINE new == [Idle EXCEPT !.at = "listing", !.of = r, !.reply = request[r]]
  <2>1. new.at = "listing" /\ \A i \in Instance : new.machines[i] = None
      BY DEF Idle, NoMachines
  <2> HIDE DEF new
  <2>2. Current(new)
      BY <2>1 DEF Current
  <2> QED
      BY <2>2 DEF new
<1>3. CASE ListMachines(q)
  <2> DEFINE S == MachinesOf(query[q].of)
             listed == [i \in Instance |-> IF i \in S THEN machine[i] ELSE None]
             new == [query[q] EXCEPT !.at = IF S = {} THEN "replied" ELSE "asking",
                                     !.machines = listed]
  <2>1. query' = [query EXCEPT ![q] = new]
      BY <1>0, <1>3 DEF ListMachines
  <2>2. new.machines = listed /\ new.at # "updating"
      BY <1>0 DEF QueryState
  <2>3. \A i \in Instance : listed[i] # None => listed[i] = machine[i]
      OBVIOUS
  <2> HIDE DEF new, listed
  <2>4. Current(new)
      BY <2>2, <2>3 DEF Current, Fresh
  <2> QED
      BY <2>1, <2>4
<1>4. CASE ListFails(q)
  <2> DEFINE new == [query[q] EXCEPT !.at = "blind", !.machines = NoMachines]
  <2>1. query' = [query EXCEPT ![q] = new]
      BY <1>0, <1>4 DEF ListFails
  <2>2. new.at = "blind" /\ \A i \in Instance : new.machines[i] = None
      BY <1>0 DEF QueryState, NoMachines
  <2> HIDE DEF new
  <2>3. Current(new)
      BY <2>2 DEF Current
  <2> QED
      BY <2>1, <2>3
<1>5. CASE AskProvider(q)
  <2> DEFINE listed == query[q].machines
             news == [i \in Instance |->
                        IF listed[i] = None THEN None
                        ELSE [listed[i] EXCEPT !.status = cloud[i], !.seen = age[i]]]
             changed == {i \in Instance : listed[i] # None /\ listed[i].status # cloud[i]}
             new == [query[q] EXCEPT !.at = "updating", !.news = news, !.todo = changed]
  <2>1. query' = [query EXCEPT ![q] = new]
      BY <1>0, <1>5 DEF AskProvider
  <2>2. new.at = "updating" /\ new.machines = listed /\ new.news = news
      BY <1>0 DEF QueryState
  <2>3. ASSUME NEW i \in Instance, news[i] # None
        PROVE  listed[i] # None /\ news[i].seen = age[i] /\ age[i] \in Nat
    <3>1. listed[i] # None
        BY <2>3
    <3>2. listed[i] \in StoredMachine
        BY <1>0, <3>1 DEF QueryState, Listing
    <3> QED
        BY <3>1, <3>2 DEF StoredMachine, IInv, TypeOK
  <2>4. \A i \in Instance : listed[i] # None => listed[i].seen <= age[i]
      BY <1>1 DEF Current
  <2> HIDE DEF new, news, listed
  <2>5. Current(new)
      BY <2>2, <2>3, <2>4 DEF Current
  <2> QED
      BY <2>1, <2>5
<1>6. CASE AskProviderFails(q)
  <2> DEFINE new == [query[q] EXCEPT !.at = "replied"]
  <2>1. query' = [query EXCEPT ![q] = new]
      BY <1>0, <1>6 DEF AskProviderFails
  <2>2. new.at = "replied" /\ new.machines = query[q].machines
      BY <1>0 DEF QueryState
  <2> HIDE DEF new
  <2> QED
      BY <1>1, <2>1, <2>2 DEF Current
<1>7. CASE UpdateFails(q)
  <2> DEFINE new == [query[q] EXCEPT !.at = "replied", !.todo = {}]
  <2>1. query' = [query EXCEPT ![q] = new]
      BY <1>0, <1>7 DEF UpdateFails
  <2>2. new.at = "replied" /\ new.machines = query[q].machines
      BY <1>0 DEF QueryState
  <2> HIDE DEF new
  <2> QED
      BY <1>1, <2>1, <2>2 DEF Current
<1>8. CASE Reply(q)
  <2> DEFINE new == [query[q] EXCEPT !.at = "replied", !.machines = query[q].news]
  <2>1. query' = [query EXCEPT ![q] = new]
      BY <1>0, <1>8 DEF Reply
  <2>2. new.at = "replied" /\ new.machines = query[q].news /\ query[q].at = "updating"
      BY <1>0, <1>8 DEF QueryState, Reply
  <2> HIDE DEF new
  <2> QED
      BY <1>1, <2>1, <2>2 DEF Current
<1> QED
    BY <1>2, <1>3, <1>4, <1>5, <1>6, <1>7, <1>8 DEF GetRequest

LEMMA FreshQuery ==
    ASSUME IInv, Fresh, NEW q \in Query, GetRequest(q)
    PROVE  Fresh' /\ RaceOnly
<1>1. CASE UpdateMachine(q)
    BY <1>1, FreshUpdate
<1>2. CASE ~UpdateMachine(q)
  <2>1. UNCHANGED <<machine, age>>
      BY <1>2 DEF GetRequest, ReadRequest, ListMachines, ListFails, AskProvider,
         AskProviderFails, UpdateFails, Reply, storage, world
  <2>2. PICK new : query' = [query EXCEPT ![q] = new] /\ Current(new)
      BY <1>2, FreshLearns
  <2>3. ASSUME NEW p \in Query PROVE query'[p] = new \/ query'[p] = query[p]
      BY <2>2 DEF IInv, TypeOK
  <2>4. \A p \in Query : Current(query[p])'
      BY <2>1, <2>2, <2>3 DEF Fresh, Current
  <2> QED
      BY <2>1, <2>4, SameMachines DEF Fresh
<1> QED
    BY <1>1, <1>2

LEMMA FreshNext ==
    ASSUME IInv, Fresh, [Next]_vars
    PROVE  Fresh' /\ RaceOnly
<1>1. CASE UNCHANGED <<machine, age, query>>
    BY <1>1, SameMachines DEF Fresh, Current
<1>2. CASE \E r \in Request : Create(r) \/ Crash(r) \/ FleetLaunches(r)
    BY <1>1, <1>2, FreshSaveMachine DEF Create, Provision, Record, Accept, AcceptDryRun, Reject,
       Launch, LaunchRefused, LaunchUnanswered, ProvisioningFails, DescribeLaunched,
       AfterLaunchFails, CreateFleet, FleetUnanswered, MachineSaveFails, Fulfil, SaveRequest,
       RequestSaveFails, Crash, FleetLaunches, Failed, Start, storage, world
<1>3. CASE CreateReturn \/ UNCHANGED vars
    BY <1>1, <1>3 DEF CreateReturn, vars, storage, world
<1>4. CASE \E i \in Instance : InstanceChanges(i)
  <2> PICK i \in Instance : InstanceChanges(i)
      BY <1>4
  <2>1. age' = [age EXCEPT ![i] = @ + 1] /\ UNCHANGED <<machine, query>>
      BY DEF InstanceChanges, storage
  <2>2. /\ age \in [Instance -> Nat] /\ age' \in [Instance -> Nat]
        /\ \A j \in Instance : age'[j] >= age[j]
      BY <2>1 DEF IInv, TypeOK
  <2>3. ASSUME NEW j \in Instance, machine'[j] # None PROVE machine'[j].seen <= age'[j]
    <3>1. machine[j].seen \in Nat /\ age[j] \in Nat /\ age'[j] \in Nat
        BY <2>1, <2>2, <2>3 DEF IInv, TypeOK, StoredMachine
    <3> QED
        BY <2>1, <2>2, <2>3, <3>1 DEF Fresh
  <2>4. ASSUME NEW q \in Query PROVE Current(query[q])'
    <3>1. PICK state \in QueryState : state = query[q]
        BY DEF IInv, TypeOK
    <3>2. Current(state)'
        BY <2>2, <3>1, CurrentStays DEF Fresh
    <3> QED
        BY <2>1, <3>1, <3>2 DEF Current
  <2> QED
      BY <2>1, <2>3, <2>4, SameMachines DEF Fresh
<1> QED
    BY <1>2, <1>3, <1>4, FreshQuery DEF Next

(* No machine disappears, and only a query that read a machine before       *)
(* another stored it puts older news in its place, with any number of       *)
(* queries and commands that meet in any way and any changes of the cloud   *)
(* (_update_machine_status_from_aws).                                       *)
THEOREM OldNewsIsARace == Spec => OnlyRacesStoreOldNews
<1>1. Init => Fresh
    BY DEF Init, Fresh, Current, Idle, NoMachines
<1>2. IInv /\ Fresh /\ [Next]_vars => Fresh' /\ RaceOnly
    BY FreshNext
<1>3. [RaceOnly]_vars <=>
        [\A i \in Instance : machine[i] # None =>
           /\ machine'[i] # None
           /\ machine'[i].seen < machine[i].seen =>
                \E q \in Query :
                    /\ query[q].at = "updating" /\ i \in query[q].todo
                    /\ machine'[i] = query[q].news[i]
                    /\ query[q].machines[i] # machine[i]]_vars
    BY DEF RaceOnly
<1> QED
    BY <1>1, <1>2, <1>3, Invariance, PTL DEF Spec, OnlyRacesStoreOldNews

=============================================================================
