-------------------------- MODULE RequestLifecycle --------------------------
(***************************************************************************)
(* What becomes of a request for machines.  Three parties share the        *)
(* storage and the cloud, each command or query in a process of its own:   *)
(*  - CreateMachineRequestHandler (application/commands/                    *)
(*    request_handlers.py) asks the provider for instances, stores one     *)
(*    machine per instance and last the request;                           *)
(*  - GetRequestHandler (application/queries/handlers.py) reads a request, *)
(*    asks the provider how its machines are and stores what changed;      *)
(*  - CreateReturnRequestHandler accepts machines back.                    *)
(* The cloud changes on its own.  A save is one atomic step here (JsonStore*)
(* is the model of what happens inside it).  A request is for one of two   *)
(* AWS APIs: RunInstances answers with the instances, EC2 Fleet with a     *)
(* fleet whose instances come later.                                       *)
(***************************************************************************)
EXTENDS Integers, FiniteSets

CONSTANTS
    Request,     \* the ACQUIRE requests that may be made
    Instance,    \* the instances the cloud may launch
    Query,       \* the processes that ask for the status of a request
    Count,       \* command.requested_count, the same for every request
    MaxAttempts, \* max_attempts of the retry decorator
    MaxChanges,  \* bound: how often the cloud changes instances, all together
    Fault,       \* which steps may fail, a subset of AllFaults
    None         \* no record

AllFaults == {"refuse", "lost", "afterLaunch", "saveMachine", "saveRequest",
              "crash", "list", "status", "update"}

VARIABLES
    \* the storage
    request,     \* the stored requests: status and the dry_run metadata
    machine,     \* the stored machines, by instance id
    \* the cloud
    cloud,       \* the state of every instance, "none" before it is launched
    age,         \* how often it has changed
    launchedFor, \* the request an instance was launched for
    fleets,      \* how many EC2 fleets were created for a request
    \* CreateMachineRequestHandler, one per request
    pc,
    attempt,     \* of the retry decorator around the launch
    answer,      \* the instance ids of the launch's response
    found,       \* instance_data_list of the provider's result
    todo,        \* the instances of it that are not yet saved as machines
    status,      \* of the request aggregate the handler holds
    \* GetRequestHandler, one per query
    query,
    \* CreateReturnRequestHandler
    returned     \* the machines whose return was accepted

storage == <<request, machine>>
world   == <<cloud, age, launchedFor, fleets>>
create  == <<pc, attempt, answer, found, todo, status>>
vars    == <<storage, world, create, query, returned>>

RequestStatus == {"pending", "in_progress", "completed", "partial", "failed"}
InstanceState == {"pending", "running", "stopping", "stopped",
                  "shutting-down", "terminated"}

(* seen is no field of the code's record: it says which change of the      *)
(* instance the status reports.  The field version is left out: it is      *)
(* written and nothing ever reads it.                                      *)
StoredRequest == [status : RequestStatus, dryRun : BOOLEAN]
StoredMachine == [request : Request, status : InstanceState, seen : Nat]

ASSUME LifecycleAssumption ==
    /\ IsFiniteSet(Instance)
    /\ Count \in Nat \ {0}
    /\ MaxAttempts \in Nat
    /\ MaxChanges \in Nat
    /\ Fault \subseteq AllFaults
    /\ None \notin Request \union StoredRequest \union StoredMachine

Location == {"idle", "dryRun", "launching", "requesting", "describing",
             "recording", "saving", "answered", "raised", "unsaved", "dead"}
(* launching is the retried call of run_instances, requesting that of      *)
(* create_fleet.                                                           *)
Calling  == {"launching", "requesting"}
Ended    == {"answered", "raised", "unsaved", "dead"}

(* A query's own state: the request it read, the machines it listed and    *)
(* what the provider said of them since; blind is replied when the machines *)
(* could not be read.                                                      *)
Listing == [Instance -> StoredMachine \union {None}]
QueryState == [at : {"idle", "listing", "asking", "updating", "replied", "blind"},
               of : Request \union {None}, reply : StoredRequest \union {None},
               machines : Listing, news : Listing, todo : SUBSET Instance]
NoMachines == [i \in Instance |-> None]
Idle == [at |-> "idle", of |-> None, reply |-> None,
         machines |-> NoMachines, news |-> NoMachines, todo |-> {}]

Init ==
    /\ request = [r \in Request |-> None]
    /\ machine = [i \in Instance |-> None]
    /\ cloud = [i \in Instance |-> "none"]
    /\ age = [i \in Instance |-> 0]
    /\ launchedFor = [i \in Instance |-> None]
    /\ fleets = [r \in Request |-> 0]
    /\ pc = [r \in Request |-> "idle"]
    /\ attempt = [r \in Request |-> 0]
    /\ answer = [r \in Request |-> {}]
    /\ found = [r \in Request |-> {}]
    /\ todo = [r \in Request |-> {}]
    /\ status = [r \in Request |-> "pending"]
    /\ query = [q \in Query |-> Idle]
    /\ returned = {}

MachinesOf(r) == {i \in Instance : machine[i] # None /\ machine[i].request = r}
LaunchedFor(r) == {i \in Instance : launchedFor[i] = r}
Alive(i) == cloud[i] \notin {"none", "terminated"}

-----------------------------------------------------------------------------
(* Plausible faults of the code, each in place of the operation it names.  *)

(* a failed provisioning is taken up again from the start *)
ProvisioningFails_StartsOver(r) ==
    /\ "refuse" \in Fault
    /\ pc[r] \in Calling
    /\ attempt[r] > 0
    /\ attempt' = [attempt EXCEPT ![r] = 0]
    /\ UNCHANGED <<storage, world, pc, answer, found, todo, status, query, returned>>

(* retry: "attempt > max_attempts" for "attempt >= max_attempts" *)
LaunchUnanswered_OneTooMany(r) ==
    /\ "lost" \in Fault
    /\ pc[r] = "launching"
    /\ attempt[r] <= MaxAttempts
    /\ attempt' = [attempt EXCEPT ![r] = @ + 1]
    /\ UNCHANGED <<storage, world, pc, answer, found, todo, status, query, returned>>

(* _get_instance_details by the request's tag, not by the ids just answered *)
DescribeLaunched_ByTag(r) ==
    /\ pc[r] = "describing"
    /\ pc' = [pc EXCEPT ![r] = "recording"]
    /\ found' = [found EXCEPT ![r] = LaunchedFor(r)]
    /\ todo' = [todo EXCEPT ![r] = LaunchedFor(r)]
    /\ UNCHANGED <<storage, world, attempt, answer, status, query, returned>>

(* a failed save leaves the handler at once *)
MachineSaveFails_Raises(r) ==
    /\ "saveMachine" \in Fault
    /\ pc[r] = "recording"
    /\ todo[r] # {}
    /\ pc' = [pc EXCEPT ![r] = "raised"]
    /\ UNCHANGED <<storage, world, attempt, answer, found, todo, status, query, returned>>

(* the fulfilment is decided before the machines are saved *)
Fulfil_Early(r) ==
    /\ pc[r] = "recording"
    /\ pc' = [pc EXCEPT ![r] = "saving"]
    /\ status' = [status EXCEPT ![r] =
            IF Cardinality(found[r]) = Count THEN "completed"
            ELSE IF found[r] # {} THEN "partial" ELSE "in_progress"]
    /\ UNCHANGED <<storage, world, attempt, answer, found, todo, query, returned>>

(* "is anything there" for "is all of it there" *)
Fulfil_Any(r) ==
    /\ pc[r] = "recording"
    /\ todo[r] = {}
    /\ pc' = [pc EXCEPT ![r] = "saving"]
    /\ status' = [status EXCEPT ![r] =
            IF found[r] # {} THEN "completed" ELSE "in_progress"]
    /\ UNCHANGED <<storage, world, attempt, answer, found, todo, query, returned>>

(* a failed update puts the machines back as the query had first read them *)
UpdateFails_PutsBack(q) ==
    /\ "update" \in Fault
    /\ query[q].at = "updating"
    /\ machine' = [i \in Instance |->
            IF query[q].machines[i] # None
            THEN query[q].machines[i] ELSE machine[i]]
    /\ query' = [query EXCEPT ![q].at = "replied"]
    /\ UNCHANGED <<request, world, create, returned>>

-----------------------------------------------------------------------------
(* CreateMachineRequestHandler.execute_command *)

(* Template lookup, provider selection and validation pass; the aggregate  *)
(* is created PENDING and exists in the handler only.  The template says   *)
(* which API launches.                                                     *)
Accept(r) ==
    /\ pc[r] = "idle"
    /\ \E api \in Calling : pc' = [pc EXCEPT ![r] = api]
    /\ UNCHANGED <<storage, world, attempt, answer, found, todo, status, query, returned>>

(* One of them fails: the exception leaves the handler, nothing is stored. *)
Reject(r) ==
    /\ pc[r] = "idle"
    /\ pc' = [pc EXCEPT ![r] = "raised"]
    /\ UNCHANGED <<storage, world, attempt, answer, found, todo, status, query, returned>>

(* dry_run: the provider is not asked. *)
AcceptDryRun(r) ==
    /\ pc[r] = "idle"
    /\ pc' = [pc EXCEPT ![r] = "dryRun"]
    /\ status' = [status EXCEPT ![r] = "completed"]
    /\ UNCHANGED <<storage, world, attempt, answer, found, todo, query, returned>>

(* The cloud starts the instances of S for r. *)
Start(S, r) ==
    /\ cloud' = [i \in Instance |-> IF i \in S THEN "pending" ELSE cloud[i]]
    /\ launchedFor' = [i \in Instance |-> IF i \in S THEN r ELSE launchedFor[i]]
    /\ UNCHANGED <<age, fleets>>

(* run_instances with MinCount 1 and MaxCount requested_count *)
CanStart(S) ==
    /\ S # {}
    /\ Cardinality(S) <= Count
    /\ \A i \in S : cloud[i] = "none"

Launch(r) ==
    /\ pc[r] = "launching"
    /\ \E S \in SUBSET Instance :
         /\ CanStart(S)
         /\ Start(S, r)
         /\ answer' = [answer EXCEPT ![r] = S]
    /\ pc' = [pc EXCEPT ![r] = "describing"]
    /\ UNCHANGED <<storage, attempt, found, todo, status, query, returned>>

(* The call fails and the retry decorator repeats it. *)
LaunchRefused(r) ==
    /\ "refuse" \in Fault
    /\ pc[r] \in Calling
    /\ attempt[r] < MaxAttempts
    /\ attempt' = [attempt EXCEPT ![r] = @ + 1]
    /\ UNCHANGED <<storage, world, pc, answer, found, todo, status, query, returned>>

(* The call takes effect but its answer is lost: it is repeated all the    *)
(* same, since no client token tells the cloud that it is the same call.   *)
LaunchUnanswered(r) ==
    /\ "lost" \in Fault
    /\ pc[r] = "launching"
    /\ attempt[r] < MaxAttempts
    /\ attempt' = [attempt EXCEPT ![r] = @ + 1]
    /\ \E S \in SUBSET Instance : CanStart(S) /\ Start(S, r)
    /\ UNCHANGED <<storage, pc, answer, found, todo, status, query, returned>>

(* The handler goes on to store the request as FAILED. *)
Failed(r) ==
    /\ pc' = [pc EXCEPT ![r] = "saving"]
    /\ status' = [status EXCEPT ![r] = "failed"]

(* The provider reports a failure: the last attempt failed, the circuit is *)
(* open, or a step before the launch failed.                               *)
ProvisioningFails(r) ==
    /\ "refuse" \in Fault
    /\ pc[r] \in Calling
    /\ Failed(r)
    /\ UNCHANGED <<storage, world, attempt, answer, found, todo, query, returned>>

(* The answer's instances are described; they are the result's instances.  *)
DescribeLaunched(r) ==
    /\ pc[r] = "describing"
    /\ pc' = [pc EXCEPT ![r] = "recording"]
    /\ found' = [found EXCEPT ![r] = answer[r]]
    /\ todo' = [todo EXCEPT ![r] = answer[r]]
    /\ UNCHANGED <<storage, world, attempt, answer, status, query, returned>>

(* acquire_hosts turns any exception after the launch into a failure. *)
AfterLaunchFails(r) ==
    /\ "afterLaunch" \in Fault
    /\ pc[r] = "describing"
    /\ Failed(r)
    /\ UNCHANGED <<storage, world, attempt, answer, found, todo, query, returned>>

(* create_fleet answers with the id of the fleet.  No instance is recorded, *)
(* of an instant fleet neither: its ids are read from fleetInstanceSet,     *)
(* which the answer of boto3 does not have.                                 *)
CreateFleet(r) ==
    /\ pc[r] = "requesting"
    /\ pc' = [pc EXCEPT ![r] = "recording"]
    /\ fleets' = [fleets EXCEPT ![r] = @ + 1]
    /\ UNCHANGED <<storage, cloud, age, launchedFor, attempt, answer, found, todo,
                   status, query, returned>>

(* The fleet is there and its answer is lost: the next attempt creates      *)
(* another one, since create_fleet is given no client token either.         *)
FleetUnanswered(r) ==
    /\ "lost" \in Fault
    /\ pc[r] = "requesting"
    /\ attempt[r] < MaxAttempts
    /\ attempt' = [attempt EXCEPT ![r] = @ + 1]
    /\ fleets' = [fleets EXCEPT ![r] = @ + 1]
    /\ UNCHANGED <<storage, cloud, age, launchedFor, pc, answer, found, todo,
                   status, query, returned>>

(* One machine, saved PENDING in a unit of work of its own. *)
SaveMachine(r) ==
    /\ pc[r] = "recording"
    /\ \E i \in todo[r] :
         /\ machine' = [machine EXCEPT ![i] =
                [request |-> r, status |-> "pending", seen |-> 0]]
         /\ todo' = [todo EXCEPT ![r] = @ \ {i}]
    /\ UNCHANGED <<request, world, pc, attempt, answer, found, status, query, returned>>

(* The inner except: what was saved stays, the request becomes FAILED. *)
MachineSaveFails(r) ==
    /\ "saveMachine" \in Fault
    /\ pc[r] = "recording"
    /\ todo[r] # {}
    /\ Failed(r)
    /\ UNCHANGED <<storage, world, attempt, answer, found, todo, query, returned>>

Fulfilment(S) ==
    IF Cardinality(S) = Count THEN "completed"
    ELSE IF S # {} THEN "partial" ELSE "in_progress"

Fulfil(r) ==
    /\ pc[r] = "recording"
    /\ todo[r] = {}
    /\ pc' = [pc EXCEPT ![r] = "saving"]
    /\ status' = [status EXCEPT ![r] = Fulfilment(found[r])]
    /\ UNCHANGED <<storage, world, attempt, answer, found, todo, query, returned>>

(* The request is stored for the first time, and its id returned. *)
SaveRequest(r) ==
    /\ pc[r] \in {"saving", "dryRun"}
    /\ request' = [request EXCEPT ![r] =
            [status |-> status[r], dryRun |-> pc[r] = "dryRun"]]
    /\ pc' = [pc EXCEPT ![r] = "answered"]
    /\ UNCHANGED <<machine, world, attempt, answer, found, todo, status, query, returned>>

(* The exception leaves the handler, with the machines already stored. *)
RequestSaveFails(r) ==
    /\ "saveRequest" \in Fault
    /\ pc[r] \in {"saving", "dryRun"}
    /\ pc' = [pc EXCEPT ![r] = "unsaved"]
    /\ UNCHANGED <<storage, world, attempt, answer, found, todo, status, query, returned>>

(* The handler's process dies. *)
Crash(r) ==
    /\ "crash" \in Fault
    /\ pc[r] \notin Ended \union {"idle"}
    /\ pc' = [pc EXCEPT ![r] = "dead"]
    /\ UNCHANGED <<storage, world, attempt, answer, found, todo, status, query, returned>>

-----------------------------------------------------------------------------
(* GetRequestHandler.execute_query *)

ReadRequest(q) ==
    /\ query[q].at \in {"idle", "replied", "blind"}
    /\ \E r \in Request :
         /\ request[r] # None
         /\ query' = [query EXCEPT ![q] =
                [Idle EXCEPT !.at = "listing", !.of = r, !.reply = request[r]]]
    /\ UNCHANGED <<storage, world, create, returned>>

(* No machines: the provider is asked for the instances of the resources,  *)
(* and always in vain (check_hosts_status is awaited although it is no     *)
(* coroutine, and a Machine without instance_type is refused): the reply   *)
(* lists none.                                                             *)
ListMachines(q) ==
    /\ query[q].at = "listing"
    /\ LET S == MachinesOf(query[q].of)
       IN query' = [query EXCEPT
            ![q].at = IF S = {} THEN "replied" ELSE "asking",
            ![q].machines = [i \in Instance |-> IF i \in S THEN machine[i] ELSE None]]
    /\ UNCHANGED <<storage, world, create, returned>>

(* A failed read of the machines is logged and taken for no machines.      *)
ListFails(q) ==
    /\ "list" \in Fault
    /\ query[q].at = "listing"
    /\ query' = [query EXCEPT ![q].at = "blind", ![q].machines = NoMachines]
    /\ UNCHANGED <<storage, world, create, returned>>

(* GET_INSTANCE_STATUS of all the machines at once *)
AskProvider(q) ==
    /\ query[q].at = "asking"
    /\ LET listed == query[q].machines
       IN query' = [query EXCEPT
            ![q].at = "updating",
            ![q].news = [i \in Instance |->
                IF listed[i] = None THEN None
                ELSE [listed[i] EXCEPT !.status = cloud[i], !.seen = age[i]]],
            ![q].todo = {i \in Instance :
                listed[i] # None /\ listed[i].status # cloud[i]}]
    /\ UNCHANGED <<storage, world, create, returned>>

(* The provider fails, and the reply is made from what was stored. *)
AskProviderFails(q) ==
    /\ "status" \in Fault
    /\ query[q].at = "asking"
    /\ query' = [query EXCEPT ![q].at = "replied"]
    /\ UNCHANGED <<storage, world, create, returned>>

(* A changed machine is overwritten by the copy that was listed, with its  *)
(* new status, in a unit of work of its own.                               *)
UpdateMachine(q) ==
    /\ query[q].at = "updating"
    /\ \E i \in query[q].todo :
         /\ machine' = [machine EXCEPT ![i] = query[q].news[i]]
         /\ query' = [query EXCEPT ![q].todo = @ \ {i}]
    /\ UNCHANGED <<request, world, create, returned>>

(* A save fails: the machines are reported as they were listed. *)
UpdateFails(q) ==
    /\ "update" \in Fault
    /\ query[q].at = "updating"
    /\ query[q].todo # {}
    /\ query' = [query EXCEPT ![q].at = "replied", ![q].todo = {}]
    /\ UNCHANGED <<storage, world, create, returned>>

Reply(q) ==
    /\ query[q].at = "updating"
    /\ query[q].todo = {}
    /\ query' = [query EXCEPT ![q].at = "replied", ![q].machines = query[q].news]
    /\ UNCHANGED <<storage, world, create, returned>>

-----------------------------------------------------------------------------
(* CreateReturnRequestHandler.execute_command: a RETURN request is stored, *)
(* PENDING; no provider is asked and no machine is touched.                *)
CreateReturn ==
    /\ \E i \in Instance :
         /\ machine[i] # None
         /\ i \notin returned
         /\ returned' = returned \union {i}
    /\ UNCHANGED <<storage, world, create, query>>

-----------------------------------------------------------------------------
(* The cloud *)

Change == {<<"pending", "running">>, <<"pending", "shutting-down">>,
           <<"running", "stopping">>, <<"running", "shutting-down">>,
           <<"stopping", "stopped">>, <<"stopped", "pending">>,
           <<"stopped", "terminated">>, <<"shutting-down", "terminated">>}

InstanceChanges(i) ==
    /\ Cardinality({c \in Instance \X (1 .. MaxChanges) : c[2] <= age[c[1]]}) < MaxChanges
    /\ \E s \in InstanceState :
         /\ <<cloud[i], s>> \in Change
         /\ cloud' = [cloud EXCEPT ![i] = s]
    /\ age' = [age EXCEPT ![i] = @ + 1]
    /\ UNCHANGED <<storage, launchedFor, fleets, create, query, returned>>

(* Every fleet of r launches up to the capacity it was asked for. *)
FleetLaunches(r) ==
    /\ Cardinality(LaunchedFor(r)) < fleets[r] * Count
    /\ \E i \in Instance : cloud[i] = "none" /\ Start({i}, r)
    /\ UNCHANGED <<storage, create, query, returned>>

-----------------------------------------------------------------------------
Provision(r) ==
    \/ Launch(r) \/ LaunchRefused(r) \/ LaunchUnanswered(r) \/ ProvisioningFails(r)
    \/ DescribeLaunched(r) \/ AfterLaunchFails(r)
    \/ CreateFleet(r) \/ FleetUnanswered(r)

Record(r) ==
    \/ SaveMachine(r) \/ MachineSaveFails(r) \/ Fulfil(r)
    \/ SaveRequest(r) \/ RequestSaveFails(r)

Create(r) == Accept(r) \/ AcceptDryRun(r) \/ Reject(r) \/ Provision(r) \/ Record(r)

GetRequest(q) ==
    \/ ReadRequest(q) \/ ListMachines(q) \/ ListFails(q) \/ AskProvider(q) \/ AskProviderFails(q)
    \/ UpdateMachine(q) \/ UpdateFails(q) \/ Reply(q)

Next ==
    \/ \E r \in Request : Create(r) \/ Crash(r) \/ FleetLaunches(r)
    \/ \E q \in Query : GetRequest(q)
    \/ CreateReturn
    \/ \E i \in Instance : InstanceChanges(i)

Spec == Init /\ [][Next]_vars

(* A command that was accepted goes on, a query is made again and again,   *)
(* and a fleet launches its instances.                                     *)
Fairness ==
    /\ \A r \in Request :
         WF_vars(Provision(r)) /\ WF_vars(Record(r)) /\ WF_vars(FleetLaunches(r))
    /\ \A q \in Query : WF_vars(GetRequest(q))

FairSpec == Spec /\ Fairness

-----------------------------------------------------------------------------
(* Every variable has its type; in particular an attempt is never counted  *)
(* beyond max_attempts (retry_decorator.wrapper).                          *)
TypeOK ==
    /\ request \in [Request -> StoredRequest \union {None}]
    /\ machine \in [Instance -> StoredMachine \union {None}]
    /\ cloud \in [Instance -> InstanceState \union {"none"}]
    /\ age \in [Instance -> Nat]
    /\ launchedFor \in [Instance -> Request \union {None}]
    /\ fleets \in [Request -> Nat]
    /\ pc \in [Request -> Location]
    /\ attempt \in [Request -> 0 .. MaxAttempts]
    /\ answer \in [Request -> SUBSET Instance]
    /\ found \in [Request -> SUBSET Instance]
    /\ todo \in [Request -> SUBSET Instance]
    /\ status \in [Request -> RequestStatus]
    /\ query \in [Query -> QueryState]
    /\ returned \subseteq Instance

(* What the stored status of a request says of its machines is so, whatever *)
(* failed on the way and however often the launch was repeated: COMPLETED   *)
(* has as many stored machines as were asked for, PARTIAL some but not all, *)
(* IN_PROGRESS none (execute_command stores the machines first).            *)
StatusCountsMachines ==
    \A r \in Request : request[r] # None /\ ~request[r].dryRun =>
        LET n == Cardinality(MachinesOf(r))
        IN /\ request[r].status = "completed" => n = Count
           /\ request[r].status = "partial" => 0 < n /\ n < Count
           /\ request[r].status = "in_progress" => n = 0

(* A request never has more machines than were asked for, nor one that was  *)
(* launched for another request.                                            *)
NoOverDelivery ==
    \A r \in Request :
        /\ Cardinality(MachinesOf(r)) <= Count
        /\ MachinesOf(r) \subseteq LaunchedFor(r)

(* A query that answers COMPLETED lists every machine of the request, since *)
(* it reads the request first and the machines later, or none if reading    *)
(* them failed, but never some of them (GetRequestHandler).                 *)
CompleteReplyListsAllOrNone ==
    \A q \in Query :
        /\ query[q].at \in {"replied", "blind"}
        /\ query[q].reply.status = "completed"
        /\ ~query[q].reply.dryRun
        => Cardinality({i \in Instance : query[q].machines[i] # None}) =
               IF query[q].at = "blind" THEN 0 ELSE Count

(* A command that has answered or raised leaves no machine whose request is *)
(* not stored, so none that nobody can ask for, unless the save of the      *)
(* request itself fails (execute_command's two except clauses).             *)
MachinesHaveTheirRequest ==
    \A i \in Instance :
        machine[i] # None /\ pc[machine[i].request] \in {"answered", "raised"}
        => request[machine[i].request] # None

(* requests.md, FAILED: "No machines were created or partial cleanup        *)
(* occurred": nothing that was launched for a FAILED request runs on.       *)
FailedMeansNothingRuns ==
    \A r \in Request : request[r] # None /\ request[r].status = "failed" =>
        \A i \in LaunchedFor(r) : ~Alive(i)

(* A stored machine never disappears, and goes back in time only when two   *)
(* queries meet: who saves the older news of it had read it before the      *)
(* newer were stored.  No other way leads there, so comparing what was read *)
(* with what is stored would stop every such save, which compares nothing   *)
(* (_update_machine_status_from_aws).                                       *)
OnlyRacesStoreOldNews ==
    [][\A i \in Instance : machine[i] # None =>
           /\ machine'[i] # None
           /\ machine'[i].seen < machine[i].seen =>
                \E q \in Query :
                    /\ query[q].at = "updating" /\ i \in query[q].todo
                    /\ machine'[i] = query[q].news[i]
                    /\ query[q].machines[i] # machine[i]]_vars

(* A command that was accepted ends. *)
EveryCommandEnds ==
    \A r \in Request : pc[r] \in Calling ~> pc[r] \in Ended

=============================================================================
