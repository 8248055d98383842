# Verification of open-hostfactory-plugin

TLA+ models of the parts of open-hostfactory-plugin that keep state, share it or lose it; TLC
configurations that check them on small instances; and proofs, checked by TLAPS, that the most
important of the properties hold for every instance. Paths below are relative to `src/` of the
repository unless they begin with `docs/`; `PROJECT.json` names, for each definition, the lines it
is translated from.

    tlasany RWLock.tla                                  parse a module
    tlc -config MCRWLock.cfg MCRWLock.tla               check a model
    tlapm Storage_proofs.tla                            check the proofs about it and JsonStore

## 1. The system

The plugin gives IBM Spectrum Symphony's Host Factory (or a REST, command-line, MCP or Python
client) machines of a cloud provider. A client calls, a front end turns the call into a command or a
query, a bus finds its handler, and the handler works on aggregates that it loads from a storage and
on a provider strategy that it takes from the provider context.

| Part | State | Operations | Interacts with | Hard behaviour | Correct when |
|---|---|---|---|---|---|
| Request commands `application/commands/request_handlers.py` | the stored requests and machines; the launch on its way | create (real or dry-run), return; update, cancel, complete | template query, provider selection and context, storage | a launch whose answer is lost, a machine or a request that cannot be saved, a process that dies between the saves | what is stored agrees with what was launched; the command ends |
| Request query `application/queries/handlers.py` | the copies it read | get a request, refresh its machines | provider context, storage | two units of work per query, the provider asked in between; other queries do the same | a reply is consistent; nothing stored goes back in time |
| JSON storage `infrastructure/persistence/json`, `components/file_manager.py` | one file per kind of entity, its backups, a cache in every strategy object | save, delete, batches, load, recover | the file system, other processes | crashes between the steps of a write, failing reads, several writers | an operation takes effect as a whole or not at all; what is acknowledged stays |
| Reader-writer lock `components/lock_manager.py` | two counters under two locks | acquire and release, for reading and for writing | every operation of a strategy | each side reads the other's counter without its lock | writers are alone; nobody waits for ever |
| Circuit breaker and retry decorator `infrastructure/resilience` | one record per service, shared by threads | success, failure, may I retry, timeout | the AWS calls of the handlers | counters changed without a lock, timeouts that pass in between | opens for cause, stops retries, recovers |
| Provider selection, validation, defaults `application/services` | none; a cached choice | select, validate, fill in defaults | provider configuration, template manager | a template passes five representations with defaults of their own | a request runs only where its template fits |
| Provider context and registration `providers/base/strategy/provider_context.py`, `infrastructure/di/provider_services.py` | the registered strategies | register, execute | configuration, AWS strategy | registration that fails for some providers; another process asks about a request | the provider that launched a request is the one asked about it |
| Template manager and caches `infrastructure/template` | a file of templates; a listing with a time to live in every process | list, get, refresh, save, delete | scheduler strategy, the user's editor, other processes | the file is rewritten in place, and read in between; two forms of a template | no listing is served beyond its time to live and the time it took to load; edits add up |
| AMI resolution `providers/aws/infrastructure/template` | a cache in memory, and one file for all processes | resolve, load, save | SSM, other processes | one temporary name shared by all; a process that stops in a save | no expired or foreign AMI is served; the file is whole |
| Request cache `infrastructure/caching` | a copy and its age in the request's metadata | read, write, invalidate | the request query | a slow query writes over a newer request | no stale answer beyond the time to live |
| Transactions `infrastructure/persistence/base/unit_of_work.py`, `components/transaction_manager.py` | pending operations, savepoints | begin, commit, rollback | repositories | a body that raises after its first save | all of a unit or nothing |
| Dependency container `infrastructure/di` | registrations, singletons, lazy factories | register, get | everything | two locks taken in different orders, registration on demand by two threads | one instance per singleton, no deadlock |
| Events `application/events`, `infrastructure/events` | handlers, events pending in aggregates | publish, handle | aggregates, repositories | events lost by the copies that aggregates make | what is stored is published |
| Fleet handlers, launch templates `providers/aws/infrastructure` | AWS resources | create, describe, terminate | AWS | repeated calls, capacity split between spot and on-demand | one fleet for a request; the parts add up |
| Configuration `config` | the merged dictionary, typed objects made of it, an AppConfig of its own load | get, get typed, set, update, reload, save | files, environment, everything | five files in an order, edits between loads, a reload that raises half-way | the highest source decides; no typed object outlives its dictionary |
| Schedulers, front ends, monitoring | none of their own | read, convert, report | all | conversions | - |

`PROJECT.json` lists these and the smaller parts as components, with what is modelled of each, and
under "hazards" the places where the code is hard to test.

## 2. The modules

| Module | Models | Composed with |
|---|---|---|
| `RWLock` | the lock, to the single test and increment | |
| `JsonStore` | storage strategies and the file manager on one data file | implements `EntityStore` |
| `EntityStore` | what StoragePort promises | |
| `RequestLifecycle` | create, query and return of requests over storage and cloud, for all four AWS handlers | takes a save as one step, which is what JsonStore shows for single units of work |
| `CircuitBreaker` | the record of a circuit, the threads that share it, the clock | stands for the retries that `RequestLifecycle` counts |
| `ProviderRouting` | template, selection, validation, registration, lookup | its constant `Config` is what `Configuration` loads; justifies for one provider called `aws-default` that the queries of `RequestLifecycle` reach the provider that launched |
| `Container` | the dependency container, its three locks, lazy and on-demand registration | its registration functions stand for those of the registries |
| `AMICache` | the resolution of images, the cache file that all processes share | |
| `TemplateStore` | the template file, the cached listings, edits by processes and the user | its listings are the templates `ProviderRouting` starts from |
| `Configuration` | the sources and their merges, the manager and what it caches | |

`MC*` modules give the constants values; `*_proofs` modules hold the theorems, each about the module
of its name, `Storage_proofs` about RWLock and JsonStore. Definitions called
`Op_Something` are faults: the operation `Op` with a plausible error, kept so that one can see which
property each error breaks. No specification uses them.

### RWLock
`readers`, `writers` are `_readers`, `_writers`; `readOwner`, `writeOwner` hold the RLocks of the
conditions `_read_ready`, `_write_ready`; `at` says where a thread is. `acquire_read` is
`EnterRead`, then `SeeNoWriter` or `WaitForWriter`, then `StartReading`; `acquire_write` tests
`_writers` (`SeeOtherWriter`) and `_readers` (`SeeNoReader`) in two steps, as the expression does.
`Condition.wait` gives the lock back; `notifyAll` (external, `Woken`) sends every waiter back to it.

### JsonStore and EntityStore
`file` and `backups` are what is on the disk; every `Strategy` has its own `cache` and works on a
dictionary `work`, and its lock makes its own operations sequential: the state of one operation is `pc`,
`op`, `work`. A save is load (`LoadCached`, `LoadFile`, or `LoadFails` and the recovery),
`CreateBackup`, `WriteFile` (temporary file and rename, one step for the reader of the file) or
`WriteFails`, then the return. A backup is a copy and then a cleanup that removes the oldest: a process
that stops, or a disk that refuses, in between leaves no copy, a part of one, or a whole one with the
cleanup undone or done in part (`BackupStops`), so there may be more than `BackupCount` of them.
Recovery copies a backup over the file in place (`StartRecovery`, `EndRecovery`), so that others can
read a torn file, and starts empty without a backup (`StartEmpty`). `NewUnit` is a new unit of work,
with a new strategy. `Crash` stops a strategy anywhere. `EveryChangeIsOneOperation` says that JsonStore
implements EntityStore.

### RequestLifecycle
The storage (`request`, `machine`), the cloud (`cloud`, `launchedFor`, `fleets`), a create command
per request (`pc`, `attempt`, `answer`, `found`, `todo`, `status`) and the queries. The command goes
accept - launch, with retries - describe - one save per machine - fulfil - save the request, and
every one of these steps has the failure the code catches there, or the one it does not: the
constant `Fault` says which may happen. `Launch` is RunInstances, which answers with its instances;
`CreateFleet` is EC2 Fleet, whose instances come later (`FleetLaunches`), and a retried call makes a
second fleet, for the token of the first is not kept. The acquisition of an auto scaling group always
fails and a Spot Fleet is refused before AWS is asked, so both end as the failures that are modelled.
A query reads the request and its machines in two steps, asks the provider, and saves what changed
machine by machine. A failed read of the machines (`ListFails`) is caught and ends in a reply without
any, whose query is then at "blind". `CreateReturn` accepts machines back, stores a request and tells no provider.

### CircuitBreaker
`state`, `failure_count`, `sinceFailure` and `probing` are the record in `_circuit_states`, shared by
the threads `Caller` without a lock. `failure_count += 1` is a read and a write; so is `record_success`;
`_get_current_state` sees that a timeout has passed in one step and changes the state in another.
Time is the age of the two instants that are stored, `Tick` lets it pass.

### ProviderRouting
Pure operators for the way of a template (`Mapped`, `ApiWithDefaults`, `Domain`, `Select`, `Capable`),
one per component, and an action per command or query: `StartProcess` registers any part of what
could be registered, `Refuse`, `NotFound` and `Run` are the ends of a create command, `QueryStatus`
the strategy that a query asks. `Store` keeps what RequestSerializer keeps. The history variables
`template`, `ranBy`, `ranWith`, `asked` remember what the program does not.

### Container
A thread has a `stack` of calls, since making a service asks for others. `registration`, `singletons`,
`lazyFactories` and `onDemand` are the dictionaries of the registry and the container; the resolver's
lock and the container's are re-entrant and held across the calls they enclose. A registration
function runs under the container's lock; that it writes the registry is one step. What the program's
functions register and ask for are the constants `Sets` and `Uses`. The factory or constructor of a
service in `Fragile` may raise at any point of its work (`MakeRaises`); what a failure leads to depends
on whether the service is registered, as `DIContainer.get` asks (`Refuse`, `Propagate`, the on-demand
path). Optional constructor parameters are left out: they are a need or none.

### AMICache
A process resolves parameters, one after the other: it looks in its memory, asks SSM, and saves the
whole memory to `<file>.tmp`, in two parts, before it renames that to `<file>`. All processes use these
two names, and an open file outlives its name: `handle` says what a process writes to, which may be
a file another process has renamed in the meantime. A process may stop, and the disk may refuse,
between any two of these steps. The buffer is cut at a byte, so a file with the first part of one writer
does not parse and one with bytes of two (`Mixed`) can be anything: nothing, or whatever the constant
`Garbled` allows, also one parameter's image under the name of another. `garbled` remembers that such a
file was read as a good one. What SSM may answer for a parameter is `Published`.

### TemplateStore
One `file`, a cached listing of every process with its age, and at most one load or `edit` under way in
a process. A load reads the file (`BeginLoad`), asks SSM for the AMIs, and only then caches and stamps
what it read (`FinishLoad`); in between the user and other processes edit, and up to `MaxLoad` units of
time pass. In an edit the file is read (`BeginSave`, `BeginDelete`), emptied (`Open`) and written
(`WriteDone`), or not (`EditFails`, `Restart`). Under the default scheduler the program reads what it
writes; under Host Factory it does not (`OwnForm`). An expired listing leaves `cache` at once, for the
code does not look at it again, and `gone` stops growing where it ceases to matter, so time has no
bound. `gone`, `wanted` and `author` are histories: how long ago the file listed what is cached or
loaded, what the edits add up to, and whose edit was the last.

### Configuration
`disk` has the five places a file may be at, `direct` and `hfdirs` the two groups of variables, which are
merged one after the other. `Merge` is `_merge_config` for sections of keys. `raw`, `app` and `cache` are
what the manager keeps. Every question loads first if nothing is loaded (`Ensure`, `Current`);
`LoadFails` is a question that raises. `Reload` ends with the dictionary forgotten and raises once a loader
exists, for the loader has no `reload`. `source` and `wrote` are histories.

## 3. The runs

| Run | Question | Bounds, and why they are enough |
|---|---|---|
| `rwlock` | does the lock keep writers apart and its counters exact? | three threads: a writer, one that waits for it and one that overtakes, each acquiring again and again |
| `json_units` | is a unit of work atomic, durable, and its cache right, when units come one after the other? | two ids, two values, three operations, two backups, so that a backup is dropped; crashes, failing backups |
| `json_race` | what is left when units race and everything fails? batches stay whole | two strategies, batches of two ids, one backup |
| `life_faults` | do storage, cloud and replies agree whatever fails? | one request for two machines, three instances (one more than asked for: a repeated launch), two changes of them by the cloud, which is what a machine needs to go back in time, two queries that meet, all faults |
| `life_leak` | does nothing run for a FAILED request? No | one machine, one more attempt |
| `circuit` | does the circuit open for cause, stop retries, and every request end? | two threads, threshold two, so that increments can be lost; two retries; clock and timeouts of a few ticks |
| `circuit_recovers` | does an open circuit recover? No, unless somebody calls `get_circuit_info`, and nobody does | the same without the caller |
| `routing` | does a request run only where its template fits? | 1400 configurations of one and two providers (names, types, priorities, weights, enabled or not, active or not, both schedulers), 16 templates at and above the limits |
| `container` | is a singleton one instance, is nothing lost, does every `get` end? | two threads, two `get`s each, eight services of every kind the program has: chains of three, a lazy one, an injectable class, a port nobody registers, one that is set up on demand by a function that asks for nothing, and the bus, whose factory may raise and which is registered at the start and again by a function that resolves, as `setup_cqrs_lazy` |
| `ami` | is an expired, foreign or torn entry ever served? | two processes, two parameters with an image of their own, a time to live of one and a clock of two, two answers of SSM: one expires while the other is valid; a file with bytes of both processes reads as empty, or gives a parameter the image of the other and a time still to come |
| `templates` | how stale a listing is served, does a process see its edits, do edits add up? | two processes, two templates, a time to live of two, a load of one, so that an edit meets a load and is served from the cache later, one version of a template (listed or not is what the properties tell apart), no bound on time, edits or restarts |
| `config` | does the highest source decide, is a typed object current? | one section of two keys, two values; four contents of a file; one change after the start, at any point |

The runs of `RWLock`, `JsonStore`, `CircuitBreaker` and `Configuration` check for deadlock. The others
stop when the commands, queries and bounds are used up. Symmetry is used where a run checks no
liveness and the permuted sets are used alike.

The bounds are constants: `MaxOps` (operations that change data, JsonStore), `MaxChanges` (changes of
the instances by the cloud, all together; edits, sets, updates and saves of a configuration), `MaxGets`
(Container), `MaxTime` and `MaxAnswers` (AMICache), `MaxLoad` (TemplateStore: how long a load takes);
`MaxAttempts`, `Threshold`, `ResetTimeout`, `HalfOpenTimeout` and `TTL` are the program's own. The
counters of CircuitBreaker and the ages of TemplateStore stop at what they are compared with. The proofs
know no bound on the number of threads, processes, requests, instances, templates, services or
providers.

### Fairness
`RequestLifecycle`: weak fairness of each command (`Provision`, `Record`) and each query, since a
handler is a sequence of awaited calls that all return or raise (botocore has timeouts), and of
`FleetLaunches`, which is AWS's promise; none of `InstanceChanges` and none of the faults.
`CircuitBreaker`: weak fairness of each thread, which the operating system schedules, and of `Tick`.
`Container`: weak fairness of each thread; a lock is taken by the thread that can take it.
`Spec` alone is used where only safety is checked, as for the lock: a thread may keep it for ever.

## 4. What is proved

| Module | Theorems | The inductive invariant, and why it is needed |
|---|---|---|
| `Storage_proofs` (RWLock) | `LockTypeCorrect`, `WritersExcludeEachOther`, `CountersAreExact`, `ReadersAreNotStranded` | The lock of `_write_ready` is held through the test of `_writers` and its increment, so a thread that has passed the test finds no other writer; for the counters, who is inside is counted by the cardinality of a set of threads |
| `Storage_proofs` (JsonStore) | `StoreTypeCorrect`, `BatchesStayWhole`, `CachesMatch`, `AcknowledgedStays`, `ImplementsEntityStore` | `Underway`: where an operation is tells what it holds. `WholeInMemory`: whatever is in a cache or a work dictionary, or may be copied back from a backup, has a batch whole. `RecentInMemory`: what a unit remembers, or is about to write, has every acknowledged change. `AppliesToFile`: what is about to be written is one operation on what the file holds, so the rename is `Change` of EntityStore and every other step stutters. The first two theorems hold of any units that race, with every fault; the others of units one after the other |
| `RequestLifecycle_proofs` | `TypeCorrect`, `StatusIsTrue`, `NothingIsDeliveredTwice`, `NoOrphans`, `CompleteRepliesAreWhole`, `OldNewsIsARace` | `TypeOK`, `Owned` (a saved or listed instance was launched for this request), `Results` (what was found is part of what the launch answered, no larger than asked for), `Progress` (what is saved and what is left to save make up what was found) and `Listed` (a query works on machines that are stored); the status is counted from what was saved, so the properties alone are not inductive. For replies, `Reported`: a request is stored once and after its machines, so what a query has read of it, and whom it lists, stays so, and a reply that could not read the machines lists none; for overwriting, `Fresh`: what is stored is no newer than the cloud, and what a query is about to store is no older than what it had read |
| `CircuitBreaker_proofs` | `TypeCorrect`, `OpensForCause`, `NoRetryWhileOpen` | `CountsFailures` (what is counted, read and about to be written, or not yet counted, has failed: lost increments only make it smaller), `TurnsForCause` (a thread about to change the state saw an open circuit), `AttemptsLeft`, `BlockedInOpen` |
| `ProviderRouting_proofs` | `TypeCorrect`, `RunsOnlyWhereItFits`, `StrategyIsFound`, `ServableIsNotRefused` | the properties with `MadeOnce`; the work is in lemmas about the operators: what the defaults leave of a template (`DomainFacts`), whom selection prefers (`SelectFacts`), and that it finds somebody (`LowestExists`, `HighestExists`: a least number of providers without a best one would have a smaller one, as `<` on the naturals is well founded) |
| `Container_proofs` | `TypeCorrect`, `SingletonsAreOne`, `SoundServed`, `NothingLost`, `NobodyWaitsInACircle` | An instance is made, and kept, under the resolver's lock, so of all calls on all stacks at most one is between the look into the registry and the store of what it made; a call that sees a service unregistered saw it while no thread had registered it, so what is sound is not refused; a registration function asks only for what it uses (`SetupLinked`), so if all of that is sound no exception ends it before it has registered. A service that is registered never takes the on-demand path, so a function that runs under the container's lock is, by `LocksInOrder`, one that asks for nothing, and whoever holds that lock goes on. The acyclicity of the needs is an assumption, the height of a stack is not bounded |
| `AMICache_proofs` | `TypeCorrect`, `FreshServed`, `FileIsWhole`, `AskedOnce` | *Genuine*: as long as nothing garbled was read, every entry, in a memory, the file or the temporary file, is an answer of SSM for its parameter; *Alone*: before two processes have met, what is written in part is written by the process that runs, and no file has bytes of two; *Remembered*: an answer not yet too old is known to the running process, and to the file unless that process is saving |
| `TemplateStore_proofs` | `TypeCorrect`, `RecentServed`, `OwnSeen`, `Kept` | `NotOlder`: the file had a listing that is being loaded no longer ago than the load takes, and a cached one no longer ago than its age and its load; `Seen`: what the author of the last edit caches or loads is what the file lists, since a process does not load while it edits (`Apart`); `Adding`: an edit that is alone works on the listing that is wanted, and the file holds that listing when no edit is under way |
| `Configuration_proofs` | `TypeCorrect`, `PrecedenceCorrect`, `TypedCurrent` | `MergeAnswers` says for one merge who answers a key, `LoadAnswers` for the five of a load; `Traced` remembers that the files a dictionary came from are files that load, and that nothing is written to one that is not there |

The assumptions are the ASSUMEs of the modules (`RWLockAssumption`, `JsonStoreAssumption`, ...): finite
sets of actors where cardinalities are taken, values that differ from the marks for "none", in
`ProviderRouting` what the validators of the configuration let through, in `Container` that no service
needs itself and that no registration function replaces a singleton of the start. Each theorem is
Init => I, I and a step => I', I => property, with one lemma per action.

Some theorems hold only under a condition, which they state; without it the model has a counterexample:

- `CachesMatch`, `AcknowledgedStays` and `ImplementsEntityStore` are of the form
  `Spec /\ []OneUnitAtATime => ...`: there may be any number of units of work, in any processes, but at
  most one is between its first operation and its end. The program meets this as long as one request
  is handled at a time; when units overlap, each has a lock and a cache of its own, and the run
  `json_race` with these properties finds the lost change (section 5). The faults they exclude are needed too: a
  write that fails after the cache was changed leaves a cache the file does not have, and a file
  that cannot be read is replaced by a backup, or by nothing, and with it what was acknowledged.
- `NobodyWaitsInACircle` assumes `LocksInOrder`: a service whose registration function asks the container
  for others is registered by the start of the program, as the buses are. Otherwise the function runs
  when the service is asked for, and takes the container's lock before the resolver's.

`ServedIsRecent`, `ServedIsFresh` and `OnlyRacesStoreOldNews` need no condition on the run: what the code
does not ensure (a load takes time, a file with bytes of two writers may parse, queries race) is said in
the property.

Every invariant, every action property and the refinement that a passing run checks is a theorem, three of
them under the first of the conditions above.
Model-checked only: liveness (`EveryCommandEnds`, `EveryRequestEnds`, `EveryGetEnds`), which is out of the
prover's reach, as is ENABLED; of `EveryGetEnds` the safety half, that not all wait, is
`NobodyWaitsInACircle`. The two violations are shown by their runs. `NobodyWaitsInACircle` states no property
of a run: the run checks it as part of `EveryGetEnds`, with the fairness of the threads.

## 5. What the checks found

Two runs end in a violation, where the code and its documentation part:

1. `life_leak`: a request is FAILED while its instances run (run_instances_handler.py:128).
2. `circuit_recovers`: a circuit that has opened stays open (circuit_breaker.py:110).

Others are stated in the modules as properties that fail; no run of the project repeats them. Each
can be seen by naming the property in the configuration of the module:

- `NoReadersPresent` (RWLock): readers and a writer are inside together, though a writer gets in "with no
  readers present" (lock_manager.py:13; the tests at :28 and :44 are under different locks).
- `NothingAckedIsLost` under the constants of `json_race`: overlapping units of work lose an acknowledged
  change; each has its own lock and cache (json/strategy.py:65), although the file is said to be locked
  (docs/docs/user_guide/storage_strategies.md:588).
- `OnlyRacesStoreOldNews` without its second half (RequestLifecycle): a query that is slower than another stores
  the older status of a machine; it does not look at what is stored (queries/handlers.py:348). The property
  says that this is the only way.
- `CompleteReplyListsAllOrNone` without "or none": a COMPLETED request is answered with no machine when its
  machines cannot be read (queries/handlers.py:163), and the reply does not say so.
- `AskedWhereLaunched` (ProviderRouting): the provider instance is not stored, and queries ask
  `aws-default` (queries/handlers.py:293; docs/architecture/multi-provider-design.md:46).
- `ViewsAgree` (Configuration): the AppConfig is loaded apart from the dictionary, so a file that changes in
  between splits the "single source of truth" (configuration_manager.py:29).
- `WholeUnlessShared` without its condition (AMICache): two processes tear the cache file, which is then read
  as empty (ami_cache.py:21).
- `ServedIsFresh` without its condition (AMICache): a torn file that parses all the same gives a parameter the
  image of another, or a time to come (ami_cache.py:219). TLC needs 18 steps.
- `ServedIsRecent` with the time to live alone (TemplateStore): a listing that the file gave up while its AMIs were
  resolved is stamped afterwards, and served for the whole time to live (template_cache_service.py:121).
- `LazyIsServed` (Container): a `get` that meets another thread's removal of a lazy factory is refused.
- `EveryGetEnds` for a service that is not registered and whose registration function resolves: it takes the
  container's lock before the resolver's, everything else the other way round. The program has no such
  service: the buses, whose function resolves, are registered at the start.

Divergences that were read and have no property, since one would only repeat a line of the code:

*Requests and machines*
- A return request asks no provider to terminate anything and stores no machine ids
  (request_handlers.py:488; docs/docs/user_guide/requests.md:10).
- An IN_PROGRESS request stays so: no handler stores a request again. `update_status`, `cancel` and `complete`
  are called with arguments they do not have, or their result is discarded (request_handlers.py:542,
  machine_handlers.py:81); a copy of an aggregate starts without events, so RequestCreated is lost.
- One unknown id loses the whole answer of a status query. Host Factory is answered in the domain's form,
  without machines (hf_docs/input-output.md:243), and with "Request VM success from AWS." for a failed request.
- `requested_count` is compared with no limit.
- The instances of an instant fleet are never recorded; a weighted fleet counts units as machines; the launch
  template of a request is never deleted.

*Resilience and storage*
- A process that stops in a backup, or whose cleanup fails, leaves more than `backup_count` backups
  (file_manager.py:127, :149).
- A writer can wait for a wake-up that nobody sends: `release_read` never notifies `_write_ready`.
- HALF_OPEN does not go to OPEN on a failure (circuit_breaker.py:146; docs/docs/developer_guide/resilience.md:54),
  and an open circuit lets each request make its first call.

*Providers and templates*
- A refresh of the templates reloads nothing: the command line and POST /templates/refresh ask the list query, which
  answers what is cached (queries/handlers.py:740; docs/cli/template-commands.md:142, api/routers/templates.py:349).
- `provider_name`, `provider_type` and `price_type` of a template are lost (queries/handlers.py:679): a template
  cannot choose its provider, a spot template runs on-demand, a SpotFleet template is always refused
  (docs/docs/user_guide/templates.md:83).
- `select_active_provider` raises for two active providers (provider_selection_service.py:152); its callers catch it.
- Weights (60/40) do not share out requests: WEIGHTED_ROUND_ROBIN keeps no state and always takes the heaviest.
- An enabled provider of unknown type with a better priority draws every request, and none of them runs.
- No path of the program reaches `save_template`: the adapter has no consumer, the repository calls the
  coroutine without awaiting it, the create and update commands answer validation errors because
  `validate_template` is a coroutine. One save under Host Factory would make every template unreadable.
- The hierarchy of template files (docs/cli/template-commands.md:154) is not implemented; a missing or torn file is
  cached as "no templates" for the time to live.
- A parameter whose resolution failed is asked for again (ami_cache.py:20 says it is not);
  `HF_TEMPLATE_AMI_RESOLUTION_*` set a section that AMIResolutionConfig does not read.

*Container and configuration*
- `@singleton` above `@injectable` gives a transient service
  (docs/docs/developer_guide/dependency_injection.md:52), and the first instance of an injectable singleton is
  not kept. On-demand functions are registered after what they would register, so none runs.
- The first caller of `get_config_manager` fixes the file for the process; later paths are ignored.
- `reload` forgets everything and then raises; ReloadProviderConfigHandler answers success without a reload
  (docs/docs/configuration-guide.md:290).
- `HF_LOGGING_LEVEL` and its like set a root key that nothing reads (docs/docs/user_guide/configuration.md:252);
  the legacy layer of the documented order is not loaded; HF_PROVIDER_WORKDIR overrides LOG_FILE.
- `--scheduler` has no effect: cli/main.py:546 asks a method for an attribute, and warns
  (docs/cli/scheduler-commands.md:60).

## 6. Limits

- RequestLifecycle: one save is one step. With two processes on one JSON file that is too kind (see
  `NothingAckedIsLost` above); what it shows is shown for a storage that keeps the promise of EntityStore.
- RequestLifecycle: the request cache is off, as it is in the program (its configuration lookup fails).
- JsonStore: the lock of a strategy is taken to serialise that strategy's operations. One strategy object
  used by several threads, where a reader can be inside with a writer (RWLock), is not composed with it.
- CircuitBreaker: one service. Records of different services are independent.
- ProviderRouting: extension defaults, fleet types and the validation levels BASIC and RELAXED are left out; the
  global default API is the one that is shipped.
- AMICache: a file is written in two parts. What a file with bytes of two writers can be read as is a constant: the
  run has one such reading, of the worst kind, the proofs any set of them. Which readings bytes really allow is
  left open.
- TemplateStore: a user's edit is one step, as an editor that renames makes it; `clear` without a reload has no caller.
- Configuration: what a `$VARIABLE` stands for, variables with the bare prefix `HF_`, tables below a key and the
  validation of typed objects are left out. Nothing in the program calls set, update and save; they are
  modelled as the manager offers them, and its tests use them.

### Not modelled
- SQL and DynamoDB storages, composite, fallback and load-balancing strategies, provider commands, monitoring's
  health checks: they cannot be built or called as they stand (missing abstract methods, attributes never set,
  a module that does not exist; `PROJECT.json` says which). A model would describe code that never runs.
- Optimistic concurrency, the transaction manager's savepoints, the persistence layer's resource manager, the
  request cache: no caller, or switched off.
- The buses, the bootstrap, the front ends, authentication, the AWS adapters, errors and logging: a call that
  finds a handler, a sequence at start, or a conversion, without state that two steps could disagree about.
- Event bus and handlers: no event reaches them with a consequence beyond a log line.

## 7. Plan

Done, in this order: RWLock, JsonStore with EntityStore, RequestLifecycle, CircuitBreaker, ProviderRouting,
Container, AMICache, TemplateStore, Configuration.

What is left, in order of importance:

1. `LockedStore`: RWLock composed with JsonStore, one strategy object used by threads: what the missing
   exclusion does to `_data_cache` and to recovery (the cache is filled under a read lock).
2. The capacity split of the fleets (`on_demand + spot = total`, neither negative), as a lemma for all counts and
   percentages, with the truncation of base_context_mixin.py:50.
3. The transitions of the Request aggregate: what update, cancel and complete would do if they were stored.
4. What of the liveness a prover can reach: for each of the three properties a measure that every step of the
   command, thread or `get` makes smaller and no other step makes larger, as an action property.

A run asks one question, and the project keeps their number small: `json_race` would grow into the run of
`LockedStore`; new questions come with the aggregate.
