--------------------------- MODULE ProviderRouting ---------------------------
(***************************************************************************)
(* How a request finds its provider, from the template as it is written in *)
(* the template file to the strategy that runs the request and the one     *)
(* that is asked about it later:                                           *)
(*                                                                         *)
(*   scheduler strategy         reads and maps the template file           *)
(*   TemplateDefaultsService    fills what the template leaves open        *)
(*   GetTemplateHandler         makes the domain template                  *)
(*   ProviderSelectionService   selects a provider instance                *)
(*   ProviderCapabilityService  validates the template against it          *)
(*   ProviderContext            holds the strategies that could be         *)
(*                              registered, and runs the operation         *)
(*   RequestSerializer          stores the request                         *)
(*   GetRequestHandler          asks the provider about it                 *)
(*                                                                         *)
(* Each part has its own unit tests; what is modelled here is the chain.   *)
(* Two requests share nothing on this way but the stored file, so an       *)
(* action is one whole command or query.                                   *)
(***************************************************************************)
EXTENDS Integers, Sequences

CONSTANTS
    Name,          \* names of provider instances
    Type,          \* provider types
    Aws,           \* the one type there is a strategy for
    Spelled,       \* [Name -> type that the name spells, the part before its first hyphen]
    AwsDefault,    \* the name "aws-default"
    Config,        \* the configurations considered
    Template,      \* the templates considered, as written in a template file
    Request,       \* requests
    None           \* no value, no provider

Aws_APIs == {"EC2Fleet", "SpotFleet", "RunInstances", "ASG"}
Api == Aws_APIs \cup {"aws", "Custom"}
Price == {"ondemand", "spot", "heterogeneous"}

Provider ==
    [name : Name, type : Type, enabled : BOOLEAN, priority : Int, weight : Nat \ {0},
     handlers : SUBSET Api,            \* get_effective_handlers()
     api_default : Api \cup {None}]    \* template_defaults["provider_api"]

Positions(cfg) == 1 .. Len(cfg.providers)

(* What the validators of ProviderConfig let through.                      *)
ValidConfig(cfg) ==
    /\ cfg.providers \in Seq(Provider) /\ cfg.providers # << >>
    /\ \A i, j \in Positions(cfg) : cfg.providers[i].name = cfg.providers[j].name => i = j
    /\ cfg.active_provider # None =>
           \E i \in Positions(cfg) : cfg.providers[i].name = cfg.active_provider

(* What RequestSerializer keeps of a request, as far as it is told apart.    *)
StoredRequest == [status : {"STRATEGY_NOT_FOUND", "LAUNCHED", "FAILED"}, provider_type : Type \cup {None}]

ASSUME ProviderRoutingAssumption ==
    /\ Aws \in Type /\ None \notin Type \cup Name \cup Price \cup Api \cup StoredRequest
    /\ AwsDefault \in Name /\ Spelled[AwsDefault] = Aws
    /\ Config \subseteq
           [scheduler : {"hostfactory", "default"}, providers : Seq(Provider),
            selection_policy : {"FIRST_AVAILABLE", "WEIGHTED_ROUND_ROBIN", "HEALTH_BASED", "RANDOM"},
            active_provider : Name \cup {None},
            default_type : Type \cup {None}, default_instance : Name \cup {None},
            type_api_default : [Type -> Api \cup {None}]]
    /\ \A cfg \in Config : ValidConfig(cfg)
    /\ None \notin Template
    /\ Template \subseteq
           [provider_name : Name \cup {None}, provider_type : Type \cup {None},
            provider_api : Api \cup {None}, price_type : Price \cup {None},
            max_instances : Nat \ {0}]

VARIABLES
    config,     \* the configuration the processes load
    registered, \* the names under which the process at work has a strategy
    requests,   \* the stored requests
    template,   \* history: the template a request was made from
    ranBy,      \* history: the provider whose strategy launched it
    ranWith,    \* history: the domain template it was launched with
    asked       \* history: the provider whose strategy was last asked about it

vars == <<config, registered, requests, template, ranBy, ranWith, asked>>

-----------------------------------------------------------------------------
(* From the template file to the domain template *)

Or(value, default) == IF value = None THEN default ELSE value

(* HostFactorySchedulerStrategy maps the fields it knows, which              *)
(* provider_name and provider_type are not, and sets the ones it requires;   *)
(* DefaultSchedulerStrategy takes the template as it is.                     *)
Mapped(cfg, t) ==
    IF cfg.scheduler = "default" THEN t
    ELSE [t EXCEPT !.provider_name = None, !.provider_type = None,
                   !.provider_api = Or(@, "EC2Fleet"), !.price_type = Or(@, "ondemand")]

Multi == {"WEIGHTED_ROUND_ROBIN", "HEALTH_BASED"}

(* ProviderConfig.get_active_providers: an active_provider need not be      *)
(* enabled.                                                                 *)
IsActive(cfg, i) ==
    IF cfg.selection_policy \notin Multi /\ cfg.active_provider # None
    THEN cfg.providers[i].name = cfg.active_provider
    ELSE cfg.providers[i].enabled

First(S) == {i \in S : \A j \in S : i <= j}

(* _determine_provider_instance: the provider the template names or the     *)
(* first active one.  select_active_provider itself serves one active       *)
(* provider only: with more it fails on a call with one argument too many,  *)
(* and the first of get_active_providers is taken.                          *)
DefaultsFrom(cfg, t) ==
    IF t.provider_name # None
    THEN {i \in Positions(cfg) : cfg.providers[i].name = t.provider_name}
    ELSE First({i \in Positions(cfg) : IsActive(cfg, i)})

(* resolve_template_defaults: the template, the instance, its type.  The    *)
(* instance is "aws" when no provider is active, and a name that is not     *)
(* configured stands for the type it spells.                                *)
ApiWithDefaults(cfg, t) ==
    LET type == IF t.provider_name # None THEN Spelled[t.provider_name] ELSE Aws
        ofType(ty) == IF ty \in Type THEN cfg.type_api_default[ty] ELSE None
    IN IF t.provider_api # None THEN {t.provider_api}
       ELSE IF DefaultsFrom(cfg, t) = {} THEN {ofType(type)}
       ELSE {Or(cfg.providers[i].api_default, ofType(cfg.providers[i].type)) : i \in DefaultsFrom(cfg, t)}

(* Faults: the limit of the template is lost like its price; the price is   *)
(* taken as it is written, or is not                                        *)
Domain_NoLimit(t, api) ==
    [provider_name |-> None, provider_type |-> None, provider_api |-> api,
     price_type |-> "ondemand", max_instances |-> 1]

Domain_PriceAsWritten(t, api) == [Domain_NoLimit(t, api) EXCEPT !.price_type = t.price_type]

(* GetTemplateHandler makes the domain template: it takes the API and the   *)
(* limit from the DTO; the fields that name a provider, and the price, have *)
(* the defaults of the domain class.                                        *)
Domain(t, api) ==
    [provider_name |-> None, provider_type |-> None, provider_api |-> api,
     price_type |-> "ondemand", max_instances |-> t.max_instances]

(* Without any other default the API is the global one, EC2Fleet.          *)
DomainTemplates(cfg, t) ==
    {Domain(t, Or(api, "EC2Fleet")) : api \in ApiWithDefaults(cfg, Mapped(cfg, t))}

-----------------------------------------------------------------------------
(* Selection and validation *)

Enabled(cfg) == {i \in Positions(cfg) : cfg.providers[i].enabled}

(* min(instances, key=priority) takes the first of the lowest               *)
Highest(cfg, S) ==
    First({i \in S : \A j \in S : cfg.providers[i].priority <= cfg.providers[j].priority})

(* _weighted_round_robin_selection keeps no round-robin state               *)
Heaviest(cfg, S) ==
    LET top == {i \in S : \A j \in S : cfg.providers[i].priority <= cfg.providers[j].priority}
    IN First({i \in top : \A j \in top : cfg.providers[i].weight >= cfg.providers[j].weight})

LoadBalanced(cfg, S) ==
    IF cfg.selection_policy = "FIRST_AVAILABLE" THEN First(S)
    ELSE IF cfg.selection_policy = "WEIGHTED_ROUND_ROBIN" THEN Heaviest(cfg, S)
    ELSE Highest(cfg, S)

(* _provider_supports_api: types other than aws are assumed to.             *)
SupportsApi(provider, api) ==
    api \in provider.handlers \/ (provider.type = Aws => api \in Aws_APIs)

Selection(cfg, i) == [type |-> cfg.providers[i].type, name |-> cfg.providers[i].name]

(* select_provider_for_template: the one provider selected, or none.  The   *)
(* configured default is not looked up.                                     *)
Select(cfg, t) ==
    IF t.provider_name # None
    THEN {Selection(cfg, i) : i \in {j \in Enabled(cfg) : cfg.providers[j].name = t.provider_name}}
    ELSE IF t.provider_type # None
    THEN {Selection(cfg, i) :
             i \in LoadBalanced(cfg, {j \in Enabled(cfg) : cfg.providers[j].type = t.provider_type})}
    ELSE IF t.provider_api # None
    THEN {Selection(cfg, i) :
             i \in Highest(cfg, {j \in Enabled(cfg) : SupportsApi(cfg.providers[j], t.provider_api)})}
    ELSE IF cfg.default_instance # None
    THEN {[type |-> cfg.default_type, name |-> cfg.default_instance]}
    ELSE {Selection(cfg, i) : i \in First(Enabled(cfg))}

Limit(api) == IF api = "RunInstances" THEN 100 ELSE 1000

(* Fault: the limit itself is too many                                      *)
Capable_BelowLimit(t, name) ==
    /\ Spelled[name] = Aws /\ t.provider_api \in Aws_APIs
    /\ t.price_type = "spot" => t.provider_api # "RunInstances"
    /\ t.price_type = "ondemand" => t.provider_api # "SpotFleet"
    /\ t.max_instances < Limit(t.provider_api)

(* validate_template_requirements(STRICT) has the capabilities of the type  *)
(* that the name spells, whatever its type is; a template without an API    *)
(* has a warning, which is an error here.                                   *)
Capable(t, name) ==
    /\ Spelled[name] = Aws /\ t.provider_api \in Aws_APIs
    /\ t.price_type = "spot" => t.provider_api # "RunInstances"
    /\ t.price_type = "ondemand" => t.provider_api # "SpotFleet"
    /\ t.max_instances <= Limit(t.provider_api)

-----------------------------------------------------------------------------
(* Processes, commands and queries *)

Init ==
    /\ config \in Config
    /\ registered = {}
    /\ requests = [r \in Request |-> None]
    /\ template = [r \in Request |-> None]
    /\ ranBy = [r \in Request |-> None]
    /\ ranWith = [r \in Request |-> None]
    /\ asked = [r \in Request |-> None]

(* Fault: the context takes what get_active_providers says is active        *)
Registerable_Active(cfg) ==
    {cfg.providers[i].name : i \in {j \in Positions(cfg) : IsActive(cfg, j) /\ cfg.providers[j].type = Aws}}

Registerable(cfg) ==
    {cfg.providers[i].name : i \in {j \in Enabled(cfg) : cfg.providers[j].type = Aws}}

(* A process starts and makes a ProviderContext: every enabled provider of  *)
(* a known type is registered, or its registration fails and the others go  *)
(* on.                                                                      *)
StartProcess ==
    /\ registered' \in SUBSET Registerable(config)
    /\ UNCHANGED <<config, requests, template, ranBy, ranWith, asked>>

(* execute_with_strategy looks "<type>-<name>" up among the registered.     *)
Found(s) == s.type = Aws /\ s.name \in registered

(* CreateMachineRequestHandler raises, and stores nothing: there is no      *)
(* strategy at all, no provider, or the template does not fit it            *)
Refuse(r, t) ==
    /\ template[r] = None
    /\ \/ registered = {}
       \/ \E d \in DomainTemplates(config, t) :
             \/ Select(config, d) = {}
             \/ \E s \in Select(config, d) : ~Capable(d, s.name)
    /\ template' = [template EXCEPT ![r] = t]
    /\ UNCHANGED <<config, registered, requests, ranBy, ranWith, asked>>

(* The request is stored without the provider instance: RequestSerializer   *)
(* has no such field                                                        *)
Store(r, status, s) == requests' = [requests EXCEPT ![r] = [status |-> status, provider_type |-> s.type]]

(* The template fits provider s, and the request is made                    *)
Accept(r, t, d, s) ==
    /\ template[r] = None
    /\ registered # {}
    /\ d \in DomainTemplates(config, t)
    /\ s \in Select(config, d)
    /\ Capable(d, s.name)
    /\ template' = [template EXCEPT ![r] = t]

(* The strategy is not found: the request is FAILED                         *)
NotFound(r, t) ==
    \E d \in DomainTemplates(config, t) : \E s \in Select(config, d) :
        /\ Accept(r, t, d, s)
        /\ ~Found(s)
        /\ Store(r, "STRATEGY_NOT_FOUND", s)
        /\ UNCHANGED <<config, registered, ranBy, ranWith, asked>>

(* The strategy runs the operation, and succeeds or reports an error        *)
Run(r, t) ==
    \E d \in DomainTemplates(config, t) : \E s \in Select(config, d) :
        /\ Accept(r, t, d, s)
        /\ Found(s)
        /\ \/ /\ Store(r, "LAUNCHED", s)
              /\ ranBy' = [ranBy EXCEPT ![r] = s.name]
              /\ ranWith' = [ranWith EXCEPT ![r] = d]
           \/ /\ Store(r, "FAILED", s)
              /\ UNCHANGED <<ranBy, ranWith>>
        /\ UNCHANGED <<config, registered, asked>>

(* GetRequestHandler asks "<type>-<type>-<instance or 'default'>" about a   *)
(* request with resources, and no stored request has an instance: for aws   *)
(* this is the identifier of the provider called aws-default                *)
QueryStatus(r) ==
    /\ requests[r] # None /\ requests[r].status = "LAUNCHED"
    /\ asked' = [asked EXCEPT ![r] =
                    IF Found([type |-> requests[r].provider_type, name |-> AwsDefault])
                    THEN AwsDefault ELSE None]
    /\ UNCHANGED <<config, registered, requests, template, ranBy, ranWith>>

Next ==
    \/ StartProcess
    \/ \E r \in Request : \/ \E t \in Template : Refuse(r, t) \/ NotFound(r, t) \/ Run(r, t)
                          \/ QueryStatus(r)

Spec == Init /\ [][Next]_vars

-----------------------------------------------------------------------------
(* Properties *)

DomainTemplate ==
    [provider_name : {None}, provider_type : {None}, provider_api : Api,
     price_type : Price, max_instances : Nat]

TypeOK ==
    /\ ValidConfig(config)
    /\ registered \subseteq Registerable(config)
    /\ requests \in [Request -> StoredRequest \cup {None}]
    /\ template \in [Request -> Template \cup {None}]
    /\ ranBy \in [Request -> Name \cup {None}]
    /\ ranWith \in [Request -> DomainTemplate \cup {None}]
    /\ asked \in [Request -> Name \cup {None}]

(* What runs fits the provider that runs it, through all the parts that     *)
(* pass the template on: the provider is enabled and an AWS one, the API    *)
(* can be used at the price and for as many machines as the template file   *)
(* says, and no enabled provider that supports the API comes before it.     *)
RunsWhereItFits ==
    \A r \in Request : ranBy[r] # None =>
        /\ \E i \in Positions(config) :
              LET p == config.providers[i] IN
              /\ p.name = ranBy[r] /\ p.enabled /\ p.type = Aws
              /\ \A j \in Positions(config) :
                    LET q == config.providers[j] IN
                    q.enabled /\ SupportsApi(q, ranWith[r].provider_api) => p.priority <= q.priority
        /\ template[r].provider_api \in {None, ranWith[r].provider_api}
        /\ template[r].max_instances <= Limit(ranWith[r].provider_api)
        /\ ranWith[r].price_type = "ondemand" => ranWith[r].provider_api # "SpotFleet"

(* Selection goes by what is enabled, the defaults by get_active_providers  *)
(* and the context by a loop of its own: they agree on who takes part, so a *)
(* request finds the strategy of its provider unless a registration failed  *)
(* when the process started, or a provider is enabled of a type that none   *)
(* is made for (select_provider_for_template, _create_lazy_provider_context).*)
LostOnlyByRegistration ==
    [][\A r \in Request :
          requests'[r] # requests[r] /\ requests'[r].status = "STRATEGY_NOT_FOUND" =>
              \/ registered # Registerable(config)
              \/ \E i \in Enabled(config) : config.providers[i].type # Aws]_vars

(* A template is not refused when every provider is an AWS one called so,   *)
(* one of them is enabled, the process has strategies, and the template     *)
(* names an API that runs on-demand instances, for no more machines than    *)
(* the API allows.                                                          *)
Servable(cfg, t) ==
    /\ \A i \in Positions(cfg) : cfg.providers[i].type = Aws /\ Spelled[cfg.providers[i].name] = Aws
    /\ Enabled(cfg) # {}
    /\ t.provider_api \in Aws_APIs \ {"SpotFleet"}
    /\ t.max_instances <= Limit(t.provider_api)

ServableIsServed ==
    [][\A r \in Request :
          template[r] = None /\ template'[r] # None /\ registered # {} /\ Servable(config, template'[r])
              => requests'[r] # None]_vars

(* "The Request aggregate now tracks provider selection" (the design of the *)
(* multi-provider support): what a query asks about a request it asks the   *)
(* provider that runs it.                                                   *)
AskedWhereLaunched == \A r \in Request : asked[r] \in {None, ranBy[r]}
=============================================================================
