------------------------ MODULE ProviderRouting_proofs ------------------------
(***************************************************************************)
(* For every set of configurations the validators let through and every    *)
(* set of templates: what runs fits the provider that runs it, what is     *)
(* servable is not refused, and a request that finds no strategy lost it   *)
(* at registration or to a provider of unknown type.                       *)
(***************************************************************************)
EXTENDS ProviderRouting, WellFoundedInduction, TLAPS

(* A request is made once. *)
MadeOnce ==
    \A r \in Request : template[r] = None => requests[r] = None /\ ranBy[r] = None

IInv ==
    /\ config \in Config
    /\ TypeOK
    /\ MadeOnce
    /\ RunsWhereItFits

-----------------------------------------------------------------------------
(* Lemmas about the operators *)

(* What a configuration is made of, and None apart from it.                 *)
LEMMA ConfigFacts ==
    ASSUME NEW cfg \in Config
    PROVE  /\ ValidConfig(cfg)
           /\ \A i \in Positions(cfg) : cfg.providers[i] \in Provider
           /\ cfg.type_api_default \in [Type -> Api \cup {None}]
<1>1. ValidConfig(cfg)
    BY ProviderRoutingAssumption
<1>2. cfg.providers \in Seq(Provider)
    BY <1>1 DEF ValidConfig
<1>3. \A i \in Positions(cfg) : cfg.providers[i] \in Provider
    BY <1>2 DEF Positions
<1>4. cfg.type_api_default \in [Type -> Api \cup {None}]
    BY ProviderRoutingAssumption
<1> QED
    BY <1>1, <1>3, <1>4

(* The API that the defaults leave or fill in is one of the APIs, or none,  *)
(* and the one the template names if it names one.                          *)
LEMMA ApiFacts ==
    ASSUME NEW cfg \in Config, NEW t, t.provider_api \in Api \cup {None},
           NEW api \in ApiWithDefaults(cfg, t)
    PROVE  /\ api \in Api \cup {None}
           /\ t.provider_api # None => api = t.provider_api
<1>1. CASE t.provider_api # None
    BY <1>1 DEF ApiWithDefaults
<1>2. CASE t.provider_api = None
    <2>1. \A ty \in Type : cfg.type_api_default[ty] \in Api \cup {None}
        BY ConfigFacts
    <2>2. \A i \in DefaultsFrom(cfg, t) :
             cfg.providers[i].api_default \in Api \cup {None} /\ cfg.providers[i].type \in Type
        <3>1. DefaultsFrom(cfg, t) \subseteq Positions(cfg)
            BY DEF DefaultsFrom, First
        <3> QED
            BY <3>1, ConfigFacts DEF Provider
    <2> QED
        BY <1>2, <2>1, <2>2 DEF ApiWithDefaults, Or
<1> QED
    BY <1>1, <1>2

(* The domain template names an API, and keeps the template's limit, and    *)
(* its API if it had one.                                                   *)
LEMMA DomainFacts ==
    ASSUME NEW cfg \in Config, NEW t \in Template, NEW d \in DomainTemplates(cfg, t)
    PROVE  /\ d \in DomainTemplate
           /\ d.provider_api # None
           /\ t.provider_api \in {None, d.provider_api}
           /\ d.max_instances = t.max_instances
<1>1. PICK api \in ApiWithDefaults(cfg, Mapped(cfg, t)) : d = Domain(t, Or(api, "EC2Fleet"))
    BY DEF DomainTemplates
<1>2. t.provider_api \in Api \cup {None} /\ t.max_instances \in Nat
    BY ProviderRoutingAssumption
<1>3. /\ Mapped(cfg, t).provider_api \in Api \cup {None}
      /\ t.provider_api # None => Mapped(cfg, t).provider_api = t.provider_api
    <2>1. t \in [provider_name : Name \cup {None}, provider_type : Type \cup {None},
                 provider_api : Api \cup {None}, price_type : Price \cup {None},
                 max_instances : Nat \ {0}]
        BY ProviderRoutingAssumption
    <2>2. "EC2Fleet" \in Api
        BY DEF Api, Aws_APIs
    <2>3. CASE cfg.scheduler = "default"
        BY <1>2, <2>3 DEF Mapped
    <2>4. CASE cfg.scheduler # "default"
        <3>1. Mapped(cfg, t).provider_api = Or(t.provider_api, "EC2Fleet")
            BY <2>1, <2>4 DEF Mapped
        <3> QED
            BY <1>2, <2>2, <3>1 DEF Or
    <2> QED
        BY <2>3, <2>4
<1>4. /\ api \in Api \cup {None}
      /\ t.provider_api # None => api = t.provider_api
    BY <1>1, <1>3, ApiFacts
<1>5. Or(api, "EC2Fleet") \in Api /\ Or(api, "EC2Fleet") # None
    BY <1>4, ProviderRoutingAssumption DEF Or, Api, Aws_APIs
<1>6. t.provider_api \in {None, Or(api, "EC2Fleet")}
    BY <1>2, <1>4 DEF Or
<1> QED
    BY <1>1, <1>2, <1>5, <1>6 DEF Domain, DomainTemplate, Price

(* A template that names an API and no provider gets an enabled one, and    *)
(* none that supports the API is preferred to it.                           *)
LEMMA SelectFacts ==
    ASSUME NEW cfg \in Config, NEW d \in DomainTemplate, d.provider_api # None,
           NEW s \in Select(cfg, d)
    PROVE  \E i \in Positions(cfg) :
              /\ s = Selection(cfg, i)
              /\ cfg.providers[i].enabled
              /\ \A j \in Positions(cfg) :
                    cfg.providers[j].enabled /\ SupportsApi(cfg.providers[j], d.provider_api)
                        => cfg.providers[i].priority <= cfg.providers[j].priority
<1> DEFINE Able == {j \in Enabled(cfg) : SupportsApi(cfg.providers[j], d.provider_api)}
<1>1. d.provider_name = None /\ d.provider_type = None
    BY DEF DomainTemplate
<1>2. PICK i \in Highest(cfg, Able) : s = Selection(cfg, i)
    BY <1>1 DEF Select
<1>3. i \in Able /\ \A j \in Able : cfg.providers[i].priority <= cfg.providers[j].priority
    BY <1>2 DEF Highest, First
<1> QED
    BY <1>2, <1>3 DEF Enabled

(* The two choices that selection makes always have an outcome: the first   *)
(* position, and the lowest priority.                                       *)
LEMMA LeastNatural ==
    ASSUME NEW S \in SUBSET Nat, S # {}
    PROVE  \E n \in S : \A m \in S : n <= m
<1> DEFINE Less == {pair \in Nat \X Nat : pair[1] < pair[2]}
<1>1. IsWellFoundedOn(Less, Nat)
    BY NatLessThanWellFounded DEF OpToRel
<1> HIDE DEF Less
<1>2. PICK n \in S : \A m \in S : <<m, n>> \notin Less
    BY <1>1, WFMin
<1>3. \A m \in S : ~ (m < n)
    BY <1>2 DEF Less
<1> QED
    BY <1>3

LEMMA FirstExists ==
    ASSUME NEW S \in SUBSET Nat, S # {}
    PROVE  First(S) # {}
BY LeastNatural DEF First

(* There is no least number of positions for which it fails. *)
LEMMA LowestExists ==
    ASSUME NEW n \in Nat, NEW priority \in [Nat -> Int], NEW S \in SUBSET (1 .. n), S # {}
    PROVE  \E i \in S : \A j \in S : priority[i] <= priority[j]
<1> DEFINE HasLowest(T) == \E i \in T : \A j \in T : priority[i] <= priority[j]
           Bad == {m \in Nat : \E T \in SUBSET (1 .. m) : T # {} /\ ~ HasLowest(T)}
<1> SUFFICES ASSUME Bad # {} PROVE FALSE
    OBVIOUS
<1>1. PICK m \in Bad : \A k \in Bad : m <= k
    BY LeastNatural
<1> HIDE DEF HasLowest
<1>2. PICK T \in SUBSET (1 .. m) : T # {} /\ ~ HasLowest(T)
    OBVIOUS
<1>3. \A U \in SUBSET (1 .. m - 1) : U # {} => HasLowest(U)
    <2>1. SUFFICES ASSUME NEW U \in SUBSET (1 .. m - 1), U # {}, ~ HasLowest(U) PROVE FALSE
        OBVIOUS
    <2>2. m - 1 \in Nat
        <3>1. PICK u \in U : u \in 1 .. m - 1
            BY <2>1
        <3>2. m \in Nat
            BY DEF Bad
        <3> QED
            BY <3>1, <3>2
    <2>3. m - 1 \in Bad
        BY <2>1, <2>2
    <2> QED
        BY <1>1, <2>3
<1>4. PICK i \in T \ {m} : \A j \in T \ {m} : priority[i] <= priority[j]
    <2>1. T \ {m} # {}
        BY <1>2 DEF HasLowest
    <2>2. T \ {m} \in SUBSET (1 .. m - 1)
        BY <1>2
    <2> QED
        BY <1>3, <2>1, <2>2 DEF HasLowest
<1>5. HasLowest(T)
    <2>1. CASE m \notin T \/ priority[i] <= priority[m]
        BY <1>4, <2>1 DEF HasLowest
    <2>2. CASE m \in T /\ ~ (priority[i] <= priority[m])
        BY <1>4, <2>2 DEF HasLowest
    <2> QED
        BY <2>1, <2>2
<1> QED
    BY <1>2, <1>5

LEMMA HighestExists ==
    ASSUME NEW cfg \in Config, NEW S \in SUBSET Positions(cfg), S # {}
    PROVE  Highest(cfg, S) # {}
<1> DEFINE priority == [i \in Nat |-> IF i \in Positions(cfg) THEN cfg.providers[i].priority ELSE 0]
           lowest == {i \in S : \A j \in S : cfg.providers[i].priority <= cfg.providers[j].priority}
<1>1. Len(cfg.providers) \in Nat /\ Positions(cfg) = 1 .. Len(cfg.providers)
    BY ConfigFacts DEF ValidConfig, Positions
<1>2. priority \in [Nat -> Int]
    BY ConfigFacts DEF Provider
<1>3. \A i \in S : priority[i] = cfg.providers[i].priority
    BY <1>1
<1> HIDE DEF priority
<1>4. \E i \in S : \A j \in S : priority[i] <= priority[j]
    BY <1>1, <1>2, LowestExists
<1>5. lowest # {}
    BY <1>3, <1>4
<1>6. lowest \in SUBSET Nat
    BY <1>1
<1> QED
    BY <1>5, <1>6, FirstExists DEF Highest

(* A template that names an API and no provider gets one as soon as one     *)
(* that is enabled supports the API.                                        *)
LEMMA SelectFinds ==
    ASSUME NEW cfg \in Config, NEW d \in DomainTemplate, d.provider_api # None,
           NEW i \in Enabled(cfg), SupportsApi(cfg.providers[i], d.provider_api)
    PROVE  Select(cfg, d) # {}
<1> DEFINE Able == {j \in Enabled(cfg) : SupportsApi(cfg.providers[j], d.provider_api)}
<1>1. d.provider_name = None /\ d.provider_type = None
    BY DEF DomainTemplate
<1>2. i \in Able /\ Able \in SUBSET Positions(cfg)
    BY DEF Enabled
<1>3. Highest(cfg, Able) # {}
    BY <1>2, HighestExists
<1> QED
    BY <1>1, <1>3 DEF Select

-----------------------------------------------------------------------------
(* The invariant *)

LEMMA InitInvariant == Init => IInv
<1> SUFFICES ASSUME Init PROVE IInv
    OBVIOUS
<1>1. config \in Config /\ ValidConfig(config)
    BY ConfigFacts DEF Init
<1> QED
    BY <1>1 DEF Init, IInv, TypeOK, MadeOnce, RunsWhereItFits

LEMMA StartProcessStep ==
    ASSUME IInv, StartProcess
    PROVE  IInv'
BY DEF StartProcess, IInv, TypeOK, MadeOnce, RunsWhereItFits

LEMMA RefuseStep ==
    ASSUME IInv, NEW r \in Request, NEW t \in Template, Refuse(r, t)
    PROVE  IInv'
<1>1. /\ template[r] = None
      /\ template' = [template EXCEPT ![r] = t]
      /\ UNCHANGED <<config, registered, requests, ranBy, ranWith, asked>>
    BY DEF Refuse
<1>2. TypeOK'
    BY <1>1 DEF IInv, TypeOK
<1>3. requests[r] = None /\ ranBy[r] = None
    BY <1>1 DEF IInv, MadeOnce
<1>4. \A x \in Request : x # r => template'[x] = template[x]
    BY <1>1 DEF IInv, TypeOK
<1>5. MadeOnce'
    BY <1>1, <1>3, <1>4 DEF IInv, MadeOnce
<1>6. RunsWhereItFits'
    BY <1>1, <1>3, <1>4 DEF IInv, RunsWhereItFits
<1> QED
    BY <1>1, <1>2, <1>5, <1>6 DEF IInv

(* What is known of an accepted request, whatever becomes of it             *)
LEMMA AcceptFacts ==
    ASSUME IInv, NEW r \in Request, NEW t \in Template, NEW d, NEW s, Accept(r, t, d, s),
           d \in DomainTemplates(config, t), s \in Select(config, d)
    PROVE  /\ requests[r] = None /\ ranBy[r] = None
           /\ template' = [template EXCEPT ![r] = t]
           /\ d \in DomainTemplate /\ d.provider_api # None
           /\ t.provider_api \in {None, d.provider_api}
           /\ d.max_instances = t.max_instances
           /\ Capable(d, s.name)
           /\ s.name \in Name /\ s.type \in Type
           /\ \E i \in Positions(config) :
                 /\ config.providers[i].name = s.name /\ config.providers[i].type = s.type
                 /\ config.providers[i].enabled
                 /\ \A j \in Positions(config) :
                       config.providers[j].enabled /\ SupportsApi(config.providers[j], d.provider_api)
                           => config.providers[i].priority <= config.providers[j].priority
<1>1. config \in Config
    BY DEF IInv
<1>2. /\ requests[r] = None /\ ranBy[r] = None
      /\ template' = [template EXCEPT ![r] = t]
      /\ Capable(d, s.name)
    BY DEF Accept, IInv, MadeOnce
<1>3. /\ d \in DomainTemplate /\ d.provider_api # None
      /\ t.provider_api \in {None, d.provider_api}
      /\ d.max_instances = t.max_instances
    BY <1>1, DomainFacts
<1>4. PICK i \in Positions(config) :
          /\ s = Selection(config, i)
          /\ config.providers[i].enabled
          /\ \A j \in Positions(config) :
                config.providers[j].enabled /\ SupportsApi(config.providers[j], d.provider_api)
                    => config.providers[i].priority <= config.providers[j].priority
    BY <1>1, <1>3, SelectFacts
<1>5. config.providers[i] \in Provider
    BY <1>1, ConfigFacts
<1>6. s.name = config.providers[i].name /\ s.type = config.providers[i].type
    BY <1>4 DEF Selection
<1>7. s.name \in Name /\ s.type \in Type
    BY <1>5, <1>6 DEF Provider
<1> QED
    BY <1>2, <1>3, <1>4, <1>6, <1>7

LEMMA NotFoundStep ==
    ASSUME IInv, NEW r \in Request, NEW t \in Template, NotFound(r, t)
    PROVE  IInv'
<1>1. PICK d \in DomainTemplates(config, t) : \E s \in Select(config, d) :
          /\ Accept(r, t, d, s)
          /\ Store(r, "STRATEGY_NOT_FOUND", s)
          /\ UNCHANGED <<config, registered, ranBy, ranWith, asked>>
    BY DEF NotFound
<1>2. PICK s \in Select(config, d) :
          /\ Accept(r, t, d, s)
          /\ Store(r, "STRATEGY_NOT_FOUND", s)
          /\ UNCHANGED <<config, registered, ranBy, ranWith, asked>>
    BY <1>1
<1> DEFINE new == [status |-> "STRATEGY_NOT_FOUND", provider_type |-> s.type]
<1>3. requests' = [requests EXCEPT ![r] = new]
    BY <1>2 DEF Store
<1>4. /\ requests[r] = None /\ ranBy[r] = None
      /\ template' = [template EXCEPT ![r] = t]
      /\ s.name \in Name /\ s.type \in Type
      /\ \E i \in Positions(config) :
            config.providers[i].name = s.name /\ config.providers[i].enabled
    BY <1>2, AcceptFacts
<1>5. new \in StoredRequest
    BY <1>4 DEF StoredRequest
<1> HIDE DEF new
<1>6. TypeOK'
    BY <1>2, <1>3, <1>4, <1>5 DEF IInv, TypeOK
<1>7. \A x \in Request : x # r =>
          template'[x] = template[x] /\ requests'[x] = requests[x]
    BY <1>3, <1>4 DEF IInv, TypeOK
<1>8. template'[r] = t /\ t # None
    BY <1>4, ProviderRoutingAssumption DEF IInv, TypeOK
<1>9. MadeOnce'
    BY <1>2, <1>4, <1>7, <1>8 DEF IInv, MadeOnce
<1>10. RunsWhereItFits'
    BY <1>2, <1>4, <1>7 DEF IInv, RunsWhereItFits
<1> QED
    BY <1>2, <1>6, <1>9, <1>10 DEF IInv

LEMMA RunStep ==
    ASSUME IInv, NEW r \in Request, NEW t \in Template, Run(r, t)
    PROVE  IInv'
<1>1. PICK d \in DomainTemplates(config, t) : \E s \in Select(config, d) :
          /\ Accept(r, t, d, s)
          /\ Found(s)
          /\ \/ /\ Store(r, "LAUNCHED", s)
                /\ ranBy' = [ranBy EXCEPT ![r] = s.name]
                /\ ranWith' = [ranWith EXCEPT ![r] = d]
             \/ Store(r, "FAILED", s) /\ UNCHANGED <<ranBy, ranWith>>
          /\ UNCHANGED <<config, registered, asked>>
    BY DEF Run
<1>2. PICK s \in Select(config, d) :
          /\ Accept(r, t, d, s)
          /\ Found(s)
          /\ \/ /\ Store(r, "LAUNCHED", s)
                /\ ranBy' = [ranBy EXCEPT ![r] = s.name]
                /\ ranWith' = [ranWith EXCEPT ![r] = d]
             \/ Store(r, "FAILED", s) /\ UNCHANGED <<ranBy, ranWith>>
          /\ UNCHANGED <<config, registered, asked>>
    BY <1>1
<1>3. PICK status \in {"LAUNCHED", "FAILED"} : Store(r, status, s)
    BY <1>2
<1> DEFINE new == [status |-> status, provider_type |-> s.type]
<1>4. requests' = [requests EXCEPT ![r] = new]
    BY <1>3 DEF Store
<1>5. /\ requests[r] = None /\ ranBy[r] = None
      /\ template' = [template EXCEPT ![r] = t]
      /\ d \in DomainTemplate /\ d.provider_api # None
      /\ t.provider_api \in {None, d.provider_api}
      /\ d.max_instances = t.max_instances
      /\ Capable(d, s.name)
      /\ s.name \in Name /\ s.type \in Type
      /\ \E i \in Positions(config) :
            /\ config.providers[i].name = s.name /\ config.providers[i].type = s.type
            /\ config.providers[i].enabled
            /\ \A j \in Positions(config) :
                  config.providers[j].enabled /\ SupportsApi(config.providers[j], d.provider_api)
                      => config.providers[i].priority <= config.providers[j].priority
    BY <1>2, AcceptFacts
<1>6. s.type = Aws
    BY <1>2 DEF Found
<1>7. new \in StoredRequest /\ new.status # "STRATEGY_NOT_FOUND" /\ new.provider_type = Aws
    BY <1>5, <1>6 DEF StoredRequest
<1> HIDE DEF new
<1>8. TypeOK'
    <2>1. requests' \in [Request -> StoredRequest \cup {None}]
        BY <1>4, <1>7 DEF IInv, TypeOK
    <2>2. ranBy' \in [Request -> Name \cup {None}] /\ ranWith' \in [Request -> DomainTemplate \cup {None}]
        BY <1>2, <1>5 DEF IInv, TypeOK
    <2> QED
        BY <1>2, <1>5, <2>1, <2>2 DEF IInv, TypeOK
<1>9. \A x \in Request : x # r =>
          /\ template'[x] = template[x] /\ requests'[x] = requests[x]
          /\ ranBy'[x] = ranBy[x] /\ ranWith'[x] = ranWith[x]
    BY <1>2, <1>4, <1>5 DEF IInv, TypeOK
<1>10. /\ template'[r] = t /\ t # None
       /\ requests'[r] = new
       /\ ranBy'[r] # None => ranBy'[r] = s.name /\ ranWith'[r] = d
    BY <1>2, <1>4, <1>5, ProviderRoutingAssumption DEF IInv, TypeOK
<1>11. MadeOnce'
    BY <1>7, <1>9, <1>10 DEF IInv, MadeOnce
<1>12. RunsWhereItFits'
    <2>1. t.max_instances <= Limit(d.provider_api)
        BY <1>5 DEF Capable
    <2>2. d.price_type = "ondemand" => d.provider_api # "SpotFleet"
        BY <1>5 DEF Capable
    <2>3. config' = config
        BY <1>2
    <2> SUFFICES ASSUME NEW x \in Request, ranBy'[x] # None
                 PROVE  /\ \E i \in Positions(config) :
                              LET p == config.providers[i] IN
                              /\ p.name = ranBy'[x] /\ p.enabled /\ p.type = Aws
                              /\ \A j \in Positions(config) :
                                    LET q == config.providers[j] IN
                                    q.enabled /\ SupportsApi(q, ranWith'[x].provider_api)
                                        => p.priority <= q.priority
                        /\ template'[x].provider_api \in {None, ranWith'[x].provider_api}
                        /\ template'[x].max_instances <= Limit(ranWith'[x].provider_api)
                        /\ ranWith'[x].price_type = "ondemand" => ranWith'[x].provider_api # "SpotFleet"
        BY <2>3 DEF RunsWhereItFits
    <2>4. CASE x = r
        <3>1. ranBy'[x] = s.name /\ ranWith'[x] = d /\ template'[x] = t
            BY <1>10, <2>4
        <3> QED
            BY <1>5, <1>6, <2>1, <2>2, <3>1
    <2>5. CASE x # r
        BY <1>9, <2>5 DEF IInv, RunsWhereItFits
    <2> QED
        BY <2>4, <2>5
<1> QED
    BY <1>2, <1>8, <1>11, <1>12 DEF IInv

LEMMA QueryStatusStep ==
    ASSUME IInv, NEW r \in Request, QueryStatus(r)
    PROVE  IInv'
<1>1. asked' \in [Request -> Name \cup {None}]
    BY ProviderRoutingAssumption DEF QueryStatus, IInv, TypeOK
<1> QED
    BY <1>1 DEF QueryStatus, IInv, TypeOK, MadeOnce, RunsWhereItFits

LEMMA NextInvariant == IInv /\ [Next]_vars => IInv'
<1> SUFFICES ASSUME IInv, [Next]_vars PROVE IInv'
    OBVIOUS
<1>1. CASE StartProcess
    BY <1>1, StartProcessStep
<1>2. ASSUME NEW r \in Request, NEW t \in Template, Refuse(r, t) PROVE IInv'
    BY <1>2, RefuseStep
<1>3. ASSUME NEW r \in Request, NEW t \in Template, NotFound(r, t) PROVE IInv'
    BY <1>3, NotFoundStep
<1>4. ASSUME NEW r \in Request, NEW t \in Template, Run(r, t) PROVE IInv'
    BY <1>4, RunStep
<1>5. ASSUME NEW r \in Request, QueryStatus(r) PROVE IInv'
    BY <1>5, QueryStatusStep
<1>6. CASE UNCHANGED vars
    BY <1>6 DEF vars, IInv, TypeOK, MadeOnce, RunsWhereItFits
<1> QED
    BY <1>1, <1>2, <1>3, <1>4, <1>5, <1>6 DEF Next

-----------------------------------------------------------------------------
(* The theorems *)

LEMMA Invariance == Spec => []IInv
BY InitInvariant, NextInvariant, PTL DEF Spec

(* Whatever is configured, every field keeps its type, and a process has    *)
(* strategies for enabled AWS providers only (_create_lazy_provider_context).*)
THEOREM TypeCorrect == Spec => []TypeOK
<1>1. IInv => TypeOK
    BY DEF IInv
<1> QED
    BY <1>1, Invariance, PTL

(* Through all that pass a template on, what runs fits the provider that    *)
(* runs it (CreateMachineRequestHandler.execute_command).                   *)
THEOREM RunsOnlyWhereItFits == Spec => []RunsWhereItFits
<1>1. IInv => RunsWhereItFits
    BY DEF IInv
<1> QED
    BY <1>1, Invariance, PTL

(* A request finds the strategy of its provider, unless a registration      *)
(* failed or a provider of a type without strategies is enabled             *)
(* (_create_lazy_provider_context, select_provider_for_template).           *)
THEOREM StrategyIsFound == Spec => LostOnlyByRegistration
<1>1. IInv /\ [Next]_vars =>
         [\A r \in Request :
             requests'[r] # requests[r] /\ requests'[r].status = "STRATEGY_NOT_FOUND" =>
                 \/ registered # Registerable(config)
                 \/ \E i \in Enabled(config) : config.providers[i].type # Aws]_vars
    <2> SUFFICES ASSUME IInv, Next, NEW r \in Request, requests'[r] # requests[r],
                        requests'[r].status = "STRATEGY_NOT_FOUND",
                        registered = Registerable(config),
                        \A i \in Enabled(config) : config.providers[i].type = Aws
                 PROVE  FALSE
        OBVIOUS
    <2>1. PICK t \in Template : NotFound(r, t) \/ Run(r, t)
        <3>1. ASSUME NEW q \in Request, NEW t \in Template, NotFound(q, t) \/ Run(q, t)
              PROVE  q = r
            BY <3>1 DEF NotFound, Run, Store, IInv, TypeOK
        <3> QED
            BY <3>1 DEF Next, StartProcess, QueryStatus, Refuse
    <2>2. ~ Run(r, t)
        BY DEF Run, Store, IInv, TypeOK
    <2>3. PICK d \in DomainTemplates(config, t) : \E s \in Select(config, d) :
             Accept(r, t, d, s) /\ ~Found(s)
        BY <2>1, <2>2 DEF NotFound
    <2>4. PICK s \in Select(config, d) : Accept(r, t, d, s) /\ ~Found(s)
        BY <2>3
    <2>5. PICK i \in Positions(config) :
             config.providers[i].name = s.name /\ config.providers[i].type = s.type
             /\ config.providers[i].enabled
        BY <2>4, AcceptFacts
    <2>6. i \in Enabled(config) /\ s.type = Aws
        BY <2>5 DEF Enabled
    <2>7. s.name \in Registerable(config)
        BY <2>5, <2>6 DEF Registerable
    <2> QED
        BY <2>4, <2>6, <2>7 DEF Found
<1> QED
    BY <1>1, Invariance, PTL DEF Spec, LostOnlyByRegistration

(* What selection and validation find for a template that is servable       *)
LEMMA ServableFits ==
    ASSUME NEW cfg \in Config, NEW t \in Template, Servable(cfg, t),
           NEW d \in DomainTemplates(cfg, t)
    PROVE  Select(cfg, d) # {} /\ \A s \in Select(cfg, d) : Capable(d, s.name)
<1>1. t.provider_api \in Aws_APIs \ {"SpotFleet"} /\ t.provider_api # None
    BY ProviderRoutingAssumption DEF Servable, Api
<1>2. /\ d \in DomainTemplate /\ d.provider_api = t.provider_api
      /\ d.max_instances = t.max_instances
    BY <1>1, DomainFacts
<1>3. d.price_type = "ondemand"
    BY DEF DomainTemplates, Domain
<1>4. \A i \in Positions(cfg) : cfg.providers[i].type = Aws /\ Spelled[cfg.providers[i].name] = Aws
    BY DEF Servable
<1>5. PICK i \in Enabled(cfg) : TRUE
    BY DEF Servable
<1>6. Select(cfg, d) # {}
    <2>1. SupportsApi(cfg.providers[i], d.provider_api)
        BY <1>1, <1>2 DEF SupportsApi
    <2> QED
        BY <1>1, <1>2, <2>1, SelectFinds
<1>7. ASSUME NEW s \in Select(cfg, d)
      PROVE  Capable(d, s.name)
    <2>1. PICK j \in Positions(cfg) : s = Selection(cfg, j)
        BY <1>1, <1>2, SelectFacts
    <2>2. Spelled[s.name] = Aws
        BY <1>4, <2>1 DEF Selection
    <2> QED
        BY <1>1, <1>2, <1>3, <2>2 DEF Capable, Servable
<1> QED
    BY <1>6, <1>7

(* A request that AWS would accept is not refused on its way                *)
(* (CreateMachineRequestHandler.execute_command).                           *)
THEOREM ServableIsNotRefused == Spec => ServableIsServed
<1>1. IInv /\ [Next]_vars =>
         [\A r \in Request :
             template[r] = None /\ template'[r] # None /\ registered # {}
             /\ Servable(config, template'[r]) => requests'[r] # None]_vars
    <2> SUFFICES ASSUME IInv, Next, NEW r \in Request, template[r] = None, template'[r] # None,
                        registered # {}, Servable(config, template'[r])
                 PROVE  requests'[r] # None
        OBVIOUS
    <2>1. PICK t \in Template : Refuse(r, t) \/ NotFound(r, t) \/ Run(r, t)
        \* only a command of r changes its template
        <3>1. ASSUME NEW q \in Request, NEW t \in Template, Refuse(q, t) \/ NotFound(q, t) \/ Run(q, t)
              PROVE  q = r
            BY <3>1 DEF Refuse, NotFound, Run, Accept, IInv, TypeOK
        <3>2. ~ StartProcess /\ \A q \in Request : ~ QueryStatus(q)
            BY DEF StartProcess, QueryStatus
        <3> QED
            BY <3>1, <3>2 DEF Next
    <2>2. template'[r] = t
        BY <2>1 DEF Refuse, NotFound, Run, Accept, IInv, TypeOK
    <2>3. ~ Refuse(r, t)
        BY <2>2, ServableFits DEF Refuse, IInv
    <2>4. ASSUME NEW status \in {"STRATEGY_NOT_FOUND", "LAUNCHED", "FAILED"},
                 NEW d \in DomainTemplates(config, t), NEW s \in Select(config, d),
                 Accept(r, t, d, s), Store(r, status, s)
          PROVE  requests'[r] # None
        <3>1. s.type \in Type
            BY <2>4, AcceptFacts
        <3>2. requests'[r] = [status |-> status, provider_type |-> s.type]
            BY <2>4 DEF Store, IInv, TypeOK
        <3> QED
            BY <3>1, <3>2, ProviderRoutingAssumption DEF StoredRequest
    <2> QED
        BY <2>1, <2>3, <2>4 DEF NotFound, Run
<1> QED
    BY <1>1, Invariance, PTL DEF Spec, ServableIsServed
=============================================================================
