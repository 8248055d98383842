-------------------------- MODULE MCProviderRouting --------------------------
(***************************************************************************)
(* Configurations of one and of two providers: the one that is shipped, two *)
(* of AWS, and an AWS one beside one of another type, whatever they are     *)
(* called; templates at, below and above the limits of their APIs.         *)
(***************************************************************************)
EXTENDS ProviderRouting

CONSTANTS r1, awsDefault, awsEast, provider1West, aws, provider1

MCName == {awsDefault, awsEast, provider1West}
MCType == {aws, provider1}
MCSpelled == [n \in MCName |-> IF n = provider1West THEN provider1 ELSE aws]

MCProvider ==
    [name : MCName, type : MCType, enabled : BOOLEAN, priority : {0, 1}, weight : {100},
     handlers : {{}}, api_default : {None}]

(* The weight, the API a provider asks for, and handlers of its own: the    *)
(* first provider of a configuration only.                                  *)
MCFirst ==
    MCProvider \cup
    {[p EXCEPT !.weight = w, !.api_default = api, !.handlers = hs] :
        p \in {q \in MCProvider : q.name = awsDefault /\ q.type = aws /\ q.enabled},
        w \in {60, 100}, api \in {None, "RunInstances"}, hs \in {{}, {"Custom"}}}

MCProviders ==
    {<<p>> : p \in MCFirst} \cup
    {<<p, q>> : p \in MCFirst, q \in {x \in MCProvider : x.name = awsEast}}

Configuration(ps, scheduler, policy, active) ==
    [scheduler |-> scheduler, providers |-> ps, selection_policy |-> policy,
     active_provider |-> active, default_type |-> None, default_instance |-> None,
     type_api_default |-> [ty \in MCType |-> None]]

MCConfig ==
    {cfg \in {Configuration(ps, scheduler, policy, active) :
                  ps \in MCProviders, scheduler \in {"hostfactory", "default"},
                  policy \in {"FIRST_AVAILABLE", "WEIGHTED_ROUND_ROBIN"}, active \in {None, awsEast}} :
        ValidConfig(cfg)}

MCTemplate ==
    [provider_name : {None, awsEast}, provider_type : {None},
     provider_api : {None, "SpotFleet", "RunInstances", "Custom"},
     price_type : {None}, max_instances : {100, 101}]
=============================================================================
