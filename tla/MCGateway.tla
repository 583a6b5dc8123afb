------------------------------ MODULE MCGateway ------------------------------
(* A small instance of Gateway for TLC. *)
EXTENDS Gateway, TLC

FaceOf(vendor, protocol, relay, responses, models, default, billing, keys, added) ==
  [ vendor |-> vendor, protocol |-> protocol, relay |-> relay, responses |-> responses,
    models |-> models, default |-> default, billing |-> billing, keys |-> keys, added |-> added ]

\* One vendor with two faces on a pool of mixed tiers, one with an api key, a station
\* that declares a model, and one that has never been synced.
Mixed == [ a1 |-> "token_plan", a2 |-> "api" ]
FourFaces == <<
  FaceOf("alpha", "openai", FALSE, TRUE, { "m1", "m2" }, "m1", "token_plan", Mixed, 2),
  FaceOf("beta", "openai", FALSE, FALSE, { "m2" }, "m2", "api", [ b1 |-> "api" ], 1),
  FaceOf("codex", "openai", TRUE, FALSE, { "m3" }, "", "token_plan", [ c1 |-> "token_plan" ], 3),
  FaceOf("drift", "openai", TRUE, FALSE, {}, "", "api", [ d1 |-> "api" ], 0),
  FaceOf("alpha", "anthropic", FALSE, FALSE, { "m1", "m2" }, "m1", "api", Mixed, 2) >>

Provider(face, m, priority, weight) ==
  [ face |-> face, model |-> m, priority |-> priority, weight |-> weight ]
Rule(providers, target, strategy) ==
  [ providers |-> providers, target |-> target, strategy |-> strategy ]

Auto   == Rule(<< >>, "", "")
Builtin == << Provider(2, "m2", 2, 0), Provider(1, "", 1, 1) >>
Listed(providers, strategy) == Rule(providers, "", strategy)
Config(aliases, catchAll, strategy, order) ==
  [ aliases |-> aliases, catchAll |-> catchAll, strategy |-> strategy, order |-> order ]

NoAlias == [ a \in {} |-> Auto ]
NoOrder == [ p \in {} |-> 0 ]
FourConfigs == {
  Config(NoAlias, { Auto }, "priority", << "api", "beta" >> :> 0),
  Config("fast" :> Listed(Append(Builtin, Provider(4, "", 3, 0)), "") @@ "m3" :> Rule(<< >>, "m1", ""), { Auto }, "priority", NoOrder),
  Config(NoAlias, { Listed(Builtin, "cost") }, "priority", NoOrder),
  Config("fast" :> Listed(Builtin, "weight"), {}, "health", NoOrder) }

KeyOf(faces, vendors, keys, models, default) ==
  [ faces |-> faces, vendors |-> vendors, keys |-> keys, models |-> models, default |-> default ]
SomeKeys == { {},
  { KeyOf({}, { "alpha" }, {}, << >>, "") },
  { KeyOf({ 3, 4 }, {}, {}, << "m1" >>, "") },
  { KeyOf({}, {}, {}, << "m2", "m1" >>, "m2") },
  { KeyOf({}, {}, { "b1", "c1" }, << "*" >>, "") } }

Asked(m, protocol, responses) ==
  [ model |-> m, protocol |-> protocol, responses |-> responses ]
SomeRequests == {
  Asked("fast", "openai", FALSE), Asked("m1", "openai", TRUE), Asked("m3", "openai", FALSE),
  Asked("m2", "anthropic", FALSE) }
=============================================================================
