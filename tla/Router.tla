-------------------------------- MODULE Router --------------------------------
(***************************************************************************)
(* internal/router and internal/policy: from a request to the sequence of  *)
(* candidates (face, model, tier) that its iterator offers.  Where the     *)
(* code ranges over a Go map or draws a number, the result is the set of   *)
(* sequences that can come out; no sequence at all is ErrNoRoute.          *)
(*                                                                         *)
(* Faces are numbered in the order of their names.  Operators marked as    *)
(* slips are for checking the properties.                                  *)
(***************************************************************************)
EXTENDS Integers, Sequences, FiniteSets

CONSTANTS
  Registry,     \* the sequence of registered faces
  AnyModel      \* "*" of a key's whitelist

NoModel == ""
TierOrder == << "token_plan", "api", "free" >>
Face == DOMAIN Registry

\* models: what ModelsFor returns, {} for a station never synced; keys: the keys
\* of its pool with their tiers; added: when the first of them came, 0 for never.
FaceType(Vendors, Protocols, Models, KeyIds) ==
  [ vendor : Vendors, protocol : Protocols, relay : BOOLEAN, responses : BOOLEAN,
    models : SUBSET Models, default : Models \cup {NoModel},
    billing : { "token_plan", "api", "free" },
    keys : UNION { [ S -> { "token_plan", "api", "free" } ] : S \in SUBSET KeyIds },
    added : Nat ]

VendorOf(f) == Registry[f].vendor
IsRelay(f)  == Registry[f].relay

(* A configuration c is [aliases, catchAll, strategy, order]: aliases a       *)
(* function from names to rules, catchAll a set of at most one rule, order    *)
(* from <<tier, vendor>> to a place.  A rule is [providers, target, strategy] *)
(* with providers a sequence of [face, model, priority, weight].              *)
(* A query q is [requested, routing, protocol, responses], the options o are  *)
(* [faces, vendors, models]: what a gateway key is bound to and its whitelist.*)

IsSequence(s) == Len(s) \in Nat /\ DOMAIN s = 1 .. Len(s)

\* The age of a pool's oldest key is a number, 0 when it has none.
ASSUME RouterRegistry ==
  /\ IsSequence(Registry)
  /\ \A f \in Face : Registry[f].added \in Nat

-----------------------------------------------------------------------------
(* Sorting and filtering, written by rank: what they compute is then a     *)
(* question of counting and can be proved.                                 *)

\* S from the first element to the last, in the strict order that the pairs of R make.
InOrder(S, R) ==
  [ k \in 1 .. Cardinality(S) |->
      CHOOSE x \in S : Cardinality({ y \in S : << y, x >> \in R }) = k - 1 ]

\* The elements of s at the places T, in the order they have.
At(s, T) ==
  LET places == InOrder(T, { p \in T \X T : p[1] < p[2] })
  IN  [ k \in DOMAIN places |-> s[places[k]] ]

\* Every order in which a Go map of S may be walked.
Walks(S) ==
  { s \in [ 1 .. Cardinality(S) -> S ] : \A i, j \in DOMAIN s : i # j => s[i] # s[j] }

-----------------------------------------------------------------------------
(* Which faces may serve a query, and with which model.                    *)

Bound(o) == o.faces \cup o.vendors # {}

Admits(o, f) == Bound(o) => f \in o.faces \/ VendorOf(f) \in o.vendors

Speaks(f, q) == Registry[f].protocol = q.protocol

\* relayServesModel: a station that has not been synced yet serves every model.
Serves(f, model) == Registry[f].models = {} \/ model \in Registry[f].models

Selects(o) == o.models # << >> /\ \A i \in DOMAIN o.models : o.models[i] # AnyModel

\* pickAllowedModel: the first model of the whitelist that the face declares.
PickAllowed(f, o) ==
  LET declared == At(o.models, { i \in DOMAIN o.models : o.models[i] \in Registry[f].models })
  IN  IF declared = << >> THEN NoModel ELSE declared[1]

AutoModel(f, q, o) ==
  CASE IsRelay(f)                -> q.requested
    [] ~IsRelay(f) /\ Selects(o) -> PickAllowed(f, o)
    [] OTHER                     -> Registry[f].default

\* Slip: the key's binding is left to the probe.
AutoFacesUnbound(q, o) ==
  { f \in Face :
      /\ Speaks(f, q)
      /\ q.responses => IsRelay(f) \/ Registry[f].responses
      /\ IF IsRelay(f) THEN Serves(f, q.requested) ELSE AutoModel(f, q, o) # NoModel }

AutoFaces(q, o) ==
  { f \in Face :
      /\ Admits(o, f) /\ Speaks(f, q)
      /\ q.responses => IsRelay(f) \/ Registry[f].responses
      /\ IF IsRelay(f) THEN Serves(f, q.requested) ELSE AutoModel(f, q, o) # NoModel }

-----------------------------------------------------------------------------
(* The order within a tier.                                                *)

Place(c, f) ==
  LET at == << Registry[f].billing, VendorOf(f) >>
  IN  IF at \in DOMAIN c.order THEN c.order[at] ELSE -1

\* An administrator's order comes first, then the age of the oldest key (faces
\* without a key last), then the name.
Before(c, f, g) ==
  LET a == Registry[f].added  b == Registry[g].added  i == Place(c, f)  j == Place(c, g)
  IN  CASE i >= 0 /\ j >= 0 /\ i # j -> i < j
        [] (i >= 0) # (j >= 0)       -> i >= 0
        [] OTHER -> IF a # b THEN a # 0 /\ (b = 0 \/ a < b) ELSE f < g

AutoPlans(c, q, o) ==
  LET faces == AutoFaces(q, o)
      plan  == InOrder(faces, { p \in faces \X faces : Before(c, p[1], p[2]) })
  IN  IF faces = {} THEN {}
      ELSE { [ i \in DOMAIN plan |-> [ face |-> plan[i], model |-> AutoModel(plan[i], q, o) ] ] }

\* routeDirectModel: every face that declares the model, in the order of a Go map.
\* The key's binding is not looked at.
DirectPlans(model, q) ==
  LET sent(f) == IF IsRelay(f) THEN q.requested ELSE model
      faces   == { f \in Face : sent(f) \in Registry[f].models /\ Speaks(f, q) }
  IN  IF faces = {} THEN {}
      ELSE { [ i \in DOMAIN s |-> [ face |-> s[i], model |-> sent(s[i]) ] ] : s \in Walks(faces) }

-----------------------------------------------------------------------------
(* Rules with providers, and the policies.                                 *)

RuleModel(p, q, o) ==
  LET picked == PickAllowed(p.face, o)
  IN  CASE IsRelay(p.face) -> q.requested
        [] ~IsRelay(p.face) /\ Selects(o) /\ picked # NoModel -> picked
        [] OTHER -> IF p.model = NoModel THEN Registry[p.face].default ELSE p.model

\* Slip: a station is looked up by the name the alias stands for.
FilteredRouting(providers, q, o) ==
  LET kept == At(providers, { i \in DOMAIN providers :
                /\ providers[i].face \in Face /\ Speaks(providers[i].face, q)
                /\ IsRelay(providers[i].face) => Serves(providers[i].face, q.routing) })
  IN  [ i \in DOMAIN kept |-> [ kept[i] EXCEPT !.model = RuleModel(kept[i], q, o) ] ]

\* filterCandidates: the whitelist chooses models and takes no face out; neither
\* does the key's binding.
Filtered(providers, q, o) ==
  LET kept == At(providers, { i \in DOMAIN providers :
                /\ providers[i].face \in Face /\ Speaks(providers[i].face, q)
                /\ IsRelay(providers[i].face) => Serves(providers[i].face, q.requested) })
  IN  [ i \in DOMAIN kept |-> [ kept[i] EXCEPT !.model = RuleModel(kept[i], q, o) ] ]

\* s by ascending rank, equals in the order they have; rank is a sequence beside s.
StableBy(s, rank) ==
  LET idx == InOrder(DOMAIN s, { p \in (DOMAIN s) \X (DOMAIN s) :
               \/ rank[p[1]] < rank[p[2]]
               \/ rank[p[1]] = rank[p[2]] /\ p[1] < p[2] })
  IN  [ k \in DOMAIN s |-> s[idx[k]] ]

\* s with its i-th element first.
Fronted(s, i) ==
  [ k \in DOMAIN s |-> IF k = 1 THEN s[i] ELSE IF k <= i THEN s[k - 1] ELSE s[k] ]

\* An unknown strategy is priority.
Ordered(strategy, s) ==
  CASE strategy = "weight" -> { Fronted(s, i) : i \in DOMAIN s }
    [] strategy = "cost"   -> { StableBy(s, [ i \in DOMAIN s |-> s[i].weight ]) }
    [] strategy = "health" -> { s }
    [] OTHER               -> { StableBy(s, [ i \in DOMAIN s |-> s[i].priority ]) }

\* routeAliasRule; name is what the client, or its key's default model, calls it.
RulePlans(c, rule, name, q, o) ==
  IF rule.providers = << >>
  THEN DirectPlans(IF rule.target = NoModel THEN name ELSE rule.target, q)
  ELSE LET kept == Filtered(rule.providers, q, o)
           strategy == IF rule.strategy = "" THEN c.strategy ELSE rule.strategy
       IN  IF kept = << >> THEN {} ELSE Ordered(strategy, kept)

-----------------------------------------------------------------------------
(* Route.                                                                  *)

\* The tiers of a face: the one it is billed by if its pool has keys of it.
TiersOf(f) ==
  LET k    == Registry[f].keys
      pool == IF DOMAIN k = {} THEN { "api" } ELSE { k[id] : id \in DOMAIN k }
  IN  IF Registry[f].billing \in pool THEN { Registry[f].billing } ELSE pool

InTier(plan, tier) ==
  LET in == At(plan, { i \in DOMAIN plan : tier \in TiersOf(plan[i].face) })
  IN  [ i \in DOMAIN in |-> [ face |-> in[i].face, model |-> in[i].model, tier |-> tier ] ]

\* Slip: the tiers in the opposite order.
BuildCandidatesReversed(plan) ==
  InTier(plan, TierOrder[3]) \o InTier(plan, TierOrder[2]) \o InTier(plan, TierOrder[1])

BuildCandidates(plan) ==
  InTier(plan, TierOrder[1]) \o InTier(plan, TierOrder[2]) \o InTier(plan, TierOrder[3])

IsAuto(rule) == rule.providers = << >> /\ rule.target = NoModel

CatchAllPlans(c, rule, q, o) ==
  IF IsAuto(rule) THEN AutoPlans(c, q, o) ELSE RulePlans(c, rule, q.routing, q, o)

\* An alias goes before catch_all, catch_all before the faces that declare the model.
Plans(c, q, o) ==
  IF q.protocol = "" THEN {}
  ELSE IF q.routing \in DOMAIN c.aliases THEN RulePlans(c, c.aliases[q.routing], q.routing, q, o)
  ELSE IF c.catchAll = {} THEN DirectPlans(q.routing, q)
  ELSE UNION { CatchAllPlans(c, rule, q, o) : rule \in c.catchAll }

Route(c, q, o) == { BuildCandidates(plan) : plan \in Plans(c, q, o) }

\* ResolveAlias: a name with a target model stands for it.
ResolveAlias(c, model) ==
  IF model \in DOMAIN c.aliases /\ c.aliases[model].target # NoModel
  THEN c.aliases[model].target ELSE model
=============================================================================
