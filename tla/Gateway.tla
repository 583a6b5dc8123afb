-------------------------------- MODULE Gateway -------------------------------
(***************************************************************************)
(* A request from the moment it is routed (Engine.handle): the routes the  *)
(* router builds for it (Router), the check of the first candidate against *)
(* the key's binding, and the loop over the candidates (Failover).  The    *)
(* iterator and the key are snapshots of that moment.                      *)
(***************************************************************************)
EXTENDS Failover, Router

CONSTANTS
  Configs,     \* routing configurations (see Router)
  KeySets,     \* sets of at most one gateway key: none, or the client's
  Requests     \* [model, protocol, responses]

\* A gateway key is [faces, vendors, keys, models, default]: the providers and the
\* keys it is bound to, its whitelist and its default model.
VARIABLES
  conf, keySet, asked,
  model,       \* the model it is routed by, after alias and default model
  offer,       \* the candidates of the iterator
  front        \* where handle is: "probe", "in", "refused" or "no_route"

gatewayVars == << conf, keySet, asked, model, offer, front, vars >>

\* The configuration's rules list their providers, an order gives places from 0 on,
\* and a request comes with one key at most.
ASSUME GatewayConfig ==
  /\ \A c \in Configs :
       /\ \A rule \in c.catchAll \cup { c.aliases[a] : a \in DOMAIN c.aliases } :
            IsSequence(rule.providers)
       /\ \A at \in DOMAIN c.order : c.order[at] \in Nat
  /\ \A ks \in KeySets : \A k, l \in ks : k = l

-----------------------------------------------------------------------------
(* Routing.                                                                *)

Allows(k, m) ==
  k.models = << >> \/ \E i \in DOMAIN k.models : k.models[i] \in { AnyModel, m }

\* The faces whose pool has one of the keys.
BoundFaces(k) == { f \in Face : DOMAIN Registry[f].keys \cap k.keys # {} }

\* A key bound to relay stations only keeps its whitelist from the router.
IsRelayPassthrough(k) ==
  \/ k.faces # {} /\ k.vendors = {} /\ \A f \in k.faces : IsRelay(f)
  \/ BoundFaces(k) # {} /\ \A f \in BoundFaces(k) : IsRelay(f)

NoOptions == [ faces |-> {}, vendors |-> {}, models |-> << >> ]

Options(ks) ==
  IF ks = {} THEN NoOptions
  ELSE LET k == CHOOSE k \in ks : TRUE
       IN  [ faces |-> k.faces, vendors |-> k.vendors,
             models |-> IF IsRelayPassthrough(k) THEN << >> ELSE k.models ]

Query(q, m) ==
  [ requested |-> q.model, routing |-> m, protocol |-> q.protocol, responses |-> q.responses ]

\* tryDefaultModelFallback: the default model must be in the whitelist itself.
Fallback(ks, m) ==
  { k.default : k \in { k \in ks : k.default \notin { NoModel, m } /\ Allows(k, k.default) } }

\* What a request is routed to, with the model: the second attempt is made for the
\* key's default model when there is no route for the first.
Routed(c, ks, q) ==
  LET first   == ResolveAlias(c, q.model)
      with(m) == { [ model |-> m, offer |-> r ] : r \in Route(c, Query(q, m), Options(ks)) }
  IN  IF with(first) # {} THEN with(first) ELSE UNION { with(m) : m \in Fallback(ks, first) }

\* What the loop needs to know of a candidate.  The whitelist is asked for the
\* routed model and for the candidate's.
Seen(ks, m, c) ==
  [ tier |-> c.tier, relay |-> IsRelay(c.face), renamed |-> c.model # m,
    listed |-> \A k \in ks : Allows(k, m) \/ Allows(k, c.model) ]

View(ks, m, candidates) == [ i \in DOMAIN candidates |-> Seen(ks, m, candidates[i]) ]

-----------------------------------------------------------------------------
(* The probe.                                                              *)

\* AcquireFromTier: only a key of the binding is handed out.
HasKey(i) ==
  \A k \in keySet : k.keys # {} =>
    \E id \in k.keys \cap DOMAIN Registry[offer[i].face].keys :
      Registry[offer[i].face].keys[id] = offer[i].tier

\* CheckProvider: the face's vendor is among the vendors of the providers.
MayUse(k, f) ==
  k.faces \cup k.vendors # {} =>
    VendorOf(f) \in k.vendors \cup { VendorOf(g) : g \in k.faces }

RefusesFirst(i) == \E k \in keySet : ~MayUse(k, offer[i].face)

\* Without a key there is nothing to check, and no probe.
GatewayInit ==
  /\ conf \in Configs /\ keySet \in KeySets /\ asked \in Requests
  /\ \/ /\ Routed(conf, keySet, asked) = {}
        /\ model = asked.model /\ offer = << >> /\ front = "no_route"
     \/ /\ \E r \in Routed(conf, keySet, asked) : model = r.model /\ offer = r.offer
        /\ front = IF keySet = {} THEN "in" ELSE "probe"
  /\ route = View(keySet, model, offer)
  /\ Enters

SameRoute == UNCHANGED << conf, keySet, asked, model, offer >>

\* The first candidate with a usable key is the loop's first, if the key may use it.
Probe(i) ==
  /\ front = "probe" /\ HasKey(i) /\ ~RefusesFirst(i)
  /\ NextCandidate(i)
  /\ front' = "in" /\ SameRoute

\* 403 key_provider_mismatch, whatever other candidates there are.
ProbeRefuses(i) ==
  /\ front = "probe" /\ HasKey(i) /\ RefusesFirst(i)
  /\ front' = "refused" /\ SameRoute /\ UNCHANGED vars

ProbeFindsNone ==
  /\ front = "probe"
  /\ NoMoreCandidates
  /\ front' = "in" /\ SameRoute

\* The loop looks at the client's context before the candidate found.
ProbeLate ==
  /\ front = "probe" /\ ctx # "live"
  /\ front' = "in" /\ SameRoute /\ UNCHANGED vars

\* Every later candidate is taken as the iterator offers it.
LoopStep ==
  /\ front = "in"
  /\ \/ \E i \in DOMAIN route : HasKey(i) /\ NextCandidate(i)
     \/ NoMoreCandidates \/ Skip \/ SendStarts \/ SendSucceeds \/ Finish \/ NotSent \/ Swap
     \/ \E e \in ErrorClass : SendFails(e)
     \/ \E spent \in BOOLEAN : Ask(spent)
     \/ ClientGone
  /\ UNCHANGED front /\ SameRoute

Outside ==
  /\ front \in { "probe", "in" }
  /\ (\E how \in { "canceled", "expired" } : ContextEnds(how)) \/ BudgetEnds
  /\ UNCHANGED front /\ SameRoute

HandleStep ==
  \/ \E i \in DOMAIN route : Probe(i) \/ ProbeRefuses(i)
  \/ ProbeFindsNone \/ ProbeLate \/ LoopStep

GatewayNext == HandleStep \/ Outside

GatewaySpec == GatewayInit /\ [][GatewayNext]_gatewayVars

\* The handler runs, and every send ends: the provider's HTTP client and, for a
\* relay's stream, the time for its first byte bound it.
GatewayFairSpec == GatewaySpec /\ WF_gatewayVars(HandleStep)

-----------------------------------------------------------------------------

\* Without a route the request is answered at the door.
OfferedRoutes ==
  { << >> } \cup
  UNION { UNION { UNION { { View(ks, m.model, m.offer) : m \in Routed(c, ks, q) } :
                    q \in Requests } : ks \in KeySets } : c \in Configs }

\* The routes the loop is checked and proved for are those the router builds.
ASSUME GatewayRoutes == OfferedRoutes \subseteq Routes

Sent(i) == sent'[i] > sent[i]

\* A key bound to providers is served by these only, whichever rule built the
\* route and however often the loop fails over: "restricts the candidates to the
\* providers listed" (WithAllowedProviders).
BoundToKey ==
  [][ \A i \in DOMAIN route : Sent(i) => \A k \in keySet : MayUse(k, offer[i].face) ]_gatewayVars

OnAutoChain ==
  /\ model \notin DOMAIN conf.aliases
  /\ conf.catchAll # {} /\ \A rule \in conf.catchAll : IsAuto(rule)

\* On the automatic chain this holds for every candidate, although only the first
\* is checked: the others must have been left out when the route was built.
AutoBound ==
  [][ OnAutoChain =>
        \A i \in DOMAIN route : Sent(i) => \A k \in keySet : MayUse(k, offer[i].face) ]_gatewayVars

TierRank(tier) == CHOOSE t \in DOMAIN TierOrder : TierOrder[t] = tier

\* A request is sent to a dearer tier only when the iterator has gone past every
\* candidate of the cheaper ones, wherever keys came and went meanwhile.
CheapestFirst ==
  [][ \A i, j \in DOMAIN route :
        Sent(i) /\ TierRank(route[j].tier) < TierRank(route[i].tier) => j < loop.current ]_gatewayVars

RelaysOf(plans) ==
  UNION { { f \in { plan[i].face : i \in DOMAIN plan } : IsRelay(f) } : plan \in plans }

Listing == [ i \in Face |-> [ face |-> i, model |-> NoModel, priority |-> 0, weight |-> 0 ] ]

\* The automatic chain and a rule that lists the same faces offer the same relay
\* stations, for the model the client asked for, whatever its alias, its key's
\* whitelist or its default model make of it: "both places must behave the same"
\* (filterCandidates).
SameRelays ==
  try.at = 0 /\ asked.protocol # "" =>
    LET o == [ Options(keySet) EXCEPT !.faces = {}, !.vendors = {} ]
        q == Query(asked, model)
        rule == [ providers |-> Listing, target |-> NoModel, strategy |-> "health" ]
    IN  RelaysOf(AutoPlans(conf, q, o)) = RelaysOf(RulePlans(conf, rule, model, q, o))

\* Every request is answered: by an upstream's response, a failure, or at the door.
GatewayAnswered == <>(answer # "none" \/ front \in { "refused", "no_route" })
=============================================================================
