----------------------------- MODULE GatewayProofs -----------------------------
(***************************************************************************)
(* A request of Gateway goes through the loop of Failover and does nothing *)
(* to it beside: what is proved of the loop for every route holds of every *)
(* route the router builds.  The second part is about these routes: what   *)
(* the router's filters and orders let through, for every configuration.   *)
(***************************************************************************)
EXTENDS Gateway, FailoverProofs

\* The route of a request is one of those that GatewayRoutes speaks of.
LEMMA RouteOffered ==
  ASSUME GatewayInit PROVE route \in Routes
<1>1. CASE offer = << >>
  <2>1. route = << >>  BY <1>1 DEF GatewayInit, View
  <2>2. << >> \in OfferedRoutes  BY DEF OfferedRoutes
  <2> QED BY <2>1, <2>2, GatewayRoutes
<1>2. CASE offer # << >>
  <2>1. PICK r \in Routed(conf, keySet, asked) : model = r.model /\ offer = r.offer
    BY <1>2 DEF GatewayInit
  <2>2. route = View(keySet, r.model, r.offer)  BY <2>1 DEF GatewayInit
  <2>3. conf \in Configs /\ keySet \in KeySets /\ asked \in Requests  BY DEF GatewayInit
  <2>4. route \in { View(keySet, m.model, m.offer) : m \in Routed(conf, keySet, asked) }
    BY <2>2
  <2>5. route \in OfferedRoutes  BY <2>3, <2>4 DEF OfferedRoutes
  <2> QED BY <2>5, GatewayRoutes
<1> QED BY <1>1, <1>2

\* A step of the handler, or of what is around it, is a step of the loop or leaves
\* the loop as it is.
LEMMA StepsAreLoopSteps ==
  ASSUME [GatewayNext]_gatewayVars PROVE [Next]_vars
<1>1. CASE UNCHANGED gatewayVars  BY <1>1 DEF gatewayVars
<1>2. ASSUME NEW i \in DOMAIN route, Probe(i) PROVE Next
  BY <1>2 DEF Probe, Next, HandlerStep
<1>3. ASSUME NEW i \in DOMAIN route, ProbeRefuses(i) PROVE UNCHANGED vars
  BY <1>3 DEF ProbeRefuses
<1>4. CASE ProbeFindsNone  BY <1>4 DEF ProbeFindsNone, Next, HandlerStep
<1>5. CASE ProbeLate  BY <1>5 DEF ProbeLate
<1>6. CASE LoopStep  BY <1>6 DEF LoopStep, Next, HandlerStep
<1>7. CASE Outside  BY <1>7 DEF Outside, Next
<1> QED BY <1>1, <1>2, <1>3, <1>4, <1>5, <1>6, <1>7 DEF GatewayNext, HandleStep

\* Routed, probed and bound to its key, a request is still a request of Failover.
THEOREM GatewayImplementsLoop == GatewaySpec => Spec
<1>1. GatewayInit => Init  BY RouteOffered DEF GatewayInit, Init
<1>2. [GatewayNext]_gatewayVars => [Next]_vars  BY StepsAreLoopSteps
<1> QED BY <1>1, <1>2, PTL DEF GatewaySpec, Spec

\* So it goes on to a lower tier only with evidence that the quota of this one is
\* spent, whatever the configuration, the key and the answers ...
THEOREM GatewayNoDowngrade == GatewaySpec => NoDowngrade
  BY GatewayImplementsLoop, NoDowngradeHolds, PTL

\* ... costs the upstreams a bounded number of sends ...
THEOREM GatewaySendsBounded == GatewaySpec => []SendsBounded
  BY GatewayImplementsLoop, SendsBoundedHolds, PTL

\* ... and is answered once, and sent no more after it.
THEOREM GatewayAnswersOnce == GatewaySpec => AnsweredOnce
  BY GatewayImplementsLoop, AnsweredOnceHolds, PTL
-----------------------------------------------------------------------------
(* What sorting and filtering by rank compute.                             *)

StrictOrder(S, R) ==
  /\ \A x \in S : << x, x >> \notin R
  /\ \A x, y, z \in S : << x, y >> \in R /\ << y, z >> \in R => << x, z >> \in R
  /\ \A x, y \in S : x # y => << x, y >> \in R \/ << y, x >> \in R

\* A set in a strict order becomes a sequence of all its elements.
LEMMA InOrderCovers ==
  ASSUME NEW S, IsFiniteSet(S), NEW R, StrictOrder(S, R)
  PROVE  /\ Cardinality(S) \in Nat
         /\ InOrder(S, R) \in [ 1 .. Cardinality(S) -> S ]
         /\ \A x \in S : \E k \in 1 .. Cardinality(S) : InOrder(S, R)[k] = x
<1> DEFINE n == Cardinality(S)
           Below(x) == { y \in S : << y, x >> \in R }
           rank == [ x \in S |-> Cardinality(Below(x)) + 1 ]
<1>1. n \in Nat
  BY FS_CardinalityType
<1>2. ASSUME NEW x \in S
      PROVE  /\ IsFiniteSet(Below(x)) /\ Cardinality(Below(x)) \in Nat
             /\ Cardinality(Below(x)) < n
  <2>1. Below(x) \in SUBSET S /\ x \notin Below(x)
    BY DEF StrictOrder
  <2>2. /\ IsFiniteSet(Below(x)) /\ Cardinality(Below(x)) <= n
        /\ n = Cardinality(Below(x)) => S = Below(x)
    BY <2>1, FS_Subset
  <2>3. Cardinality(Below(x)) \in Nat
    BY <2>2, FS_CardinalityType
  <2>4. Cardinality(Below(x)) # n
    BY <2>1, <2>2
  <2> HIDE DEF Below
  <2> QED BY <2>2, <2>3, <2>4, <1>1
<1>3. ASSUME NEW x \in S, NEW y \in S, << x, y >> \in R
      PROVE  Cardinality(Below(x)) < Cardinality(Below(y))
  <2>1. Below(x) \in SUBSET Below(y) /\ x \in Below(y) /\ x \notin Below(x)
    BY <1>3 DEF StrictOrder
  <2>2. /\ Cardinality(Below(x)) <= Cardinality(Below(y))
        /\ Cardinality(Below(y)) = Cardinality(Below(x)) => Below(y) = Below(x)
    BY <2>1, <1>2, FS_Subset
  <2>3. Cardinality(Below(x)) # Cardinality(Below(y))
    BY <2>1, <2>2
  <2> HIDE DEF Below
  <2> QED BY <1>2, <2>2, <2>3
<1>4. rank \in Injection(S, 1 .. n)
  <2>1. rank \in [ S -> 1 .. n ]
    <3> HIDE DEF Below
    <3> QED BY <1>1, <1>2
  <2>2. ASSUME NEW x \in S, NEW y \in S, rank[x] = rank[y] PROVE x = y
    <3> HIDE DEF Below
    <3>1. Cardinality(Below(x)) = Cardinality(Below(y))
      BY <1>2, <2>2
    <3>2. ~ (<< x, y >> \in R) /\ ~ (<< y, x >> \in R)
      BY <1>2, <1>3, <3>1
    <3> QED BY <3>2 DEF StrictOrder
  <2> QED BY <2>1, <2>2 DEF Injection, IsInjective
<1>5. rank \in Surjection(S, 1 .. n)
  <2>1. IsFiniteSet(1 .. n) /\ Cardinality(1 .. n) = n
    BY <1>1, FS_Interval
  <2>2. \A f \in Injection(S, 1 .. n) :
          Cardinality(S) = Cardinality(1 .. n) => f \in Surjection(S, 1 .. n)
    BY <2>1, FS_Injection
  <2> HIDE DEF rank
  <2> QED BY <1>4, <2>1, <2>2
<1>6. ASSUME NEW k \in 1 .. n
      PROVE  \E x \in S : Cardinality(Below(x)) = k - 1
  <2>1. PICK x \in S : rank[x] = k
    BY <1>5 DEF Surjection
  <2> HIDE DEF Below
  <2> QED BY <1>2, <2>1
<1> DEFINE at(k) == CHOOSE x \in S : Cardinality(Below(x)) = k - 1
<1>7. InOrder(S, R) = [ k \in 1 .. n |-> at(k) ]
  BY DEF InOrder
<1>8. ASSUME NEW k \in 1 .. n
      PROVE  /\ InOrder(S, R)[k] \in S
             /\ Cardinality(Below(InOrder(S, R)[k])) = k - 1
  <2> HIDE DEF Below
  <2>1. at(k) \in S /\ Cardinality(Below(at(k))) = k - 1
    BY <1>6
  <2> HIDE DEF at
  <2>2. InOrder(S, R)[k] = at(k)
    BY <1>7
  <2> QED BY <2>1, <2>2
<1>9. InOrder(S, R) \in [ 1 .. n -> S ]
  <2> HIDE DEF at, Below
  <2> QED BY <1>7, <1>8
<1>10. ASSUME NEW x \in S PROVE \E k \in 1 .. n : InOrder(S, R)[k] = x
  <2>1. rank[x] \in 1 .. n
    BY <1>4 DEF Injection, IsInjective
  <2> DEFINE z == InOrder(S, R)[rank[x]]
  <2>2. z \in S /\ Cardinality(Below(z)) = rank[x] - 1
    BY <1>8, <2>1
  <2>3. rank[z] = rank[x]
    <3> HIDE DEF Below
    <3> QED BY <1>2, <2>2
  <2>4. z = x
    BY <1>4, <2>2, <2>3 DEF Injection, IsInjective
  <2> QED BY <2>1, <2>4
<1> QED BY <1>1, <1>9, <1>10

\* A selection of a sequence's places gives the elements at these places.
LEMMA AtSelects ==
  ASSUME NEW s, NEW n \in Nat, DOMAIN s = 1 .. n, NEW T \in SUBSET DOMAIN s
  PROVE  /\ Cardinality(T) \in Nat
         /\ DOMAIN At(s, T) = 1 .. Cardinality(T)
         /\ At(s, T) = [ k \in 1 .. Cardinality(T) |-> At(s, T)[k] ]
         /\ \A k \in DOMAIN At(s, T) : \E i \in T : At(s, T)[k] = s[i]
         /\ \A i \in T : \E k \in DOMAIN At(s, T) : At(s, T)[k] = s[i]
<1> DEFINE R == { p \in T \X T : p[1] < p[2] }
           places == InOrder(T, R)
<1>1. IsFiniteSet(T)
  BY FS_Interval, FS_Subset
<1>2. StrictOrder(T, R)
  <2>1. \A x, y \in T : << x, y >> \in R <=> x < y
    OBVIOUS
  <2>2. T \subseteq Int
    OBVIOUS
  <2> HIDE DEF R
  <2> QED BY <2>1, <2>2 DEF StrictOrder
<1>3. /\ Cardinality(T) \in Nat
      /\ places \in [ 1 .. Cardinality(T) -> T ]
      /\ \A x \in T : \E k \in 1 .. Cardinality(T) : places[k] = x
  <2> HIDE DEF R
  <2> QED BY <1>1, <1>2, InOrderCovers
<1>4. At(s, T) = [ k \in DOMAIN places |-> s[places[k]] ]
  BY DEF At
<1> HIDE DEF places, R
<1> QED BY <1>3, <1>4

-----------------------------------------------------------------------------
(* What the router builds from them.                                       *)

Listed(s) == \E n \in Nat : DOMAIN s = 1 .. n /\ s = [ k \in 1 .. n |-> s[k] ]

LEMMA FacesFinite == IsFiniteSet(Face)
<1>1. Len(Registry) \in Nat /\ Face = 1 .. Len(Registry)
  BY RouterRegistry DEF IsSequence, Face
<1> QED BY <1>1, FS_Interval

\* The order of the automatic chain is strict and total: an administrator's places,
\* then ages, then names.
LEMMA BeforeOrders ==
  ASSUME NEW c, \A at \in DOMAIN c.order : c.order[at] \in Nat, NEW S \in SUBSET Face
  PROVE  StrictOrder(S, { p \in S \X S : Before(c, p[1], p[2]) })
<1> DEFINE R == { p \in S \X S : Before(c, p[1], p[2]) }
           added(f) == Registry[f].added
           place(f) == Place(c, f)
<1>1. \A f \in S : f \in Int /\ added(f) \in Nat /\ place(f) \in Int
  BY RouterRegistry DEF IsSequence, Face, Place
<1>2. ASSUME NEW f \in S, NEW g \in S
      PROVE  << f, g >> \in R <=>
               CASE place(f) >= 0 /\ place(g) >= 0 /\ place(f) # place(g) -> place(f) < place(g)
                 [] (place(f) >= 0) # (place(g) >= 0) -> place(f) >= 0
                 [] OTHER -> IF added(f) # added(g)
                             THEN added(f) # 0 /\ (added(g) = 0 \/ added(f) < added(g))
                             ELSE f < g
  BY DEF Before
<1>3. ASSUME NEW f \in S, NEW g \in S
      PROVE  << f, g >> \in R <=>
               \/ place(f) >= 0 /\ place(g) < 0
               \/ place(f) >= 0 /\ place(g) >= 0 /\ place(f) < place(g)
               \/ /\ place(f) = place(g) \/ (place(f) < 0 /\ place(g) < 0)
                  /\ \/ added(f) # 0 /\ added(g) = 0
                     \/ added(f) # 0 /\ added(f) < added(g)
                     \/ added(f) = added(g) /\ f < g
  <2> HIDE DEF R, added, place
  <2> QED BY <1>1, <1>2
<1> HIDE DEF R, added, place
<1>4. StrictOrder(S, R)
  <2>1. \A x \in S : << x, x >> \notin R
    BY <1>1, <1>3
  <2>2. \A x, y, z \in S : << x, y >> \in R /\ << y, z >> \in R => << x, z >> \in R
    BY <1>1, <1>3
  <2>3. \A x, y \in S : x # y => << x, y >> \in R \/ << y, x >> \in R
    BY <1>1, <1>3
  <2> QED BY <2>1, <2>2, <2>3 DEF StrictOrder
<1> QED BY <1>4 DEF R

\* The chain offers the faces that pass its filters, each of them.
LEMMA AutoPlanFaces ==
  ASSUME NEW c, \A at \in DOMAIN c.order : c.order[at] \in Nat, NEW q, NEW o,
         NEW plan \in AutoPlans(c, q, o)
  PROVE  /\ Listed(plan)
         /\ \A i \in DOMAIN plan : plan[i].face \in AutoFaces(q, o)
         /\ \A f \in AutoFaces(q, o) : \E i \in DOMAIN plan : plan[i].face = f
<1> DEFINE faces == AutoFaces(q, o)
           R == { p \in faces \X faces : Before(c, p[1], p[2]) }
           s == InOrder(faces, R)
<1>1. faces \in SUBSET Face
  BY DEF AutoFaces
<1>2. IsFiniteSet(faces) /\ StrictOrder(faces, R)
  BY <1>1, FacesFinite, FS_Subset, BeforeOrders
<1>3. /\ Cardinality(faces) \in Nat /\ s \in [ 1 .. Cardinality(faces) -> faces ]
      /\ \A f \in faces : \E k \in 1 .. Cardinality(faces) : s[k] = f
  <2> HIDE DEF faces, R
  <2> QED BY <1>2, InOrderCovers
<1>4. plan = [ i \in DOMAIN s |-> [ face |-> s[i], model |-> AutoModel(s[i], q, o) ] ]
  BY DEF AutoPlans
<1> HIDE DEF faces, R, s
<1>5. /\ DOMAIN plan = 1 .. Cardinality(faces)
      /\ plan = [ k \in 1 .. Cardinality(faces) |-> plan[k] ]
      /\ \A i \in DOMAIN plan : plan[i].face = s[i]
  BY <1>3, <1>4
<1>6. Listed(plan)
  BY <1>3, <1>5 DEF Listed
<1> QED BY <1>3, <1>5, <1>6 DEF faces

LEMMA DirectPlansListed ==
  ASSUME NEW m, NEW q, NEW plan \in DirectPlans(m, q)  PROVE Listed(plan)
<1> DEFINE wanted(f) == IF IsRelay(f) THEN q.requested ELSE m
           faces == { f \in Face : wanted(f) \in Registry[f].models /\ Speaks(f, q) }
<1>1. IsFiniteSet(faces)
  BY FacesFinite, FS_Subset
<1>2. Cardinality(faces) \in Nat
  BY <1>1, FS_CardinalityType
<1>3. plan \in { [ i \in DOMAIN s |-> [ face |-> s[i], model |-> wanted(s[i]) ] ] : s \in Walks(faces) }
  BY DEF DirectPlans
<1>4. PICK s \in Walks(faces) :
        plan = [ i \in DOMAIN s |-> [ face |-> s[i], model |-> wanted(s[i]) ] ]
  BY <1>3
<1>5. DOMAIN s = 1 .. Cardinality(faces)
  BY DEF Walks
<1> HIDE DEF faces, wanted
<1> QED BY <1>2, <1>4, <1>5 DEF Listed

\* A rule keeps its providers that are registered, speak the protocol and, if they
\* are stations, serve the name the client used.
KeptPlaces(providers, q) ==
  { i \in DOMAIN providers :
      /\ providers[i].face \in Face /\ Speaks(providers[i].face, q)
      /\ IsRelay(providers[i].face) => Serves(providers[i].face, q.requested) }

Chosen(p, q, o) == [ p EXCEPT !.model = RuleModel(p, q, o) ]

LEMMA FilteredFaces ==
  ASSUME NEW providers, NEW n \in Nat, DOMAIN providers = 1 .. n, NEW q, NEW o
  PROVE  LET kept == Filtered(providers, q, o)
         IN  /\ Listed(kept)
             /\ \A k \in DOMAIN kept :
                  \E i \in KeptPlaces(providers, q) : kept[k] = Chosen(providers[i], q, o)
             /\ \A i \in KeptPlaces(providers, q) :
                  \E k \in DOMAIN kept : kept[k] = Chosen(providers[i], q, o)
<1> DEFINE T == KeptPlaces(providers, q)
           in == At(providers, T)
           kept == Filtered(providers, q, o)
<1>1. kept = [ i \in DOMAIN in |-> Chosen(in[i], q, o) ]
  BY DEF Filtered, KeptPlaces, Chosen
<1>2. T \in SUBSET DOMAIN providers
  BY DEF KeptPlaces
<1> HIDE DEF T, kept
<1>3. /\ Cardinality(T) \in Nat
      /\ DOMAIN in = 1 .. Cardinality(T)
      /\ \A k \in DOMAIN in : \E i \in T : in[k] = providers[i]
      /\ \A i \in T : \E k \in DOMAIN in : in[k] = providers[i]
  BY <1>2, AtSelects
<1> HIDE DEF in
<1>4. DOMAIN kept = DOMAIN in /\ \A k \in DOMAIN in : kept[k] = Chosen(in[k], q, o)
  BY <1>1
<1>5. Listed(kept)
  BY <1>1, <1>3 DEF Listed
<1> QED BY <1>3, <1>4, <1>5 DEF kept, T

LEMMA OrderedListed ==
  ASSUME NEW strategy, NEW s, Listed(s), NEW r \in Ordered(strategy, s)  PROVE Listed(r)
<1>1. \/ \E i \in DOMAIN s : r = Fronted(s, i)
      \/ r = s
      \/ \E rank : r = StableBy(s, rank)
  BY DEF Ordered
<1>2. ASSUME NEW i \in DOMAIN s, r = Fronted(s, i) PROVE Listed(r)
  <2>1. DOMAIN r = DOMAIN s /\ r = [ k \in DOMAIN s |-> r[k] ]
    BY <1>2 DEF Fronted
  <2> QED BY <2>1 DEF Listed
<1>3. ASSUME NEW rank, r = StableBy(s, rank) PROVE Listed(r)
  <2> DEFINE idx == InOrder(DOMAIN s, { p \in (DOMAIN s) \X (DOMAIN s) :
                      \/ rank[p[1]] < rank[p[2]]
                      \/ rank[p[1]] = rank[p[2]] /\ p[1] < p[2] })
  <2>1. r = [ k \in DOMAIN s |-> s[idx[k]] ]
    BY <1>3 DEF StableBy
  <2> HIDE DEF idx
  <2> QED BY <2>1 DEF Listed
<1> QED BY <1>1, <1>2, <1>3

LEMMA RulePlansListed ==
  ASSUME NEW c, NEW rule, IsSequence(rule.providers), NEW name, NEW q, NEW o,
         NEW plan \in RulePlans(c, rule, name, q, o)
  PROVE  Listed(plan)
<1>1. CASE rule.providers = << >>
  BY <1>1, DirectPlansListed DEF RulePlans
<1>2. CASE rule.providers # << >>
  <2>1. Listed(Filtered(rule.providers, q, o))
    BY FilteredFaces DEF IsSequence
  <2>2. \E strategy : plan \in Ordered(strategy, Filtered(rule.providers, q, o))
    BY <1>2 DEF RulePlans
  <2> QED BY <2>1, <2>2, OrderedListed
<1> QED BY <1>1, <1>2

LEMMA PlansListed ==
  ASSUME NEW c \in Configs, NEW q, NEW o, NEW plan \in Plans(c, q, o)  PROVE Listed(plan)
<1>1. \A at \in DOMAIN c.order : c.order[at] \in Nat
  BY GatewayConfig
<1>2. \A rule \in c.catchAll : IsSequence(rule.providers)
  BY GatewayConfig
<1>3. \A a \in DOMAIN c.aliases : IsSequence(c.aliases[a].providers)
  BY GatewayConfig
<1>4. CASE q.routing \in DOMAIN c.aliases
  BY <1>3, <1>4, RulePlansListed DEF Plans
<1>5. CASE q.routing \notin DOMAIN c.aliases /\ c.catchAll = {}
  BY <1>5, DirectPlansListed DEF Plans
<1>6. CASE q.routing \notin DOMAIN c.aliases /\ c.catchAll # {}
  <2>1. PICK rule \in c.catchAll : plan \in CatchAllPlans(c, rule, q, o)
    BY <1>6 DEF Plans
  <2>2. plan \in AutoPlans(c, q, o) \/ plan \in RulePlans(c, rule, q.routing, q, o)
    BY <2>1 DEF CatchAllPlans
  <2> QED BY <1>1, <1>2, <2>2, AutoPlanFaces, RulePlansListed
<1> QED BY <1>4, <1>5, <1>6

-----------------------------------------------------------------------------
(* Tier by tier.                                                           *)

LEMMA TierRanks ==
  /\ TierRank("token_plan") = 1 /\ TierRank("api") = 2 /\ TierRank("free") = 3
  /\ TierOrder[1] = "token_plan" /\ TierOrder[2] = "api" /\ TierOrder[3] = "free"
<1>1. DOMAIN TierOrder = { 1, 2, 3 }
  BY DEF TierOrder
<1>2. TierOrder[1] = "token_plan" /\ TierOrder[2] = "api" /\ TierOrder[3] = "free"
  BY DEF TierOrder
<1> QED BY <1>1, <1>2 DEF TierRank

\* The part of a plan that a tier contributes: candidates of this tier, on faces
\* of the plan.
LEMMA InTierOffers ==
  ASSUME NEW plan, Listed(plan), NEW tier
  PROVE  LET part == InTier(plan, tier)
         IN  /\ Listed(part)
             /\ \A k \in DOMAIN part :
                  /\ part[k].tier = tier
                  /\ \E i \in DOMAIN plan : part[k].face = plan[i].face
<1> DEFINE T == { i \in DOMAIN plan : tier \in TiersOf(plan[i].face) }
           in == At(plan, T)
<1>1. PICK n \in Nat : DOMAIN plan = 1 .. n
  BY DEF Listed
<1>2. InTier(plan, tier) =
        [ i \in DOMAIN in |-> [ face |-> in[i].face, model |-> in[i].model, tier |-> tier ] ]
  BY DEF InTier
<1>3. T \in SUBSET DOMAIN plan
  OBVIOUS
<1> HIDE DEF T
<1>4. /\ Cardinality(T) \in Nat /\ DOMAIN in = 1 .. Cardinality(T)
      /\ \A k \in DOMAIN in : \E i \in T : in[k] = plan[i]
  BY <1>1, <1>3, AtSelects
<1> HIDE DEF in
<1>5. /\ DOMAIN InTier(plan, tier) = DOMAIN in
      /\ \A k \in DOMAIN in : /\ InTier(plan, tier)[k].tier = tier
                              /\ InTier(plan, tier)[k].face = in[k].face
      /\ InTier(plan, tier) = [ k \in DOMAIN in |-> InTier(plan, tier)[k] ]
  BY <1>2
<1>6. Listed(InTier(plan, tier))
  BY <1>4, <1>5 DEF Listed
<1> QED BY <1>3, <1>4, <1>5, <1>6

LEMMA ListedIsSeq ==
  ASSUME NEW s, Listed(s), NEW A, \A k \in DOMAIN s : s[k] \in A
  PROVE  /\ s \in Seq(A) /\ Len(s) \in Nat /\ DOMAIN s = 1 .. Len(s)
<1>1. PICK n \in Nat : DOMAIN s = 1 .. n /\ s = [ k \in 1 .. n |-> s[k] ]
  BY DEF Listed
<1>2. s \in [ 1 .. n -> A ]
  BY <1>1
<1>3. s \in Seq(A)
  BY <1>2
<1> QED BY <1>3

\* Tier by tier, cheapest first, on the faces of the plan and no other.
LEMMA CandidatesByTier ==
  ASSUME NEW plan, Listed(plan)
  PROVE  LET r == BuildCandidates(plan)
         IN  /\ Len(r) \in Nat /\ DOMAIN r = 1 .. Len(r)
             /\ \A k \in DOMAIN r : /\ r[k].tier \in Tiers
                                    /\ \E i \in DOMAIN plan : r[k].face = plan[i].face
             /\ \A j, k \in DOMAIN r : j <= k => TierRank(r[j].tier) <= TierRank(r[k].tier)
<1> DEFINE a == InTier(plan, "token_plan")
           b == InTier(plan, "api")
           d == InTier(plan, "free")
           A == { a[k] : k \in DOMAIN a } \cup { b[k] : k \in DOMAIN b } \cup { d[k] : k \in DOMAIN d }
           r == a \o b \o d
<1>1. BuildCandidates(plan) = r
  BY TierRanks DEF BuildCandidates
<1>2. /\ Listed(a) /\ Listed(b) /\ Listed(d)
      /\ \A k \in DOMAIN a : a[k].tier = "token_plan" /\ \E i \in DOMAIN plan : a[k].face = plan[i].face
      /\ \A k \in DOMAIN b : b[k].tier = "api" /\ \E i \in DOMAIN plan : b[k].face = plan[i].face
      /\ \A k \in DOMAIN d : d[k].tier = "free" /\ \E i \in DOMAIN plan : d[k].face = plan[i].face
  BY InTierOffers
<1> HIDE DEF a, b, d
<1>3. /\ a \in Seq(A) /\ Len(a) \in Nat /\ DOMAIN a = 1 .. Len(a)
      /\ b \in Seq(A) /\ Len(b) \in Nat /\ DOMAIN b = 1 .. Len(b)
      /\ d \in Seq(A) /\ Len(d) \in Nat /\ DOMAIN d = 1 .. Len(d)
  <2>1. /\ \A k \in DOMAIN a : a[k] \in A
        /\ \A k \in DOMAIN b : b[k] \in A
        /\ \A k \in DOMAIN d : d[k] \in A
    OBVIOUS
  <2> HIDE DEF A
  <2> QED BY <1>2, <2>1, ListedIsSeq
<1> HIDE DEF A
<1>4. /\ r \in Seq(A) /\ Len(r) = Len(a) + Len(b) + Len(d)
      /\ \A k \in 1 .. Len(r) :
           r[k] = IF k <= Len(a) THEN a[k]
                  ELSE IF k <= Len(a) + Len(b) THEN b[k - Len(a)] ELSE d[k - Len(a) - Len(b)]
  <2>1. /\ a \o b \in Seq(A) /\ Len(a \o b) = Len(a) + Len(b)
        /\ \A k \in 1 .. Len(a \o b) : (a \o b)[k] = IF k <= Len(a) THEN a[k] ELSE b[k - Len(a)]
    BY <1>3
  <2> DEFINE ab == a \o b
  <2>2. r = ab \o d
    OBVIOUS
  <2>3. ab \in Seq(A) /\ Len(ab) = Len(a) + Len(b)
    BY <2>1
  <2>4. \A k \in 1 .. Len(ab) : ab[k] = IF k <= Len(a) THEN a[k] ELSE b[k - Len(a)]
    BY <2>1
  <2> HIDE DEF ab, r
  <2>5. /\ r \in Seq(A) /\ Len(r) = Len(ab) + Len(d)
        /\ \A k \in 1 .. Len(r) : r[k] = IF k <= Len(ab) THEN ab[k] ELSE d[k - Len(ab)]
    BY <1>3, <2>2, <2>3
  <2> QED BY <1>3, <2>3, <2>4, <2>5
<1> HIDE DEF r
<1>5. Len(r) \in Nat /\ DOMAIN r = 1 .. Len(r)
  BY <1>4
<1>6. ASSUME NEW k \in DOMAIN r
      PROVE  /\ \E i \in DOMAIN plan : r[k].face = plan[i].face
             /\ r[k].tier = IF k <= Len(a) THEN "token_plan"
                            ELSE IF k <= Len(a) + Len(b) THEN "api" ELSE "free"
  <2>1. CASE k <= Len(a)
    BY <1>2, <1>3, <1>4, <1>5, <2>1
  <2>2. CASE k > Len(a) /\ k <= Len(a) + Len(b)
    <3>1. k - Len(a) \in DOMAIN b /\ r[k] = b[k - Len(a)]
      BY <1>3, <1>4, <1>5, <2>2
    <3> QED BY <1>2, <1>3, <1>5, <2>2, <3>1
  <2>3. CASE k > Len(a) + Len(b)
    <3>1. k - Len(a) - Len(b) \in DOMAIN d /\ r[k] = d[k - Len(a) - Len(b)]
      BY <1>3, <1>4, <1>5, <2>3
    <3> QED BY <1>2, <1>3, <1>5, <2>3, <3>1
  <2> QED BY <1>3, <1>5, <2>1, <2>2, <2>3
<1>7. \A k \in DOMAIN r :
        /\ r[k].tier \in Tiers
        /\ TierRank(r[k].tier) = IF k <= Len(a) THEN 1 ELSE IF k <= Len(a) + Len(b) THEN 2 ELSE 3
  BY <1>6, TierRanks DEF Tiers
<1>8. \A j, k \in DOMAIN r : j <= k => TierRank(r[j].tier) <= TierRank(r[k].tier)
  <2> SUFFICES ASSUME NEW j \in DOMAIN r, NEW k \in DOMAIN r, j <= k
               PROVE  TierRank(r[j].tier) <= TierRank(r[k].tier)
    OBVIOUS
  <2>1. j \in Nat /\ k \in Nat
    BY <1>5
  <2> QED BY <1>3, <1>7, <2>1
<1> QED BY <1>1, <1>5, <1>6, <1>7, <1>8

-----------------------------------------------------------------------------
(* What a request carries with it from the router.                         *)

\* The plan behind the offer: nothing of it changes after the request is routed.
Carried ==
  /\ conf \in Configs /\ keySet \in KeySets
  /\ route = View(keySet, model, offer)
  /\ \/ offer = << >>
     \/ \E plan \in Plans(conf, Query(asked, model), Options(keySet)) :
          offer = BuildCandidates(plan)

LEMMA RoutedByPlans ==
  ASSUME NEW c, NEW ks, NEW q, NEW r \in Routed(c, ks, q)
  PROVE  \E plan \in Plans(c, Query(q, r.model), Options(ks)) : r.offer = BuildCandidates(plan)
<1>1. PICK m : r \in { [ model |-> m, offer |-> x ] : x \in Route(c, Query(q, m), Options(ks)) }
  BY DEF Routed
<1>2. r.model = m /\ r.offer \in Route(c, Query(q, m), Options(ks))
  BY <1>1
<1> QED BY <1>2 DEF Route

\* Every route the router builds lists the cheapest tier first and each tier in one
\* piece: what the loop assumes of its routes (FailoverConfig) follows from this.
THEOREM RouterOffersByTier ==
  \A r \in OfferedRoutes : \A i, j \in DOMAIN r :
    i < j => TierRank(r[i].tier) <= TierRank(r[j].tier)
<1> SUFFICES ASSUME NEW r \in OfferedRoutes, NEW i \in DOMAIN r, NEW j \in DOMAIN r, i < j
             PROVE  TierRank(r[i].tier) <= TierRank(r[j].tier)
  OBVIOUS
<1>1. r # << >>
  OBVIOUS
<1>2. PICK c \in Configs, ks \in KeySets, q \in Requests :
        r \in { View(ks, y.model, y.offer) : y \in Routed(c, ks, q) }
  BY <1>1 DEF OfferedRoutes
<1>3. PICK x \in Routed(c, ks, q) : r = View(ks, x.model, x.offer)
  BY <1>2
<1>4. PICK plan \in Plans(c, Query(q, x.model), Options(ks)) : x.offer = BuildCandidates(plan)
  BY RoutedByPlans
<1> DEFINE o == x.offer
<1>5. /\ Len(o) \in Nat /\ DOMAIN o = 1 .. Len(o)
      /\ \A k, l \in DOMAIN o : k <= l => TierRank(o[k].tier) <= TierRank(o[l].tier)
  BY <1>4, PlansListed, CandidatesByTier
<1>6. DOMAIN r = DOMAIN o /\ \A k \in DOMAIN o : r[k].tier = o[k].tier
  BY <1>3 DEF View, Seen
<1> HIDE DEF o
<1> QED BY <1>5, <1>6

LEMMA CarriedHolds == GatewaySpec => []Carried
<1>1. ASSUME GatewayInit PROVE Carried
  <2>1. conf \in Configs /\ keySet \in KeySets /\ route = View(keySet, model, offer)
    BY <1>1 DEF GatewayInit
  <2>2. offer = << >> \/ \E r \in Routed(conf, keySet, asked) : model = r.model /\ offer = r.offer
    BY <1>1 DEF GatewayInit
  <2> QED BY <2>1, <2>2, RoutedByPlans DEF Carried
<1>2. ASSUME Carried, [GatewayNext]_gatewayVars PROVE Carried'
  <2>1. UNCHANGED << conf, keySet, asked, model, offer >>
    BY <1>2 DEF GatewayNext, HandleStep, Probe, ProbeRefuses, ProbeFindsNone, ProbeLate,
       LoopStep, Outside, SameRoute, gatewayVars
  <2>2. route' = route
    BY <1>2, StepsAreLoopSteps DEF Next, HandlerStep, vars, NextCandidate, NoMoreCandidates, Skip,
       SendStarts, SendSucceeds, Finish, NotSent, Swap, SendFails, Ask, ClientGone, ContextEnds,
       BudgetEnds
  <2> QED BY <1>2, <2>1, <2>2 DEF Carried
<1> QED BY <1>1, <1>2, PTL DEF GatewaySpec

\* The loop knows a candidate by its place in the offer.
LEMMA RouteOfOffer ==
  ASSUME Carried
  PROVE  /\ DOMAIN route = DOMAIN offer
         /\ \A i \in DOMAIN route : route[i].tier = offer[i].tier
BY DEF Carried, View, Seen

\* What the router offers a request, it offers tier by tier.
LEMMA OfferByTier ==
  ASSUME Carried
  PROVE  /\ Len(offer) \in Nat /\ DOMAIN offer = 1 .. Len(offer)
         /\ \A j, k \in DOMAIN offer : j <= k => TierRank(offer[j].tier) <= TierRank(offer[k].tier)
<1>1. CASE offer = << >>
  BY <1>1
<1>2. CASE offer # << >>
  <2>1. PICK plan \in Plans(conf, Query(asked, model), Options(keySet)) :
          offer = BuildCandidates(plan)
    BY <1>2 DEF Carried
  <2>2. Listed(plan)
    BY PlansListed DEF Carried
  <2> QED BY <2>1, <2>2, CandidatesByTier
<1> QED BY <1>1, <1>2

\* Only the start of a send counts one, for the candidate in hand.
LEMMA SentInHand ==
  ASSUME FInv, [Next]_vars, NEW i \in DOMAIN route, Sent(i)
  PROVE  i = loop.current
<1>1. sent \in [ DOMAIN route -> 0 .. SameKeyRetries + 3 ] /\ SameKeyRetries \in Nat
  BY ConstantTypes DEF FInv, TypeOK
<1>2. sent[i] \in Nat /\ sent'[i] > sent[i]
  BY <1>1 DEF Sent
<1>3. sent' # sent
  BY <1>2
<1>4. SendStarts
  BY <1>3 DEF Next, HandlerStep, vars, NextCandidate, NoMoreCandidates, Skip, SendSucceeds,
     Finish, NotSent, Swap, SendFails, Ask, ClientGone, ContextEnds, BudgetEnds
<1>5. i = try.at
  BY <1>1, <1>2, <1>4 DEF SendStarts
<1> QED BY <1>5 DEF FInv, InHand

\* A request is sent to a dearer tier only when the iterator has gone past every
\* candidate of the cheaper ones, for every configuration and every set of pools.
THEOREM GatewayCheapestFirst == GatewaySpec => CheapestFirst
<1> DEFINE Cheaper ==
      \A i, j \in DOMAIN route :
        Sent(i) /\ TierRank(route[j].tier) < TierRank(route[i].tier) => j < loop.current
<1>1. ASSUME FInv, Carried, [GatewayNext]_gatewayVars PROVE Cheaper
  <2> SUFFICES ASSUME NEW i \in DOMAIN route, NEW j \in DOMAIN route, Sent(i),
                      TierRank(route[j].tier) < TierRank(route[i].tier)
               PROVE  j < loop.current
    OBVIOUS
  <2>1. i = loop.current
    BY <1>1, StepsAreLoopSteps, SentInHand
  <2>2. /\ i \in DOMAIN offer /\ j \in DOMAIN offer
        /\ TierRank(offer[j].tier) < TierRank(offer[i].tier)
    BY <1>1, RouteOfOffer
  <2>3. i \in Nat /\ j \in Nat
    BY <1>1, <2>2, OfferByTier
  <2>4. TierRank(offer[j].tier) \in 1 .. 3 /\ TierRank(offer[i].tier) \in 1 .. 3
    <3>1. \A t \in Tiers : TierRank(t) \in 1 .. 3
      BY TierRanks DEF Tiers
    <3>2. route[i] \in Candidate /\ route[j] \in Candidate
      BY <1>1, RouteType DEF FInv, TypeOK
    <3>3. route[i].tier \in Tiers /\ route[j].tier \in Tiers
      BY <3>2 DEF Candidate
    <3> QED BY <1>1, <3>1, <3>3, RouteOfOffer
  <2>5. ~(i <= j)
    BY <1>1, <2>2, <2>4, OfferByTier
  <2> QED BY <2>1, <2>3, <2>5
<1>2. Cheaper => [Cheaper]_gatewayVars
  OBVIOUS
<1> HIDE DEF Cheaper
<1>3. Spec => []FInv
  BY InitInvariant, StepInvariant, PTL DEF Spec
<1>4. GatewaySpec => [][Cheaper]_gatewayVars
  BY <1>1, <1>2, <1>3, GatewayImplementsLoop, CarriedHolds, PTL DEF GatewaySpec
<1> QED BY <1>4 DEF CheapestFirst, Cheaper

-----------------------------------------------------------------------------
(* The binding of a key, and the stations.                                 *)

\* On the automatic chain every candidate is one the key may use, although only the
\* first is compared with it, wherever the loop goes.
THEOREM GatewayAutoBound == GatewaySpec => AutoBound
<1> DEFINE Kept ==
      OnAutoChain =>
        \A i \in DOMAIN route : Sent(i) => \A k \in keySet : MayUse(k, offer[i].face)
<1>1. ASSUME Carried PROVE Kept
  <2> SUFFICES ASSUME OnAutoChain, NEW i \in DOMAIN route, NEW k \in keySet
               PROVE  MayUse(k, offer[i].face)
    OBVIOUS
  <2> DEFINE o == Options(keySet)
             q == Query(asked, model)
  <2>1. i \in DOMAIN offer
    BY <1>1, RouteOfOffer
  <2>2. PICK plan \in Plans(conf, q, o) : offer = BuildCandidates(plan)
    BY <1>1, <2>1 DEF Carried
  <2>3. q.routing = model
    BY DEF Query
  <2>4. plan \in AutoPlans(conf, q, o)
    BY <2>3 DEF Plans, OnAutoChain, CatchAllPlans
  <2>5. \A at \in DOMAIN conf.order : conf.order[at] \in Nat
    BY <1>1, GatewayConfig DEF Carried
  <2>6. Listed(plan) /\ \A n \in DOMAIN plan : plan[n].face \in AutoFaces(q, o)
    BY <2>4, <2>5, AutoPlanFaces
  <2>7. \E n \in DOMAIN plan : offer[i].face = plan[n].face
    BY <2>1, <2>2, <2>6, CandidatesByTier
  <2>8. Admits(o, offer[i].face)
    BY <2>6, <2>7 DEF AutoFaces
  <2>9. o.faces = k.faces /\ o.vendors = k.vendors
    <3>1. \A l \in keySet : l = k
      BY <1>1, GatewayConfig DEF Carried
    <3>2. keySet # {} /\ (CHOOSE l \in keySet : TRUE) = k
      BY <3>1
    <3> QED BY <3>2 DEF Options
  <2> HIDE DEF o
  <2> QED BY <2>8, <2>9 DEF Admits, Bound, MayUse
<1>2. Kept => [Kept]_gatewayVars
  OBVIOUS
<1> HIDE DEF Kept
<1>3. GatewaySpec => [][Kept]_gatewayVars
  BY <1>1, <1>2, CarriedHolds, PTL
<1> QED BY <1>3 DEF AutoBound, Kept

\* The chain and a rule that lists the same faces offer the same stations.
THEOREM GatewaySameRelays == GatewaySpec => []SameRelays
<1>1. ASSUME Carried PROVE SameRelays
  <2> DEFINE o == [ Options(keySet) EXCEPT !.faces = {}, !.vendors = {} ]
             q == Query(asked, model)
             rule == [ providers |-> Listing, target |-> NoModel, strategy |-> "health" ]
             stations == { f \in Face : /\ Speaks(f, q) /\ IsRelay(f) /\ Serves(f, q.requested) }
  <2>1. ~Bound(o)
    BY DEF Bound, Options, NoOptions
  <2>2. { f \in AutoFaces(q, o) : IsRelay(f) } = stations
    BY <2>1 DEF AutoFaces, Admits
  <2> HIDE DEF o, q
  <2>3. RelaysOf(AutoPlans(conf, q, o)) = stations
    <3>1. \A at \in DOMAIN conf.order : conf.order[at] \in Nat
      BY <1>1, GatewayConfig DEF Carried
    <3>2. ASSUME NEW plan \in AutoPlans(conf, q, o)
          PROVE  { f \in { plan[i].face : i \in DOMAIN plan } : IsRelay(f) } = stations
      BY <2>2, <3>1, AutoPlanFaces
    <3>3. AutoFaces(q, o) # {} => AutoPlans(conf, q, o) # {}
      BY DEF AutoPlans
    <3>4. AutoPlans(conf, q, o) = {} => stations = {}
      BY <2>2, <3>3
    <3> HIDE DEF stations
    <3> QED BY <3>2, <3>4 DEF RelaysOf
  <2>4. RelaysOf(RulePlans(conf, rule, model, q, o)) = stations
    <3> DEFINE plans == RulePlans(conf, rule, model, q, o)
               filtered == Filtered(Listing, q, o)
               T == KeptPlaces(Listing, q)
    <3>1. /\ Len(Registry) \in Nat /\ Face = 1 .. Len(Registry) /\ DOMAIN Listing = Face
          /\ \A i \in Face : Listing[i] = [ face |-> i, model |-> NoModel, priority |-> 0, weight |-> 0 ]
      BY RouterRegistry DEF IsSequence, Face, Listing
    <3>2. /\ \A k \in DOMAIN filtered : \E i \in T : filtered[k] = Chosen(Listing[i], q, o)
          /\ \A i \in T : \E k \in DOMAIN filtered : filtered[k] = Chosen(Listing[i], q, o)
      BY <3>1, FilteredFaces
    <3>3. T = { i \in Face : Speaks(i, q) /\ (IsRelay(i) => Serves(i, q.requested)) }
      BY <3>1 DEF KeptPlaces
    <3>4. \A i \in T : Chosen(Listing[i], q, o).face = i
      BY <3>1, <3>3 DEF Chosen
    <3> HIDE DEF T, filtered
    <3>5. { filtered[k].face : k \in DOMAIN filtered } = T
      BY <3>2, <3>4
    <3>6. { f \in { filtered[k].face : k \in DOMAIN filtered } : IsRelay(f) } = stations
      BY <3>3, <3>5
    <3>7. (plans = {} /\ stations = {}) \/ plans = { filtered }
      <4>1. CASE Listing = << >>
        <5>1. Face = {}
          BY <3>1, <4>1
        <5>2. rule.providers = << >> /\ rule.target = NoModel
          BY <4>1
        <5> QED BY <5>1, <5>2 DEF RulePlans, DirectPlans
      <4>2. CASE Listing # << >>
        <5>1. /\ rule.providers = Listing /\ rule.strategy = "health"
          OBVIOUS
        <5>2. plans = IF filtered = << >> THEN {} ELSE Ordered("health", filtered)
          BY <4>2, <5>1 DEF RulePlans, filtered
        <5>3. Ordered("health", filtered) = { filtered }
          BY DEF Ordered
        <5>4. filtered = << >> => stations = {}
          BY <3>6
        <5> QED BY <5>2, <5>3, <5>4
      <4> QED BY <4>1, <4>2
    <3> HIDE DEF stations, plans
    <3> QED BY <3>6, <3>7 DEF RelaysOf, plans
  <2> QED BY <2>3, <2>4 DEF SameRelays, o, q
<1> QED BY <1>1, CarriedHolds, PTL
=============================================================================
