------------------------------- MODULE KeyPool -------------------------------
(***************************************************************************)
(* The pool of upstream keys of one provider (internal/keypool) under      *)
(* concurrent requests.  A request acquires a key from one billing tier,   *)
(* sends with it, reports how that went and may send again with the same   *)
(* key; every method of the pool is one critical section of p.mu, and what *)
(* happens between two of them is anybody else's step.                     *)
(*                                                                         *)
(* Time is relative, as in Breaker: a key keeps the ticks its cool-down    *)
(* still has to run.  The history variable seen[k] records what the pool   *)
(* was told about k and does not keep itself.  Operators marked as slips    *)
(* are for checking the properties, as in Breaker.                         *)
(***************************************************************************)
EXTENDS Breaker

CONSTANTS
  Request,          \* requests in progress at the same time
  None,             \* no key
  Order,            \* the keys of the pool, highest priority first
  Tier,             \* billing source of every key
  Binding,          \* key sets requests are restricted to (gateway key, protocol)
  RetryAfter,       \* values of the Retry-After header, 0 when it is absent
  CoolingDuration,  \* default cool-down of a rate-limited key
  AuthCooling,      \* cool-down of a key the upstream does not accept
  QuotaRecovery,    \* "poll" when the vendor has a balancer, else "probe"
  Strategy,         \* "sticky", or "any" for the other schedulers
  BreakerFactory,   \* whether the keys have breakers
  SameKeyRetries,   \* times a rate-limited request sends again with its key
  ErrorType         \* errors the upstream may answer with, 429 apart

Key == { Order[i] : i \in DOMAIN Order }

TierOrder == << "token_plan", "api", "free" >>
Tiers == { TierOrder[i] : i \in DOMAIN TierOrder }

ASSUME PoolConfig ==
  /\ Order \in Seq(Key)
  /\ \A i, j \in DOMAIN Order : Order[i] = Order[j] => i = j
  /\ None \notin Key
  /\ Tier \in [ Key -> Tiers ]
  /\ Binding \subseteq SUBSET Key
  /\ RetryAfter \subseteq Nat
  /\ CoolingDuration \in Nat \ {0}
  /\ AuthCooling \in Nat \ {0}
  /\ QuotaRecovery \in { "poll", "probe" }
  /\ Strategy \in { "sticky", "any" }
  /\ BreakerFactory \in BOOLEAN
  /\ SameKeyRetries \in Nat

VARIABLES key, breaker, req, seen

vars == << key, breaker, req, seen >>

\* LIMITED is declared by the code and never assigned.
KeyStatus == { "ACTIVE", "COOLING", "QUOTA_EXCEEDED" }

\* cooling: ticks until CoolingUntil, kept while COOLING; coolingCount: only
\* compared with 3; polled: LastPolledAt is set; low: Remaining is nothing, or
\* one per cent at the most, as it is before any balance has been read.
KeyType ==
  [ status : KeyStatus, cooling : Nat, coolingCount : 0 .. 3,
    polled : BOOLEAN, low : BOOLEAN ]

\* rest: ticks left of the cool-down last reported; spent: its quota was reported
\* spent, or inferred to be from a third 429, and nothing has shown quota since.
SeenType == [ rest : Nat, spent : BOOLEAN ]

TypeOK ==
  /\ key \in [ Key -> KeyType ]
  /\ breaker \in [ Key -> BreakerType ]
  /\ req \in [ Request -> [ key : Key \cup {None}, resends : 0 .. SameKeyRetries ] ]
  /\ seen \in [ Key -> SeenType ]

Fresh   == [ status |-> "ACTIVE", cooling |-> 0, coolingCount |-> 0,
             polled |-> FALSE, low |-> TRUE ]
Idle    == [ key |-> None, resends |-> 0 ]
Nothing == [ rest |-> 0, spent |-> FALSE ]

Init ==
  /\ key = [ k \in Key |-> Fresh ]
  /\ breaker = [ k \in Key |-> New ]
  /\ req = [ r \in Request |-> Idle ]
  /\ seen = [ k \in Key |-> Nothing ]

-----------------------------------------------------------------------------
(* What a report does to the key.                                          *)

IsPolledAndExhausted(k) == k.polled /\ k.low

AwakeNever(k) == k  \* slip: a cool-down is never lifted
Awake(k)    == IF k.status = "COOLING" /\ k.cooling = 0 THEN [ k EXCEPT !.status = "ACTIVE" ] ELSE k
Cooled(k, ticks)   == [ k EXCEPT !.status = "COOLING", !.cooling = ticks ]
QuotaExceeded(k)   == [ k EXCEPT !.status = "QUOTA_EXCEEDED", !.cooling = 0 ]
QuotaRestored(k)   == [ k EXCEPT !.status = "ACTIVE", !.cooling = 0 ]

Cooling(retryAfter) == IF retryAfter > 0 THEN retryAfter ELSE CoolingDuration

\* A third 429 takes a token_plan key out until its quota is polled.
Escalates(k, tier) == k.coolingCount + 1 >= 3 /\ tier = "token_plan"

RateLimited(k, tier, retryAfter) ==
  LET limited == [ Cooled(k, Cooling(retryAfter)) EXCEPT !.coolingCount = Saturated(@ + 1, 3) ]
  IN  IF Escalates(k, tier) THEN QuotaExceeded(limited) ELSE limited

\* Slips: a success forgives a cool-down; a success restores nothing.
WorkedForgiving(k) == [ QuotaRestored(k) EXCEPT !.coolingCount = 0 ]
WorkedInVain(k)    == k

Worked(k) ==
  IF k.status = "QUOTA_EXCEEDED" THEN [ QuotaRestored(k) EXCEPT !.coolingCount = 0 ] ELSE k

-----------------------------------------------------------------------------
(* Acquiring a key.                                                        *)

\* IsUsable and the filters, after every expired cool-down has been lifted.
Usable(eligible) == { k \in eligible : Awake(key[k]).status = "ACTIVE" }

\* filterBreakers asks every usable key's breaker, whatever its tier.
Admitted(eligible) ==
  { k \in Usable(eligible) : BreakerFactory => Allows(breaker[k]) }

Bucket(tier, eligible) ==
  { k \in Admitted(eligible) : Tier[k] = tier /\ ~IsPolledAndExhausted(key[k]) }

Before(j, k) == \E m, n \in DOMAIN Order : m < n /\ Order[m] = j /\ Order[n] = k

Select(bucket) ==
  IF Strategy = "sticky" THEN { k \in bucket : \A j \in bucket : ~Before(j, k) } ELSE bucket

\* acquireFromTierLocked.  The eligible keys are those of the binding without
\* the key that has just failed, when the request changes keys.
AcquireFromTier(r, tier, eligible) ==
  /\ req[r].key = None
  /\ key' = [ k \in Key |-> Awake(key[k]) ]
  /\ breaker' = [ k \in Key |-> IF BreakerFactory /\ k \in Usable(eligible)
                                THEN Allow(breaker[k]) ELSE breaker[k] ]
  /\ IF Bucket(tier, eligible) = {}
     THEN UNCHANGED req
     ELSE \E k \in Select(Bucket(tier, eligible)) : req' = [ req EXCEPT ![r].key = k ]
  /\ UNCHANGED seen

-----------------------------------------------------------------------------
(* Reporting how a request went.                                           *)

Holds(r, k) == k # None /\ req[r].key = k
Release(r)  == req' = [ req EXCEPT ![r] = Idle ]

ReportSuccess(r, k) ==
  /\ Holds(r, k)
  /\ key' = [ key EXCEPT ![k] = Worked(@) ]
  /\ breaker' = IF BreakerFactory THEN [ breaker EXCEPT ![k] = RecordSuccess(@) ] ELSE breaker
  /\ seen' = [ seen EXCEPT ![k] =
                 IF key[k].status = "QUOTA_EXCEEDED" THEN Nothing
                 ELSE [ @ EXCEPT !.spent = FALSE ] ]
  /\ Release(r)

\* A built-in provider's request sends again with the key it holds, up to
\* SameKeyRetries times, although the report has just put the key to rest.
ReportRateLimit(r, k, retryAfter) ==
  /\ Holds(r, k)
  /\ key' = [ key EXCEPT ![k] = RateLimited(@, Tier[k], retryAfter) ]
  /\ seen' = [ seen EXCEPT ![k].rest = Cooling(retryAfter),
                           ![k].spent = IF Escalates(key[k], Tier[k]) THEN TRUE ELSE @ ]
  /\ \/ Release(r)
     \/ /\ req[r].resends < SameKeyRetries
        /\ req' = [ req EXCEPT ![r].resends = @ + 1 ]
  /\ UNCHANGED breaker

\* ReportError for an error that disturbs nothing but the breaker, if at all:
\* TripsBreaker and RecordFailure count the same types.
ReportFailure(r, k, errType) ==
  /\ Holds(r, k)
  /\ errType \notin { "auth", "quota_exceeded" }
  /\ breaker' = IF BreakerFactory THEN [ breaker EXCEPT ![k] = RecordFailure(@, errType) ]
                ELSE breaker
  /\ Release(r)
  /\ UNCHANGED << key, seen >>

ReportAuth(r, k) ==
  /\ Holds(r, k) /\ "auth" \in ErrorType
  /\ key' = [ key EXCEPT ![k] = Cooled(@, AuthCooling) ]
  /\ seen' = [ seen EXCEPT ![k].rest = AuthCooling ]
  /\ Release(r)
  /\ UNCHANGED breaker

\* Without a balancer nobody would ever restore the key: it is not marked.
ReportQuota(r, k) ==
  /\ Holds(r, k) /\ "quota_exceeded" \in ErrorType
  /\ IF QuotaRecovery = "probe"
     THEN UNCHANGED << key, seen >>
     ELSE /\ key' = [ key EXCEPT ![k] = QuotaExceeded(@) ]
          /\ seen' = [ seen EXCEPT ![k].spent = TRUE ]
  /\ Release(r)
  /\ UNCHANGED breaker

-----------------------------------------------------------------------------
(* What the quota checker and the clock do.                                *)

ReportQuotaExceeded(k) ==
  /\ key' = [ key EXCEPT ![k] = QuotaExceeded(@) ]
  /\ seen' = [ seen EXCEPT ![k].spent = TRUE ]
  /\ UNCHANGED << breaker, req >>

RestoreQuota(k) ==
  /\ key' = [ key EXCEPT ![k] = QuotaRestored(@) ]
  /\ seen' = [ seen EXCEPT ![k] = Nothing ]
  /\ UNCHANGED << breaker, req >>

ResetCooling(k) ==
  /\ key' = [ key EXCEPT ![k].coolingCount = 0 ]
  /\ UNCHANGED << breaker, req, seen >>

\* MutateKey as the poll uses it: to record a balance and when it was read ...
WriteBalance(k, low) ==
  /\ key' = [ key EXCEPT ![k].polled = TRUE, ![k].low = low ]
  /\ UNCHANGED << breaker, req, seen >>

\* ... and to lift an expired cool-down that no request has asked about.
LiftCooling(k) ==
  /\ key' = [ key EXCEPT ![k] = Awake(@) ]
  /\ UNCHANGED << breaker, req, seen >>

Less(n) == IF n > 0 THEN n - 1 ELSE 0

Tick ==
  /\ key' = [ k \in Key |-> [ key[k] EXCEPT !.cooling = Less(@) ] ]
  /\ breaker' = [ k \in Key |-> Elapse(breaker[k]) ]
  /\ seen' = [ k \in Key |-> [ seen[k] EXCEPT !.rest = Less(@) ] ]
  /\ UNCHANGED req

-----------------------------------------------------------------------------

Eligible == Binding \cup { b \ {k} : b \in Binding, k \in Key }

Acquire(tier) == \E r \in Request, e \in Eligible : AcquireFromTier(r, tier, e)

Report(r) ==
  \E k \in Key :
    \/ ReportSuccess(r, k)
    \/ \E d \in RetryAfter : ReportRateLimit(r, k, d)
    \/ \E e \in ErrorType : ReportFailure(r, k, e)
    \/ ReportAuth(r, k)
    \/ ReportQuota(r, k)

\* The quota checker marks and restores keys on evidence of its own, which is
\* unconstrained here and modelled in QuotaCheck.
CheckQuota ==
  \E k \in Key : \/ ReportQuotaExceeded(k) \/ RestoreQuota(k)
                 \/ ResetCooling(k) \/ LiftCooling(k)
                 \/ \E low \in BOOLEAN : WriteBalance(k, low)

Next ==
  \/ \E tier \in Tiers : Acquire(tier)
  \/ \E r \in Request : Report(r)
  \/ CheckQuota
  \/ Tick

Spec == Init /\ [][Next]_vars

\* The requests alone: the quota checker polls once a minute at the most.
RequestSpec ==
  Init /\ [][ (\E tier \in Tiers : Acquire(tier)) \/ (\E r \in Request : Report(r)) \/ Tick ]_vars

\* Requests keep asking for every tier the pool has, time passes, every attempt
\* ends (the candidate's deadline bounds it) and one that ends is reported.
Fairness ==
  /\ WF_vars(Tick)
  /\ \A tier \in { Tier[k] : k \in Key } : WF_vars(Acquire(tier))
  /\ \A r \in Request : WF_vars(Report(r))

FairSpec == RequestSpec /\ Fairness

-----------------------------------------------------------------------------

\* Nothing the pool was told speaks against k: the last cool-down has run out,
\* quota was shown since any was found spent, and its breaker is not tripped.
Healthy(k) ==
  /\ seen[k].rest = 0 /\ ~seen[k].spent
  /\ ~IsPolledAndExhausted(key[k])
  /\ BreakerFactory => breaker[k].state = "CLOSED"

\* No key is kept out without a cause that still stands: a request that asks for
\* a tier in which a healthy key is eligible gets a key, and a sticky pool gives
\* it none of lower priority than a healthy one; whatever it gets is eligible,
\* of that tier and not known to be exhausted.
HighestPriority ==
  [][ \A r \in Request, tier \in Tiers, e \in Eligible :
        AcquireFromTier(r, tier, e) =>
          LET good == { k \in e : Tier[k] = tier /\ Healthy(k) } IN
          /\ good # {} => req'[r].key # None
          /\ req'[r].key # None =>
               /\ req'[r].key \in e /\ Tier[req'[r].key] = tier
               /\ ~IsPolledAndExhausted(key[req'[r].key])
               /\ Strategy = "sticky" => \A j \in good : ~Before(j, req'[r].key) ]_vars

Acquired(r, k) == req[r].key = None /\ req'[r].key = k

\* The cool-down of the last 429 or auth error runs out before anybody else is
\* given the key, whatever the requests still holding it report: only a restored
\* quota cuts it short.
CoolDownHonoured ==
  [][ \A r \in Request, k \in Key : Acquired(r, k) => seen[k].rest = 0 ]_vars

\* A tripped key's trials decide: it does not stay HALF_OPEN for ever.
TrippedKeyReturns ==
  \A k \in Key : breaker[k].state = "HALF_OPEN" ~> breaker[k].state # "HALF_OPEN"
=============================================================================
