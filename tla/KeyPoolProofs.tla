---------------------------- MODULE KeyPoolProofs ----------------------------
(***************************************************************************)
(* Proofs about KeyPool, for every order, tiering and binding of the keys, *)
(* any requests and every cool-down the configuration or the upstream      *)
(* asks for; then about QuotaCheck, which does to the pool only what       *)
(* KeyPool allows, so that whatever is proved of every pool holds of the   *)
(* pool the checker works on, whatever its workers have read and however   *)
(* late they act.                                                          *)
(***************************************************************************)
EXTENDS QuotaCheck, BreakerProofs

-----------------------------------------------------------------------------
(* The operators on one key.                                               *)

\* Every report leaves a well-formed key.
LEMMA KeyTyped ==
  ASSUME NEW k \in KeyType, NEW ticks \in Nat, NEW tier, NEW d \in Nat
  PROVE  /\ Awake(k) \in KeyType
         /\ Cooled(k, ticks) \in KeyType
         /\ QuotaExceeded(k) \in KeyType
         /\ QuotaRestored(k) \in KeyType
         /\ Worked(k) \in KeyType
         /\ Cooling(d) \in Nat
         /\ RateLimited(k, tier, d) \in KeyType
<1> USE DEF KeyType, KeyStatus
<1>1. Cooling(d) \in Nat
  <2>1. CoolingDuration \in Nat
    BY PoolConfig
  <2>2. QED
    BY <2>1 DEF Cooling
<1>2. Awake(k) \in KeyType
  <2>1. [ k EXCEPT !.status = "ACTIVE" ] \in KeyType
    OBVIOUS
  <2>2. QED
    BY <2>1 DEF Awake
<1>3. ASSUME NEW n \in Nat PROVE Cooled(k, n) \in KeyType
  BY DEF Cooled
<1>4. QuotaExceeded(k) \in KeyType
  BY DEF QuotaExceeded
<1>5. QuotaRestored(k) \in KeyType
  BY DEF QuotaRestored
<1>6. Worked(k) \in KeyType
  <2>1. [ QuotaRestored(k) EXCEPT !.coolingCount = 0 ] \in KeyType
    BY <1>5
  <2>2. QED
    BY <2>1 DEF Worked
<1> DEFINE limited == [ Cooled(k, Cooling(d)) EXCEPT !.coolingCount = Saturated(@ + 1, 3) ]
<1>7. limited \in KeyType
  <2> DEFINE c == Cooled(k, Cooling(d))
  <2>1. c \in KeyType
    BY <1>1, <1>3
  <2> HIDE DEF c
  <2>2. Saturated(c.coolingCount + 1, 3) \in 0 .. 3
    BY <2>1 DEF Saturated
  <2>3. [ c EXCEPT !.coolingCount = Saturated(@ + 1, 3) ] \in KeyType
    BY <2>1, <2>2
  <2>4. QED
    BY <2>3 DEF c
<1>8. RateLimited(k, tier, d) = limited \/ RateLimited(k, tier, d) = QuotaExceeded(limited)
  BY DEF RateLimited
<1> HIDE DEF limited
<1>9. QuotaExceeded(limited) \in KeyType
  BY <1>7 DEF QuotaExceeded
<1>10. QED
  BY <1>1, <1>2, <1>3, <1>4, <1>5, <1>6, <1>7, <1>8, <1>9

\* What the history records of a report is well-formed.
LEMMA SeenTyped ==
  ASSUME NEW s \in SeenType, NEW n \in Nat, NEW b
  PROVE  /\ [ s EXCEPT !.spent = FALSE ] \in SeenType
         /\ [ s EXCEPT !.rest = n, !.spent = IF b THEN TRUE ELSE @ ] \in SeenType
         /\ [ s EXCEPT !.rest = n ] \in SeenType
         /\ [ s EXCEPT !.spent = TRUE ] \in SeenType
         /\ [ s EXCEPT !.rest = Less(@) ] \in SeenType
         /\ Nothing \in SeenType
<1> USE DEF SeenType
<1>1. Less(s.rest) \in Nat
  BY DEF Less
<1>2. [ s EXCEPT !.rest = n, !.spent = IF b THEN TRUE ELSE @ ] \in SeenType
  <2> DEFINE t == [ s EXCEPT !.rest = n ]
  <2>1. t \in SeenType
    OBVIOUS
  <2> HIDE DEF t
  <2>2. [ t EXCEPT !.spent = TRUE ] \in SeenType
    BY <2>1
  <2>3. CASE b
    BY <2>2, <2>3 DEF t
  <2>4. CASE ~b
    <3>1. [ s EXCEPT !.rest = n, !.spent = s.spent ] = t
      BY DEF t
    <3>2. QED
      BY <2>1, <2>4, <3>1
  <2>5. QED
    BY <2>3, <2>4
<1>3. [ s EXCEPT !.rest = Less(@) ] \in SeenType
  BY <1>1
<1>4. QED
  BY <1>2, <1>3 DEF Nothing

-----------------------------------------------------------------------------
(* Type correctness.                                                       *)

\* The fresh pool is well-formed.
LEMMA InitTypeOK == Init => TypeOK
<1> SUFFICES ASSUME Init PROVE TypeOK
  OBVIOUS
<1>1. New \in BreakerType
  <2>1. <<>> \in Seq(0 .. FailureWindow)
    OBVIOUS
  <2>2. QED
    BY <2>1, BreakerConfig DEF New, BreakerType, State
<1>2. Fresh \in KeyType /\ Nothing \in SeenType
  BY DEF Fresh, Nothing, KeyType, KeyStatus, SeenType
<1>3. Idle \in [ key : Key \cup {None}, resends : 0 .. SameKeyRetries ]
  BY PoolConfig DEF Idle
<1>4. QED
  BY <1>1, <1>2, <1>3 DEF Init, TypeOK

\* Every step keeps the pool well-formed.
LEMMA NextTypeOK == TypeOK /\ [Next]_vars => TypeOK'
<1> SUFFICES ASSUME TypeOK, [Next]_vars PROVE TypeOK'
  OBVIOUS
<1> USE DEF TypeOK
<1> DEFINE ReqType == [ key : Key \cup {None}, resends : 0 .. SameKeyRetries ]
<1>1. Idle \in ReqType
  BY PoolConfig DEF Idle
<1>2. AuthCooling \in Nat /\ RetryAfter \subseteq Nat /\ SameKeyRetries \in Nat
  BY PoolConfig
<1>3. ASSUME NEW k \in Key PROVE key[k] \in KeyType /\ breaker[k] \in BreakerType /\ seen[k] \in SeenType
  OBVIOUS
<1>4. ASSUME NEW r \in Request, Release(r) PROVE req' \in [ Request -> ReqType ]
  BY <1>1, <1>4 DEF Release
<1> HIDE DEF ReqType
<1>5. TypeOK' = /\ key' \in [ Key -> KeyType ]
                /\ breaker' \in [ Key -> BreakerType ]
                /\ req' \in [ Request -> ReqType ]
                /\ seen' \in [ Key -> SeenType ]
  BY DEF ReqType
<1>6. ASSUME NEW k \in Key, NEW x \in KeyType PROVE [ key EXCEPT ![k] = x ] \in [ Key -> KeyType ]
  OBVIOUS
<1>7. ASSUME NEW k \in Key, NEW x \in BreakerType
      PROVE  [ breaker EXCEPT ![k] = x ] \in [ Key -> BreakerType ]
  OBVIOUS
<1>8. ASSUME NEW k \in Key, NEW x \in SeenType PROVE [ seen EXCEPT ![k] = x ] \in [ Key -> SeenType ]
  OBVIOUS
<1>9. ASSUME NEW r \in Request, NEW tier \in Tiers, NEW e \in Eligible, AcquireFromTier(r, tier, e)
      PROVE  TypeOK'
  <2>1. key' \in [ Key -> KeyType ]
    BY <1>3, <1>9, KeyTyped DEF AcquireFromTier
  <2>2. breaker' \in [ Key -> BreakerType ]
    BY <1>3, <1>9, BreakerTyped DEF AcquireFromTier
  <2>3. req' \in [ Request -> ReqType ]
    <3>1. e \subseteq Key
      BY PoolConfig DEF Eligible
    <3>2. ASSUME NEW k \in Select(Bucket(tier, e)) PROVE k \in Key
      BY <3>1, <3>2 DEF Select, Bucket, Admitted, Usable
    <3>3. QED
      BY <1>9, <3>2 DEF AcquireFromTier, ReqType
  <2>4. QED
    BY <1>5, <1>9, <2>1, <2>2, <2>3 DEF AcquireFromTier
<1>10. ASSUME NEW r \in Request, NEW k \in Key, ReportSuccess(r, k) PROVE TypeOK'
  <2>1. key' \in [ Key -> KeyType ]
    BY <1>3, <1>6, <1>10, KeyTyped DEF ReportSuccess
  <2>2. breaker' \in [ Key -> BreakerType ]
    BY <1>3, <1>7, <1>10, BreakerTyped DEF ReportSuccess
  <2>3. seen' \in [ Key -> SeenType ]
    BY <1>3, <1>8, <1>10, SeenTyped DEF ReportSuccess
  <2>4. QED
    BY <1>4, <1>5, <1>10, <2>1, <2>2, <2>3 DEF ReportSuccess
<1>11. ASSUME NEW r \in Request, NEW k \in Key, NEW d \in RetryAfter, ReportRateLimit(r, k, d)
       PROVE  TypeOK'
  <2>1. d \in Nat /\ Cooling(d) \in Nat
    BY <1>2, <1>3, KeyTyped
  <2>2. key' \in [ Key -> KeyType ]
    BY <1>3, <1>6, <1>11, <2>1, KeyTyped DEF ReportRateLimit
  <2>3. [ seen[k] EXCEPT !.rest = Cooling(d),
                         !.spent = IF Escalates(key[k], Tier[k]) THEN TRUE ELSE @ ] \in SeenType
    BY <1>3, <2>1, SeenTyped
  <2>4. seen' = [ seen EXCEPT ![k] =
                    [ seen[k] EXCEPT !.rest = Cooling(d),
                                     !.spent = IF Escalates(key[k], Tier[k]) THEN TRUE ELSE @ ] ]
    BY <1>11 DEF ReportRateLimit
  <2>5. req' \in [ Request -> ReqType ]
    <3>1. CASE Release(r)
      BY <1>4, <3>1
    <3>2. CASE /\ req[r].resends < SameKeyRetries
               /\ req' = [ req EXCEPT ![r].resends = @ + 1 ]
      <4>1. req[r] \in ReqType /\ req[r].resends + 1 \in 0 .. SameKeyRetries
        BY <1>2, <3>2 DEF ReqType
      <4>2. [ req[r] EXCEPT !.resends = @ + 1 ] \in ReqType
        BY <4>1 DEF ReqType
      <4>3. QED
        BY <3>2, <4>2 DEF ReqType
    <3>3. QED
      BY <1>11, <3>1, <3>2 DEF ReportRateLimit
  <2>6. QED
    BY <1>5, <1>8, <1>11, <2>2, <2>3, <2>4, <2>5 DEF ReportRateLimit
<1>12. ASSUME NEW r \in Request, NEW k \in Key, NEW e \in ErrorType, ReportFailure(r, k, e)
       PROVE  TypeOK'
  <2>1. breaker' \in [ Key -> BreakerType ]
    BY <1>3, <1>7, <1>12, BreakerTyped DEF ReportFailure
  <2>2. QED
    BY <1>4, <1>5, <1>12, <2>1 DEF ReportFailure
<1>13. ASSUME NEW r \in Request, NEW k \in Key, ReportAuth(r, k) PROVE TypeOK'
  <2>1. key' \in [ Key -> KeyType ]
    BY <1>2, <1>3, <1>6, <1>13, KeyTyped DEF ReportAuth
  <2>2. [ seen[k] EXCEPT !.rest = AuthCooling ] \in SeenType
    BY <1>2, <1>3, SeenTyped
  <2>3. seen' = [ seen EXCEPT ![k] = [ seen[k] EXCEPT !.rest = AuthCooling ] ]
    BY <1>13 DEF ReportAuth
  <2>4. QED
    BY <1>4, <1>5, <1>8, <1>13, <2>1, <2>2, <2>3 DEF ReportAuth
<1>14. ASSUME NEW k \in Key, seen' = [ seen EXCEPT ![k].spent = TRUE ]
       PROVE  seen' \in [ Key -> SeenType ]
  <2>1. [ seen[k] EXCEPT !.spent = TRUE ] \in SeenType
    BY <1>3, SeenTyped
  <2>2. seen' = [ seen EXCEPT ![k] = [ seen[k] EXCEPT !.spent = TRUE ] ]
    BY <1>14
  <2>3. QED
    BY <1>8, <2>1, <2>2
<1>15. ASSUME NEW r \in Request, NEW k \in Key, ReportQuota(r, k) PROVE TypeOK'
  <2>1. CASE QuotaRecovery = "probe"
    BY <1>4, <1>5, <1>15, <2>1 DEF ReportQuota
  <2>2. CASE QuotaRecovery # "probe"
    <3>1. key' \in [ Key -> KeyType ]
      <4>1. QuotaExceeded(key[k]) \in KeyType
        BY <1>2, <1>3, KeyTyped
      <4>2. key' = [ key EXCEPT ![k] = QuotaExceeded(key[k]) ]
        BY <1>15, <2>2 DEF ReportQuota
      <4>3. QED
        BY <1>6, <4>1, <4>2
    <3>2. QED
      BY <1>4, <1>5, <1>14, <1>15, <2>2, <3>1 DEF ReportQuota
  <2>3. QED
    BY <2>1, <2>2
<1>16. CASE CheckQuota
  <2>1. PICK k \in Key : \/ ReportQuotaExceeded(k) \/ RestoreQuota(k)
                         \/ ResetCooling(k) \/ LiftCooling(k)
                         \/ \E low \in BOOLEAN : WriteBalance(k, low)
    BY <1>16 DEF CheckQuota
  <2>2. CASE ReportQuotaExceeded(k)
    <3>1. key' \in [ Key -> KeyType ]
      BY <1>3, <1>6, <2>2, KeyTyped DEF ReportQuotaExceeded
    <3>2. QED
      BY <1>5, <1>14, <2>2, <3>1 DEF ReportQuotaExceeded, ReqType
  <2>3. CASE RestoreQuota(k)
    <3>1. key' \in [ Key -> KeyType ]
      BY <1>3, <1>6, <2>3, KeyTyped DEF RestoreQuota
    <3>2. seen' \in [ Key -> SeenType ]
      BY <1>3, <1>8, <2>3, SeenTyped DEF RestoreQuota
    <3>3. QED
      BY <1>5, <2>3, <3>1, <3>2 DEF RestoreQuota, ReqType
  <2>4. ASSUME NEW x, x \in 0 .. 3, key' = [ key EXCEPT ![k].coolingCount = x ]
        PROVE  key' \in [ Key -> KeyType ]
    <3>1. [ key[k] EXCEPT !.coolingCount = x ] \in KeyType
      BY <1>3, <2>4 DEF KeyType
    <3>2. key' = [ key EXCEPT ![k] = [ key[k] EXCEPT !.coolingCount = x ] ]
      BY <2>4
    <3>3. QED
      BY <1>6, <3>1, <3>2
  <2>5. ASSUME NEW x \in BOOLEAN, key' = [ key EXCEPT ![k].polled = TRUE, ![k].low = x ]
        PROVE  key' \in [ Key -> KeyType ]
    <3> DEFINE t == [ key[k] EXCEPT !.polled = TRUE ]
    <3>1. t \in KeyType
      BY <1>3 DEF KeyType
    <3> HIDE DEF t
    <3>2. [ t EXCEPT !.low = x ] \in KeyType
      BY <3>1 DEF KeyType
    <3>3. key' = [ key EXCEPT ![k] = [ t EXCEPT !.low = x ] ]
      BY <1>3, <2>5 DEF t
    <3>4. QED
      BY <1>6, <3>2, <3>3
  <2>6. CASE ResetCooling(k)
    <3>1. key' = [ key EXCEPT ![k].coolingCount = 0 ] /\ 0 \in 0 .. 3
      BY <2>6 DEF ResetCooling
    <3>2. key' \in [ Key -> KeyType ]
      BY <2>4, <3>1
    <3>3. QED
      BY <1>5, <2>6, <3>2 DEF ResetCooling, ReqType
  <2>7. CASE \E low \in BOOLEAN : WriteBalance(k, low)
    BY <1>5, <2>5, <2>7 DEF WriteBalance, ReqType
  <2>8. CASE LiftCooling(k)
    <3>1. Awake(key[k]) \in KeyType
      BY <1>3, KeyTyped
    <3>2. QED
      BY <1>5, <1>6, <2>8, <3>1 DEF LiftCooling, ReqType
  <2>9. QED
    BY <2>1, <2>2, <2>3, <2>6, <2>7, <2>8
<1>17. CASE Tick
  <2>1. ASSUME NEW k \in Key PROVE [ key[k] EXCEPT !.cooling = Less(@) ] \in KeyType
    <3>1. Less(key[k].cooling) \in Nat
      BY <1>3 DEF Less, KeyType
    <3>2. QED
      BY <1>3, <3>1 DEF KeyType
  <2>2. key' \in [ Key -> KeyType ]
    BY <1>17, <2>1 DEF Tick
  <2>3. breaker' \in [ Key -> BreakerType ]
    BY <1>3, <1>17, BreakerTyped DEF Tick
  <2>4. ASSUME NEW k \in Key PROVE [ seen[k] EXCEPT !.rest = Less(@) ] \in SeenType
    BY <1>2, <1>3, SeenTyped
  <2>5. seen' \in [ Key -> SeenType ]
    BY <1>17, <2>4 DEF Tick
  <2>6. QED
    BY <1>5, <1>17, <2>2, <2>3, <2>5 DEF Tick, ReqType
<1>18. CASE UNCHANGED vars
  BY <1>18 DEF vars
<1>19. QED
  BY <1>9, <1>10, <1>11, <1>12, <1>13, <1>15, <1>16, <1>17, <1>18 DEF Next, Acquire, Report

\* The keys, their breakers and the requests stay within their types.
THEOREM TypeCorrect == Spec => []TypeOK
  BY InitTypeOK, NextTypeOK, PTL DEF Spec

-----------------------------------------------------------------------------
(* Why a key is not handed out.                                            *)

\* The cause of a key's absence is the one last reported: its rest is over when
\* the key is ACTIVE, as long as the key's own while it is COOLING, and its quota
\* was found spent when it is QUOTA_EXCEEDED.
CauseInv ==
  \A k \in Key :
    /\ key[k].status = "ACTIVE" => seen[k].rest = 0
    /\ key[k].status = "COOLING" => seen[k].rest = key[k].cooling
    /\ key[k].status = "QUOTA_EXCEEDED" => seen[k].spent

\* What each operator makes of the status and the cool-down.
LEMMA StatusAfter ==
  ASSUME NEW k \in KeyType, NEW n \in Nat, NEW tier, NEW d
  PROVE  /\ Awake(k).status = "ACTIVE" =>
              k.status = "ACTIVE" \/ (k.status = "COOLING" /\ k.cooling = 0)
         /\ Awake(k).status = "COOLING" => k.status = "COOLING" /\ Awake(k) = k
         /\ Awake(k).status = "QUOTA_EXCEEDED" => k.status = "QUOTA_EXCEEDED"
         /\ Cooled(k, n).status = "COOLING" /\ Cooled(k, n).cooling = n
         /\ QuotaExceeded(k).status = "QUOTA_EXCEEDED"
         /\ k.status # "QUOTA_EXCEEDED" => Worked(k) = k
         /\ \/ RateLimited(k, tier, d).status = "QUOTA_EXCEEDED" /\ Escalates(k, tier)
            \/ /\ RateLimited(k, tier, d).status = "COOLING"
               /\ RateLimited(k, tier, d).cooling = Cooling(d)
<1> USE DEF KeyType, KeyStatus
<1>1. /\ Awake(k).status = "ACTIVE" =>
              k.status = "ACTIVE" \/ (k.status = "COOLING" /\ k.cooling = 0)
      /\ Awake(k).status = "COOLING" => k.status = "COOLING" /\ Awake(k) = k
      /\ Awake(k).status = "QUOTA_EXCEEDED" => k.status = "QUOTA_EXCEEDED"
  BY DEF Awake
<1>2. Cooled(k, n).status = "COOLING" /\ Cooled(k, n).cooling = n
  BY DEF Cooled
<1>3. QuotaExceeded(k).status = "QUOTA_EXCEEDED"
  BY DEF QuotaExceeded
<1>4. k.status # "QUOTA_EXCEEDED" => Worked(k) = k
  BY DEF Worked
<1> DEFINE limited == [ Cooled(k, Cooling(d)) EXCEPT !.coolingCount = Saturated(@ + 1, 3) ]
<1>5. limited.status = "COOLING" /\ limited.cooling = Cooling(d)
  BY DEF Cooled
<1>6. QuotaExceeded(limited).status = "QUOTA_EXCEEDED"
  BY DEF QuotaExceeded, Cooled
<1>7. \/ RateLimited(k, tier, d) = limited
      \/ RateLimited(k, tier, d) = QuotaExceeded(limited) /\ Escalates(k, tier)
  BY DEF RateLimited
<1> HIDE DEF limited
<1>8. QED
  BY <1>1, <1>2, <1>3, <1>4, <1>5, <1>6, <1>7

\* Every step keeps key and history in step.
LEMMA NextCause == TypeOK /\ CauseInv /\ [Next]_vars => CauseInv'
<1> SUFFICES ASSUME TypeOK, CauseInv, [Next]_vars, NEW j \in Key
             PROVE  /\ key'[j].status = "ACTIVE" => seen'[j].rest = 0
                    /\ key'[j].status = "COOLING" => seen'[j].rest = key'[j].cooling
                    /\ key'[j].status = "QUOTA_EXCEEDED" => seen'[j].spent
  BY DEF CauseInv
<1> DEFINE Goal == /\ key'[j].status = "ACTIVE" => seen'[j].rest = 0
                   /\ key'[j].status = "COOLING" => seen'[j].rest = key'[j].cooling
                   /\ key'[j].status = "QUOTA_EXCEEDED" => seen'[j].spent
<1>1. ASSUME NEW k \in Key PROVE key[k] \in KeyType /\ seen[k] \in SeenType
  BY DEF TypeOK
<1>2. key \in [ Key -> KeyType ] /\ seen \in [ Key -> SeenType ]
  BY DEF TypeOK
<1>3. /\ key[j].status = "ACTIVE" => seen[j].rest = 0
      /\ key[j].status = "COOLING" => seen[j].rest = key[j].cooling
      /\ key[j].status = "QUOTA_EXCEEDED" => seen[j].spent
  BY DEF CauseInv
<1>4. ASSUME NEW r \in Request, NEW tier \in Tiers, NEW e \in Eligible, AcquireFromTier(r, tier, e)
      PROVE  Goal
  <2>1. key'[j] = Awake(key[j]) /\ seen'[j] = seen[j]
    BY <1>4 DEF AcquireFromTier
  <2>2. /\ Awake(key[j]).status = "ACTIVE" =>
             key[j].status = "ACTIVE" \/ (key[j].status = "COOLING" /\ key[j].cooling = 0)
        /\ Awake(key[j]).status = "COOLING" =>
             key[j].status = "COOLING" /\ Awake(key[j]) = key[j]
        /\ Awake(key[j]).status = "QUOTA_EXCEEDED" => key[j].status = "QUOTA_EXCEEDED"
    BY <1>1, StatusAfter
  <2>3. QED
    BY <1>3, <2>1, <2>2
<1>5. ASSUME NEW r \in Request, NEW k \in Key, ReportSuccess(r, k) PROVE Goal
  <2>1. CASE j = k /\ key[k].status = "QUOTA_EXCEEDED"
    <3>1. seen'[j] = Nothing /\ key'[j] = Worked(key[k])
      BY <1>2, <1>5, <2>1 DEF ReportSuccess
    <3>2. Worked(key[k]).status = "ACTIVE"
      BY <1>1, <2>1 DEF Worked, QuotaRestored, KeyType
    <3>3. QED
      BY <3>1, <3>2 DEF Nothing
  <2>2. CASE j = k /\ key[k].status # "QUOTA_EXCEEDED"
    <3>1. /\ key'[j] = Worked(key[k])
          /\ seen'[j] = [ seen[k] EXCEPT !.spent = FALSE ]
      BY <1>2, <1>5, <2>2 DEF ReportSuccess
    <3>2. Worked(key[k]) = key[k]
      BY <2>2 DEF Worked
    <3>3. seen'[j].rest = seen[k].rest
      BY <1>1, <3>1 DEF SeenType
    <3>4. QED
      BY <1>3, <2>2, <3>1, <3>2, <3>3
  <2>3. CASE j # k
    BY <1>2, <1>3, <1>5, <2>3 DEF ReportSuccess
  <2>4. QED
    BY <2>1, <2>2, <2>3
<1>6. ASSUME NEW r \in Request, NEW k \in Key, NEW d \in RetryAfter, ReportRateLimit(r, k, d)
      PROVE  Goal
  <2>1. CASE j = k
    <3>1. key'[j] = RateLimited(key[k], Tier[k], d) /\ seen'[j].rest = Cooling(d)
      BY <1>1, <1>2, <1>6, <2>1 DEF ReportRateLimit, SeenType
    <3>2. \/ key'[j].status = "QUOTA_EXCEEDED" /\ Escalates(key[k], Tier[k])
          \/ key'[j].status = "COOLING" /\ key'[j].cooling = Cooling(d)
      BY <1>1, <3>1, StatusAfter
    <3>3. Escalates(key[k], Tier[k]) => seen'[j].spent
      BY <1>1, <1>2, <1>6, <2>1 DEF ReportRateLimit, SeenType
    <3>4. QED
      BY <3>1, <3>2, <3>3
  <2>2. CASE j # k
    BY <1>2, <1>3, <1>6, <2>2 DEF ReportRateLimit
  <2>3. QED
    BY <2>1, <2>2
<1>7. ASSUME NEW r \in Request, NEW k \in Key, ReportAuth(r, k) PROVE Goal
  <2>1. CASE j = k
    <3>1. key'[j] = Cooled(key[k], AuthCooling) /\ seen'[j].rest = AuthCooling
      BY <1>1, <1>2, <1>7, <2>1 DEF ReportAuth, SeenType
    <3>2. AuthCooling \in Nat
      BY PoolConfig
    <3>3. key'[j].status = "COOLING" /\ key'[j].cooling = AuthCooling
      BY <1>1, <3>1, <3>2, StatusAfter
    <3>4. QED
      BY <3>1, <3>3
  <2>2. CASE j # k
    BY <1>2, <1>3, <1>7, <2>2 DEF ReportAuth
  <2>3. QED
    BY <2>1, <2>2
<1>8. ASSUME NEW k \in Key, key' = [ key EXCEPT ![k] = QuotaExceeded(@) ],
             seen' = [ seen EXCEPT ![k].spent = TRUE ]
      PROVE  Goal
  <2>1. CASE j = k
    <3>1. key'[j].status = "QUOTA_EXCEEDED" /\ seen'[j].spent
      BY <1>2, <1>8, <2>1, <1>1 DEF QuotaExceeded, KeyType, SeenType
    <3>2. QED
      BY <3>1
  <2>2. CASE j # k
    BY <1>2, <1>3, <1>8, <2>2
  <2>3. QED
    BY <2>1, <2>2
<1>9. CASE CheckQuota
  <2>1. PICK k \in Key : \/ ReportQuotaExceeded(k) \/ RestoreQuota(k)
                         \/ ResetCooling(k) \/ LiftCooling(k)
                         \/ \E low \in BOOLEAN : WriteBalance(k, low)
    BY <1>9 DEF CheckQuota
  <2>2. CASE ReportQuotaExceeded(k)
    BY <1>8, <2>2 DEF ReportQuotaExceeded
  <2>3. CASE RestoreQuota(k)
    BY <1>1, <1>2, <1>3, <2>3 DEF RestoreQuota, QuotaRestored, Nothing, KeyType
  <2>4. CASE ResetCooling(k)
    BY <1>1, <1>2, <1>3, <2>4 DEF ResetCooling, KeyType
  <2>5. CASE \E low \in BOOLEAN : WriteBalance(k, low)
    BY <1>1, <1>2, <1>3, <2>5 DEF WriteBalance, KeyType
  <2>6. CASE LiftCooling(k)
    <3>1. seen'[j] = seen[j] /\ (key'[j] = key[j] \/ key'[j] = Awake(key[j]))
      BY <1>2, <2>6 DEF LiftCooling
    <3>2. QED
      BY <1>1, <1>3, <3>1 DEF Awake, KeyType
  <2>7. QED
    BY <2>1, <2>2, <2>3, <2>4, <2>5, <2>6
<1>10. CASE Tick
  <2>1. /\ key'[j].status = key[j].status /\ key'[j].cooling = Less(key[j].cooling)
        /\ seen'[j].rest = Less(seen[j].rest) /\ seen'[j].spent = seen[j].spent
    BY <1>1, <1>10 DEF Tick, KeyType, SeenType
  <2>2. QED
    BY <1>3, <2>1 DEF Less
<1>11. CASE key' = key /\ seen' = seen
  BY <1>3, <1>11
<1>12. ASSUME NEW r \in Request, NEW k \in Key, ReportQuota(r, k) PROVE Goal
  BY <1>8, <1>11, <1>12 DEF ReportQuota
<1>13. ASSUME NEW r \in Request, NEW k \in Key, NEW e \in ErrorType, ReportFailure(r, k, e)
       PROVE  Goal
  BY <1>11, <1>13 DEF ReportFailure
<1>14. CASE UNCHANGED vars
  BY <1>11, <1>14 DEF vars
<1>15. QED
  BY <1>4, <1>5, <1>6, <1>7, <1>9, <1>10, <1>12, <1>13, <1>14 DEF Next, Acquire, Report

\* They agree in every reachable state.
LEMMA CauseCorrect == Spec => [](TypeOK /\ CauseInv)
<1>1. Init => CauseInv
  BY DEF Init, CauseInv, Fresh, Nothing
<1>2. QED
  BY <1>1, InitTypeOK, NextTypeOK, NextCause, PTL DEF Spec

-----------------------------------------------------------------------------
(* Acquisitions.                                                           *)

\* A key is handed out by acquireFromTierLocked alone, and only a usable one.
LEMMA AcquiredUsable ==
  ASSUME TypeOK, [Next]_vars, NEW r \in Request, NEW k \in Key, Acquired(r, k)
  PROVE  \E tier \in Tiers, e \in Eligible :
           AcquireFromTier(r, tier, e) /\ k \in Bucket(tier, e)
<1>1. k # None /\ req[r].key = None /\ req'[r].key = k
  BY PoolConfig DEF Acquired
<1>2. req \in [ Request -> [ key : Key \cup {None}, resends : 0 .. SameKeyRetries ] ]
  BY DEF TypeOK
<1>3. ASSUME NEW s \in Request, Release(s) PROVE FALSE
  BY <1>1, <1>2, <1>3 DEF Release, Idle
<1>4. ASSUME NEW s \in Request, Report(s) PROVE FALSE
  <2>1. PICK j \in Key : \/ ReportSuccess(s, j)
                         \/ \E d \in RetryAfter : ReportRateLimit(s, j, d)
                         \/ \E e \in ErrorType : ReportFailure(s, j, e)
                         \/ ReportAuth(s, j)
                         \/ ReportQuota(s, j)
    BY <1>4 DEF Report
  <2>2. CASE \E d \in RetryAfter : ReportRateLimit(s, j, d)
    <3>1. ASSUME req' = [ req EXCEPT ![s].resends = @ + 1 ] PROVE FALSE
      BY <1>1, <1>2, <3>1
    <3>2. QED
      BY <1>3, <2>2, <3>1 DEF ReportRateLimit
  <2>3. QED
    BY <1>3, <2>1, <2>2 DEF ReportSuccess, ReportFailure, ReportAuth, ReportQuota
<1>5. req' # req
  BY <1>1
<1>6. ~CheckQuota /\ ~Tick /\ ~UNCHANGED vars
  BY <1>5 DEF CheckQuota, ReportQuotaExceeded, RestoreQuota, ResetCooling, WriteBalance, LiftCooling, Tick, vars
<1>7. PICK s \in Request, tier \in Tiers, e \in Eligible : AcquireFromTier(s, tier, e)
  BY <1>4, <1>6 DEF Next, Acquire
<1>8. Bucket(tier, e) # {}
  BY <1>5, <1>7 DEF AcquireFromTier
<1>9. PICK j \in Select(Bucket(tier, e)) : req' = [ req EXCEPT ![s].key = j ]
  BY <1>7, <1>8 DEF AcquireFromTier
<1>10. s = r /\ j = k
  BY <1>1, <1>2, <1>9
<1>11. k \in Bucket(tier, e)
  BY <1>9, <1>10 DEF Select
<1>12. QED
  BY <1>7, <1>10, <1>11

\* Only keys of the pool are eligible.
LEMMA EligibleKeys == \A e \in Eligible : e \subseteq Key
BY PoolConfig DEF Eligible

\* A key in a bucket has no cool-down left.
LEMMA BucketRested ==
  ASSUME TypeOK, CauseInv, NEW tier, NEW e, NEW k \in Key, k \in Bucket(tier, e)
  PROVE  seen[k].rest = 0
<1>1. key[k] \in KeyType
  BY DEF TypeOK
<1>2. Awake(key[k]).status = "ACTIVE"
  BY DEF Bucket, Admitted, Usable
<1>3. key[k].status = "ACTIVE" \/ (key[k].status = "COOLING" /\ key[k].cooling = 0)
  BY <1>1, <1>2 DEF Awake
<1>4. QED
  BY <1>3 DEF CauseInv

\* Nobody is given a key before the cool-down last reported for it is over.
THEOREM CoolDownHolds == Spec => CoolDownHonoured
<1> DEFINE Honoured == \A r \in Request, k \in Key : Acquired(r, k) => seen[k].rest = 0
<1>1. TypeOK /\ CauseInv /\ [Next]_vars => [ Honoured ]_vars
  BY AcquiredUsable, BucketRested
<1>2. QED
  BY <1>1, CauseCorrect, PTL DEF Spec, CoolDownHonoured

\* Whatever the tiers and the order, a healthy key is served, and a sticky pool
\* serves none of lower priority.
THEOREM HighestPriorityHolds == Spec => HighestPriority
<1> DEFINE Best ==
      \A r \in Request, tier \in Tiers, e \in Eligible :
        AcquireFromTier(r, tier, e) =>
          LET good == { k \in e : Tier[k] = tier /\ Healthy(k) } IN
          /\ good # {} => req'[r].key # None
          /\ req'[r].key # None =>
               /\ req'[r].key \in e /\ Tier[req'[r].key] = tier
               /\ ~IsPolledAndExhausted(key[req'[r].key])
               /\ Strategy = "sticky" => \A j \in good : ~Before(j, req'[r].key)
<1>1. TypeOK /\ CauseInv => Best
  <2> SUFFICES ASSUME TypeOK, CauseInv, NEW r \in Request, NEW tier \in Tiers, NEW e \in Eligible,
                      AcquireFromTier(r, tier, e)
               PROVE  LET good == { k \in e : Tier[k] = tier /\ Healthy(k) } IN
                      /\ good # {} => req'[r].key # None
                      /\ req'[r].key # None =>
                           /\ req'[r].key \in e /\ Tier[req'[r].key] = tier
                           /\ ~IsPolledAndExhausted(key[req'[r].key])
                           /\ Strategy = "sticky" => \A j \in good : ~Before(j, req'[r].key)
    OBVIOUS
  <2> DEFINE good == { k \in e : Tier[k] = tier /\ Healthy(k) }
  <2>1. good \subseteq Bucket(tier, e)
    <3>1. SUFFICES ASSUME NEW k \in good PROVE k \in Bucket(tier, e)
      OBVIOUS
    <3>2. k \in Key /\ key[k] \in KeyType
      BY PoolConfig, EligibleKeys DEF TypeOK
    <3>3. Awake(key[k]).status = "ACTIVE"
      BY <3>2 DEF Awake, Healthy, CauseInv, KeyType, KeyStatus
    <3>4. QED
      BY <3>3 DEF Healthy, Bucket, Admitted, Usable, Allows
  <2>2. None \notin e
    BY PoolConfig DEF Eligible
  <2>3. req \in [ Request -> [ key : Key \cup {None}, resends : 0 .. SameKeyRetries ] ]
    BY DEF TypeOK
  <2>4. req[r].key = None
    BY DEF AcquireFromTier
  <2>5. CASE Bucket(tier, e) = {}
    <3>1. req' = req /\ good = {}
      BY <2>1, <2>5 DEF AcquireFromTier
    <3>2. QED
      BY <2>4, <3>1
  <2>6. CASE Bucket(tier, e) # {}
    <3>1. PICK k \in Select(Bucket(tier, e)) : req' = [ req EXCEPT ![r].key = k ]
      BY <2>6 DEF AcquireFromTier
    <3>2. req'[r].key = k
      BY <2>3, <3>1
    <3>3. k \in Bucket(tier, e) /\ k # None
      BY <2>2, <3>1 DEF Select, Bucket, Admitted, Usable
    <3>4. k \in e /\ Tier[k] = tier /\ ~IsPolledAndExhausted(key[k])
      BY <3>3 DEF Bucket, Admitted, Usable
    <3>5. Strategy = "sticky" => \A j \in good : ~Before(j, k)
      BY <2>1, <3>1 DEF Select
    <3> HIDE DEF good
    <3>6. QED
      BY <3>2, <3>3, <3>4, <3>5 DEF good
  <2>7. QED
    BY <2>5, <2>6
<1>2. QED
  BY <1>1, CauseCorrect, PTL DEF HighestPriority

-----------------------------------------------------------------------------
(* The quota checker beside the pool.                                      *)

\* A worker in the middle of a visit knows the key it visits.
Busy ==
  /\ poll.stage # "idle" => poll.key \in Key
  /\ probe.stage # "idle" => probe.key \in Key

CheckInv == CheckTypeOK /\ Busy

LEMMA SaturatedTwo ==
  ASSUME NEW b \in 0 .. 2
  PROVE  /\ Saturated(b + 1, 2) \in 0 .. 2
         /\ Saturated(b + 1, 2) >= b
         /\ Saturated(b + 1, 2) >= 2 => Saturated(b + 1, 2) = 2
         /\ \A c \in 0 .. 2 : b <= c => Saturated(b + 1, 2) <= Saturated(c + 1, 2)
BY DEF Saturated

\* What one more balance read leaves of the ones before it.
LEMMA OneMoreRead ==
  ASSUME NEW n \in ReadsType, NEW hasQuota \in BOOLEAN
  PROVE  /\ Read(n, hasQuota) \in ReadsType
         /\ Read(n, hasQuota).probed = n.probed
         /\ Read(n, hasQuota).zeros = IF hasQuota THEN 0 ELSE Saturated(n.zeros + 1, 2)
BY DEF Read, ReadsType, Saturated

LEMMA InitCheckInv == CheckInit => CheckInv
BY DEF CheckInit, CheckInv, CheckTypeOK, Busy, PollStage, ProbeStage, ReadsType

\* What the workers have in hand is well-formed.
LEMMA InHand ==
  ASSUME CheckInv
  PROVE  /\ poll.left \subseteq Key /\ probe.due \subseteq Key /\ heap \subseteq Key
         /\ poll.balance \in [ hasQuota : BOOLEAN, low : BOOLEAN ]
         /\ poll.stage # "idle" => poll.key \in Key
         /\ probe.stage # "idle" => probe.key \in Key
<1>1. Balance \subseteq [ hasQuota : BOOLEAN, low : BOOLEAN ]
  BY CheckConfig
<1>2. NoBalance \in [ hasQuota : BOOLEAN, low : BOOLEAN ]
  BY DEF NoBalance
<1>3. /\ heap \subseteq Key
      /\ poll.left \subseteq Key /\ poll.balance \in Balance \cup {NoBalance}
      /\ probe.due \subseteq Key
  BY DEF CheckInv, CheckTypeOK
<1>4. QED
  BY <1>1, <1>2, <1>3 DEF CheckInv, Busy

\* What the probe's answer adds to the balances read.
LEMMA ProbeReads ==
  ASSUME CheckInv, NEW result \in Result, ProbeAnswered(result)
  PROVE  /\ reads' \in [ Key -> ReadsType ]
         /\ \A k \in Key : \/ reads'[k].probed
                            \/ /\ reads'[k].probed = reads[k].probed
                               /\ reads'[k].zeros >= reads[k].zeros
<1>1. reads \in [ Key -> ReadsType ] /\ probe.key \in Key
  BY InHand DEF CheckInv, CheckTypeOK, ProbeAnswered
<1> DEFINE old == reads[probe.key]
<1>2. /\ Read(old, TRUE) \in ReadsType
      /\ Read(old, FALSE) \in ReadsType /\ Read(old, FALSE).probed = old.probed
      /\ Read(old, FALSE).zeros = Saturated(old.zeros + 1, 2)
  BY <1>1, OneMoreRead
<1>3. Read(old, FALSE).zeros >= old.zeros
  BY <1>1, <1>2, SaturatedTwo DEF ReadsType
<1>r. ASSUME NEW n \in ReadsType, reads' = [ reads EXCEPT ![probe.key] = n ],
             n.probed \/ (n.probed = old.probed /\ n.zeros >= old.zeros)
      PROVE  /\ reads' \in [ Key -> ReadsType ]
             /\ \A k \in Key : \/ reads'[k].probed
                                \/ /\ reads'[k].probed = reads[k].probed
                                   /\ reads'[k].zeros >= reads[k].zeros
  <2>1. reads' \in [ Key -> ReadsType ]
    BY <1>1, <1>r
  <2>2. ASSUME NEW k \in Key, k # probe.key
        PROVE  reads'[k] = reads[k] /\ reads[k].zeros \in 0 .. 2
    BY <1>1, <1>r, <2>2 DEF ReadsType
  <2>3. reads'[probe.key] = n
    BY <1>1, <1>r
  <2>4. QED
    BY <1>r, <2>1, <2>2, <2>3
<1>4. CASE result = "restored"
  <2>1. reads' = [ reads EXCEPT ![probe.key] = [ Read(old, TRUE) EXCEPT !.probed = TRUE ] ]
    BY <1>4 DEF ProbeAnswered
  <2>2. /\ [ Read(old, TRUE) EXCEPT !.probed = TRUE ] \in ReadsType
        /\ [ Read(old, TRUE) EXCEPT !.probed = TRUE ].probed
    BY <1>2 DEF ReadsType
  <2>3. QED
    BY <1>r, <2>1, <2>2
<1>5. CASE result = "still_exhausted"
  <2>1. reads' = [ reads EXCEPT ![probe.key] = Read(old, FALSE) ]
    BY <1>5 DEF ProbeAnswered
  <2>2. QED
    BY <1>r, <1>2, <1>3, <2>1
<1>6. CASE result \notin { "restored", "still_exhausted" }
  <2>1. reads' = reads
    BY <1>1, <1>6 DEF ProbeAnswered
  <2>2. QED
    BY <1>1, <2>1 DEF ReadsType
<1>7. QED
  BY <1>4, <1>5, <1>6

\* The poll's steps.
LEMMA PollKeeps == CheckInv /\ PollStep => CheckInv'
<1> SUFFICES ASSUME CheckInv, PollStep PROVE CheckInv'
  OBVIOUS
<1> USE InHand DEF CheckTypeOK, Busy, PollStage, Goes, Leaves
<1>1. ASSUME NEW b \in 0 .. 2 PROVE Saturated(b + 1, 2) \in 0 .. 2
  BY DEF Saturated
<1>2. CASE PollBegin
  BY <1>2 DEF PollBegin, CheckInv
<1>3. ASSUME NEW k \in Key, PollVisit(k) PROVE CheckInv'
  <2>1. poll' = [ poll EXCEPT !.stage = "fetch", !.left = @ \ {k}, !.key = k ]
    BY <1>3 DEF PollVisit
  <2>2. /\ poll'.stage = "fetch" /\ poll'.left \subseteq Key /\ poll'.key = k
        /\ poll' \in [ stage : PollStage, left : SUBSET Key, key : Key \cup {None},
                        balance : Balance \cup {NoBalance} ]
    BY <2>1 DEF CheckInv
  <2>3. QED
    BY <1>3, <2>2 DEF PollVisit, CheckInv
<1>4. CASE PollFails
  BY <1>4 DEF PollFails, CheckInv
<1>5. ASSUME NEW b \in Balance, PollAnswered(b) PROVE CheckInv'
  <2>1. poll' = [ poll EXCEPT !.stage = "record", !.balance = b ] /\ poll.key \in Key
    BY <1>5 DEF PollAnswered
  <2>2. /\ poll'.stage = "record" /\ poll'.key = poll.key
        /\ poll' \in [ stage : PollStage, left : SUBSET Key, key : Key \cup {None},
                        balance : Balance \cup {NoBalance} ]
    BY <2>1 DEF CheckInv
  <2>3. reads' \in [ Key -> ReadsType ]
    <3>1. reads \in [ Key -> ReadsType ] /\ b.hasQuota \in BOOLEAN
      BY CheckConfig DEF CheckInv
    <3>2. Read(reads[poll.key], b.hasQuota) \in ReadsType
      BY <2>1, <3>1, OneMoreRead
    <3>3. QED
      BY <1>5, <3>1, <3>2 DEF PollAnswered
  <2>4. QED
    BY <1>5, <2>1, <2>2, <2>3 DEF PollAnswered, CheckInv
<1>6. CASE PollRecord
  BY <1>6 DEF PollRecord, CheckInv
<1>7. CASE PollJudgeNone
  BY <1>1, <1>7 DEF PollJudgeNone, CheckInv
<1>8. CASE PollMark
  BY <1>8 DEF PollMark, CheckInv
<1>9. CASE PollCall
  BY <1>9 DEF PollCall, CheckInv
<1>10. CASE PollJudgeQuota
  <2>1. reads' \in [ Key -> ReadsType ]
    BY <1>10 DEF PollJudgeQuota, BeginsAnew, ReadsType, CheckInv
  <2>2. /\ UNCHANGED << quota, enabled, heap, telling, probe >>
        /\ zeroStreak' = [ zeroStreak EXCEPT ![poll.key] = 0 ]
        /\ Goes("restore") \/ Leaves
        /\ poll.key \in Key
    BY <1>10 DEF PollJudgeQuota
  <2> QED
    BY <2>1, <2>2 DEF CheckInv
<1>11. CASE PollRestore
  BY <1>11 DEF PollRestore, CheckInv
<1>12. CASE PollReset
  BY <1>12 DEF PollReset, CheckInv
<1>13. QED
  BY <1>2, <1>3, <1>4, <1>5, <1>6, <1>7, <1>8, <1>9, <1>10, <1>11, <1>12 DEF PollStep

\* The probe's steps.
LEMMA ProbeKeeps == CheckInv /\ ProbeStep => CheckInv'
<1> SUFFICES ASSUME CheckInv, ProbeStep PROVE CheckInv'
  OBVIOUS
<1> USE InHand DEF CheckTypeOK, Busy, ProbeStage, NextItem
<1>1. CASE ProbeDue
  BY <1>1 DEF ProbeDue, CheckInv
<1>2. CASE \E k \in Key : ProbeKey(k)
  BY <1>2 DEF ProbeKey, CheckInv
<1>3. ASSUME NEW result \in Result, ProbeAnswered(result) PROVE CheckInv'
  <2>1. reads' \in [ Key -> ReadsType ]
    BY <1>3, ProbeReads DEF CheckInv
  <2>2. /\ UNCHANGED << quota, enabled, telling, poll, zeroStreak >> /\ probe.key \in Key
        /\ \/ probe' = [ probe EXCEPT !.stage = "restore" ] /\ UNCHANGED heap
           \/ heap' = heap \cup { probe.key } /\ NextItem
    BY <1>3 DEF ProbeAnswered
  <2>3. QED
    BY <2>1, <2>2 DEF CheckInv
<1>4. CASE ProbeRestore
  BY <1>4 DEF ProbeRestore, CheckInv
<1>5. CASE ProbeRemove
  BY <1>5 DEF ProbeRemove, CheckInv
<1>6. QED
  BY <1>1, <1>2, <1>3, <1>4, <1>5 DEF ProbeStep

\* And everybody else's.
LEMMA OthersKeep ==
  ASSUME CheckInv, CheckNext, ~PollStep, ~ProbeStep PROVE CheckInv'
<1> USE InHand DEF CheckTypeOK, Busy, Teller
<1>1. CASE \E r \in Request : RequestStep(r)
  BY <1>1 DEF RequestStep, CheckInv
<1>2. CASE \E k \in Key : AdminMarks(k)
  BY <1>2 DEF AdminMarks, CheckInv
<1>3. CASE \E k \in Key : QuotaChanges(k)
  BY <1>3 DEF QuotaChanges, CheckInv
<1>4. CASE \E t \in Teller : Callback(t)
  BY <1>4 DEF Callback, CheckInv
<1>5. CASE Stop
  BY <1>5 DEF Stop, CheckInv
<1>6. CASE Start
  BY <1>6 DEF Start, Exceeded, CheckInv
<1>7. CASE TimePasses
  BY <1>7 DEF TimePasses, checkVars, CheckInv
<1>8. QED
  BY <1>1, <1>2, <1>3, <1>4, <1>5, <1>6, <1>7 DEF CheckNext

LEMMA NextCheckInv == CheckInv /\ [CheckNext]_allVars => CheckInv'
<1>1. CheckInv /\ UNCHANGED allVars => CheckInv'
  BY DEF CheckInv, CheckTypeOK, Busy, allVars, checkVars
<1>2. QED
  BY <1>1, PollKeeps, ProbeKeeps, OthersKeep

\* Everything the checker keeps is well-formed, and its workers know their key.
THEOREM CheckTypeCorrect == CheckSpec => []CheckTypeOK
<1>1. CheckSpec => []CheckInv
  BY InitCheckInv, NextCheckInv, PTL DEF CheckSpec
<1>2. CheckInv => CheckTypeOK
  BY DEF CheckInv
<1>3. QED
  BY <1>1, <1>2, PTL

-----------------------------------------------------------------------------

\* Every step of the checked pool is one of the pool, or leaves it alone.
LEMMA StepSimulated ==
  ASSUME TypeOK, CheckInv, [CheckNext]_allVars PROVE [Next]_vars
<1> USE InHand
<1>1. ASSUME NEW k \in Key,
             \/ ReportQuotaExceeded(k) \/ RestoreQuota(k)
             \/ ResetCooling(k) \/ LiftCooling(k)
             \/ \E low \in BOOLEAN : WriteBalance(k, low)
      PROVE  Next
  BY <1>1 DEF Next, CheckQuota
<1>2. ASSUME NEW k \in Key PROVE key[k].low \in BOOLEAN
  BY DEF TypeOK, KeyType
<1>3. CASE \E r \in Request : RequestStep(r)
  BY <1>3 DEF RequestStep, Next, Acquire, Report
<1>4. CASE \E k \in Key : AdminMarks(k)
  BY <1>1, <1>4 DEF AdminMarks
<1>5. CASE PollStep
  <2>1. CASE PollRecord
    BY <1>1, <1>2, <2>1 DEF PollRecord
  <2>2. CASE PollJudgeNone
    BY <1>1, <2>2 DEF PollJudgeNone
  <2>3. CASE PollJudgeQuota
    BY <1>1, <2>3 DEF PollJudgeQuota
  <2>4. CASE PollMark
    BY <1>1, <2>4 DEF PollMark
  <2>5. CASE PollRestore
    BY <1>1, <2>5 DEF PollRestore
  <2>6. CASE PollReset
    BY <1>1, <2>6 DEF PollReset
  <2>7. CASE \E k \in Key : PollVisit(k)
    BY <1>1, <2>7 DEF PollVisit
  <2>8. CASE PollBegin \/ PollFails \/ PollCall \/ \E b \in Balance : PollAnswered(b)
    BY <2>8 DEF PollBegin, PollFails, PollCall, PollAnswered
  <2>9. QED
    BY <1>5, <2>1, <2>2, <2>3, <2>4, <2>5, <2>6, <2>7, <2>8 DEF PollStep
<1>6. CASE ProbeStep
  <2>1. CASE ProbeRestore
    BY <1>1, <2>1 DEF ProbeRestore
  <2>2. CASE ~ProbeRestore
    BY <1>6, <2>2 DEF ProbeStep, ProbeDue, ProbeKey, ProbeAnswered, ProbeRemove
  <2>3. QED
    BY <2>1, <2>2
<1>7. CASE TimePasses
  BY <1>7 DEF TimePasses, Next
<1>8. CASE (\E k \in Key : QuotaChanges(k)) \/ (\E t \in Teller : Callback(t)) \/ Stop \/ Start
  BY <1>8 DEF QuotaChanges, Callback, Stop, Start
<1>9. CASE UNCHANGED allVars
  BY <1>9 DEF allVars
<1>10. QED
  BY <1>3, <1>4, <1>5, <1>6, <1>7, <1>8, <1>9 DEF CheckNext

\* The pool under the quota checker, whose reads are stale when it acts on them,
\* is a pool as KeyPool describes it.
THEOREM CheckedPoolIsPool == CheckSpec => Spec
<1>1. CheckInit => Init
  BY DEF CheckInit
<1>2. TypeOK /\ CheckInv /\ [CheckNext]_allVars => [Next]_vars
  BY StepSimulated
<1>3. TypeOK /\ CheckInv /\ [CheckNext]_allVars => (TypeOK /\ CheckInv)'
  BY StepSimulated, NextTypeOK, NextCheckInv
<1>4. QED
  BY <1>1, <1>2, <1>3, InitTypeOK, InitCheckInv, PTL DEF CheckSpec, Spec

-----------------------------------------------------------------------------
(* What the poll's streak is worth.                                        *)

\* The key whose answer is read but not yet counted.
Unjudged(k) == poll.key = k /\ poll.stage \in { "record", "judge" }

\* n balances without quota are behind k, or the probe has read one with quota.
Backed(k, n) == reads[k].probed \/ n <= reads[k].zeros

\* A key has no longer a streak than it had balances without quota in a row, and
\* still has not when the answer in hand is counted; the probe's are excepted.
StreakOf(k) ==
  IF Unjudged(k)
  THEN poll.balance.hasQuota \/ Backed(k, Saturated(zeroStreak[k] + 1, 2))
  ELSE Backed(k, zeroStreak[k])

StreakInv ==
  /\ \A k \in Key : StreakOf(k)
  /\ poll.stage = "mark" => zeroStreak[poll.key] = 2

LEMMA Streaks ==
  ASSUME CheckInv
  PROVE  /\ zeroStreak \in [ Key -> 0 .. 2 ] /\ reads \in [ Key -> ReadsType ]
         /\ \A k \in Key : /\ zeroStreak[k] \in 0 .. 2 /\ reads[k] \in ReadsType
                            /\ reads[k].zeros \in 0 .. 2
BY DEF CheckInv, CheckTypeOK, ReadsType

\* A step that moves the poll from one stage to another and touches no streak.
LEMMA StreakStands ==
  ASSUME CheckInv, StreakInv, UNCHANGED << zeroStreak, reads >>,
         poll'.stage # "mark",
         \A k \in Key : Unjudged(k)' => Unjudged(k) /\ poll'.balance = poll.balance,
         \A k \in Key : Unjudged(k) => \/ Unjudged(k)'
                                       \/ ~poll.balance.hasQuota
  PROVE  StreakInv'
<1>1. SUFFICES ASSUME NEW k \in Key PROVE StreakOf(k)'
  BY DEF StreakInv
<1>2. zeroStreak[k] \in 0 .. 2 /\ reads[k].zeros \in 0 .. 2
  BY Streaks
<1>3. StreakOf(k)
  BY DEF StreakInv
<1>4. Saturated(zeroStreak[k] + 1, 2) >= zeroStreak[k] /\ Saturated(zeroStreak[k] + 1, 2) \in 0 .. 2
  BY <1>2, SaturatedTwo
<1>5. CASE Unjudged(k)'
  <2>1. Unjudged(k) /\ poll'.balance = poll.balance
    BY <1>5
  <2>2. QED
    BY <1>3, <1>5, <2>1 DEF StreakOf, Backed
<1>6. CASE ~Unjudged(k)'
  <2>1. CASE Unjudged(k)
    BY <1>2, <1>3, <1>4, <1>6, <2>1 DEF StreakOf, Backed
  <2>2. CASE ~Unjudged(k)
    BY <1>3, <1>6, <2>2 DEF StreakOf, Backed
  <2>3. QED
    BY <2>1, <2>2
<1>7. QED
  BY <1>5, <1>6

LEMMA PollStreak == CheckInv /\ StreakInv /\ PollStep => StreakInv'
<1> SUFFICES ASSUME CheckInv, StreakInv, PollStep PROVE StreakInv'
  OBVIOUS
<1> DEFINE PollType == [ stage : PollStage, left : SUBSET Key, key : Key \cup {None},
                         balance : Balance \cup {NoBalance} ]
<1>t. poll \in PollType /\ (poll.stage # "idle" => poll.key \in Key)
  BY InHand DEF CheckInv, CheckTypeOK
<1> USE StreakStands
<1>1. ASSUME Leaves, poll.stage \notin { "record", "judge" }, UNCHANGED << zeroStreak, reads >>
      PROVE  StreakInv'
  BY <1>1, <1>t DEF Leaves, Unjudged
<1>2. ASSUME NEW s \in { "call", "reset" }, Goes(s),
             poll.stage \notin { "record", "judge" }, UNCHANGED << zeroStreak, reads >>
      PROVE  StreakInv'
  BY <1>2, <1>t DEF Goes, Unjudged
<1>3. CASE PollBegin
  BY <1>3, <1>t DEF PollBegin, Unjudged
<1>4. ASSUME NEW k \in Key, PollVisit(k) PROVE StreakInv'
  <2>1. poll' = [ poll EXCEPT !.stage = "fetch", !.left = @ \ {k}, !.key = k ]
    BY <1>4 DEF PollVisit
  <2>2. poll'.stage = "fetch" /\ poll.stage = "idle" /\ UNCHANGED << zeroStreak, reads >>
    BY <1>4, <1>t, <2>1 DEF PollVisit
  <2>3. QED
    BY <2>2 DEF Unjudged
<1>5. CASE PollFails
  BY <1>5, <1>t DEF PollFails, Unjudged
<1>6. ASSUME NEW b \in Balance, PollAnswered(b) PROVE StreakInv'
  <2>1. poll' = [ poll EXCEPT !.stage = "record", !.balance = b ] /\ poll.stage = "fetch"
    BY <1>6 DEF PollAnswered
  <2>2. poll'.stage = "record" /\ poll'.key = poll.key /\ poll'.balance = b
    BY <1>t, <2>1
  <2>3. reads' = [ reads EXCEPT ![poll.key] = Read(@, b.hasQuota) ] /\ zeroStreak' = zeroStreak
    BY <1>6 DEF PollAnswered
  <2>4. SUFFICES ASSUME NEW k \in Key PROVE StreakOf(k)'
    BY <2>2 DEF StreakInv
  <2>5. /\ Backed(k, zeroStreak[k]) /\ zeroStreak[k] \in 0 .. 2
        /\ reads[k] \in ReadsType /\ reads[k].zeros \in 0 .. 2
    BY <2>1, Streaks DEF StreakInv, StreakOf, Unjudged
  <2>6. CASE k = poll.key
    <3>1. Unjudged(k)'
      BY <2>2, <2>6 DEF Unjudged
    <3>2. reads'[k] = Read(reads[k], b.hasQuota) /\ b.hasQuota \in BOOLEAN
      BY <2>3, <2>6, Streaks, CheckConfig
    <3>3. /\ reads'[k].probed = reads[k].probed
          /\ b.hasQuota \/ reads'[k].zeros = Saturated(reads[k].zeros + 1, 2)
      BY <2>5, <3>2, OneMoreRead
    <3>4. zeroStreak[k] <= reads[k].zeros =>
            Saturated(zeroStreak[k] + 1, 2) <= Saturated(reads[k].zeros + 1, 2)
      BY <2>5, SaturatedTwo
    <3>5. b.hasQuota \/ Backed(k, Saturated(zeroStreak[k] + 1, 2))'
      BY <2>3, <2>5, <3>3, <3>4 DEF Backed
    <3>6. QED
      BY <2>2, <3>1, <3>5 DEF StreakOf
  <2>7. CASE k # poll.key
    <3>1. ~Unjudged(k)' /\ reads'[k] = reads[k]
      BY <2>2, <2>3, <2>7, Streaks DEF Unjudged
    <3>2. QED
      BY <2>3, <2>5, <3>1 DEF StreakOf, Backed
  <2>8. QED
    BY <2>6, <2>7
<1>7. CASE PollRecord
  <2>1. poll'.stage = "judge" /\ poll'.key = poll.key /\ poll'.balance = poll.balance
        /\ poll.stage = "record" /\ UNCHANGED << zeroStreak, reads >>
    BY <1>7, <1>t DEF PollRecord, Goes
  <2>2. QED
    BY <2>1 DEF Unjudged
<1>8. CASE PollJudgeNone
  <2>1. /\ poll.stage = "judge" /\ ~poll.balance.hasQuota /\ poll.key \in Key
        /\ reads' = reads
    BY <1>8, <1>t DEF PollJudgeNone
  <2>2. CASE key[poll.key].status # "ACTIVE"
    <3>1. Leaves /\ zeroStreak' = zeroStreak
      BY <1>8, <2>2 DEF PollJudgeNone
    <3>2. QED
      BY <1>t, <2>1, <3>1 DEF Leaves, Unjudged
  <2>3. CASE key[poll.key].status = "ACTIVE"
    <3>1. zeroStreak' = [ zeroStreak EXCEPT ![poll.key] = Saturated(@ + 1, 2) ]
      BY <1>8, <2>3 DEF PollJudgeNone
    <3>2. zeroStreak'[poll.key] = Saturated(zeroStreak[poll.key] + 1, 2)
      BY <2>1, <3>1, Streaks
    <3>3. (zeroStreak'[poll.key] >= 2 /\ Goes("mark")) \/ Leaves
      BY <1>8, <2>3 DEF PollJudgeNone
    <3>4. /\ poll'.stage = "mark" => zeroStreak'[poll.key] >= 2 /\ poll'.key = poll.key
          /\ poll'.stage \notin { "record", "judge" }
      BY <1>t, <3>3 DEF Goes, Leaves
    <3>5. poll'.stage = "mark" => zeroStreak'[poll'.key] = 2
      <4>1. zeroStreak[poll.key] \in 0 .. 2
        BY <2>1, Streaks
      <4>2. QED
        BY <3>2, <3>4, <4>1, SaturatedTwo
    <3>6. ASSUME NEW k \in Key PROVE StreakOf(k)'
      <4>1. ~Unjudged(k)'
        BY <3>4 DEF Unjudged
      <4>2. CASE k = poll.key
        <5>1. Backed(k, Saturated(zeroStreak[k] + 1, 2))
          BY <2>1, <4>2 DEF StreakInv, StreakOf, Unjudged
        <5>2. QED
          BY <2>1, <3>2, <4>1, <4>2, <5>1 DEF StreakOf, Backed
      <4>3. CASE k # poll.key
        <5>1. zeroStreak'[k] = zeroStreak[k] /\ Backed(k, zeroStreak[k])
          BY <3>1, <4>3, Streaks DEF StreakInv, StreakOf, Unjudged
        <5>2. QED
          BY <2>1, <4>1, <5>1 DEF StreakOf, Backed
      <4>4. QED
        BY <4>2, <4>3
    <3>7. QED
      BY <3>5, <3>6 DEF StreakInv
  <2>4. QED
    BY <2>2, <2>3
<1>9. CASE PollMark
  BY <1>2, <1>9 DEF PollMark
<1>10. CASE PollCall
  BY <1>1, <1>10 DEF PollCall
<1>11. CASE PollJudgeQuota
  <2>1. /\ poll.stage = "judge" /\ poll.key \in Key /\ BeginsAnew
        /\ zeroStreak' = [ zeroStreak EXCEPT ![poll.key] = 0 ]
        /\ Goes("restore") \/ Leaves
    BY <1>11, <1>t DEF PollJudgeQuota
  <2>2. poll'.stage \in { "restore", "idle" }
    BY <1>t, <2>1 DEF Goes, Leaves
  <2>3. ASSUME NEW k \in Key PROVE StreakOf(k)'
    <3>1. ~Unjudged(k)'
      BY <2>2 DEF Unjudged
    <3>2. CASE k # poll.key
      <4>1. zeroStreak'[k] = zeroStreak[k] /\ reads'[k] = reads[k]
        BY <2>1, <3>2, Streaks DEF BeginsAnew
      <4>2. Backed(k, zeroStreak[k])
        BY <2>1, <3>2 DEF StreakInv, StreakOf, Unjudged
      <4>3. QED
        BY <3>1, <4>1, <4>2 DEF StreakOf, Backed
    <3>3. CASE k = poll.key
      <4>1. zeroStreak'[k] = 0 /\ reads'[k].zeros = reads[k].zeros /\ reads[k].zeros \in 0 .. 2
        BY <2>1, <3>3, Streaks DEF BeginsAnew, ReadsType
      <4>2. QED
        BY <3>1, <4>1 DEF StreakOf, Backed
    <3>4. QED
      BY <3>2, <3>3
  <2>4. QED
    BY <2>2, <2>3 DEF StreakInv
<1>12. CASE PollRestore
  BY <1>2, <1>12 DEF PollRestore
<1>13. CASE PollReset
  BY <1>1, <1>13 DEF PollReset
<1>14. QED
  BY <1>3, <1>4, <1>5, <1>6, <1>7, <1>8, <1>9, <1>10, <1>11, <1>12, <1>13 DEF PollStep

\* The probe's answer either is excepted or only adds to the balances without quota.
LEMMA ProbeStreak ==
  ASSUME CheckInv, StreakInv, NEW result \in Result, ProbeAnswered(result) PROVE StreakInv'
<1>1. UNCHANGED << poll, zeroStreak >>
  BY DEF ProbeAnswered
<1>2. ASSUME NEW k \in Key, NEW n \in 0 .. 2, Backed(k, n)
      PROVE  reads'[k].probed \/ n <= reads'[k].zeros
  <2>1. /\ reads[k].zeros \in 0 .. 2 /\ reads'[k].zeros \in 0 .. 2
    BY Streaks, ProbeReads DEF ReadsType
  <2>2. QED
    BY <1>2, <2>1, ProbeReads DEF Backed
<1>3. ASSUME NEW k \in Key PROVE StreakOf(k)'
  <2>1. zeroStreak[k] \in 0 .. 2 /\ Saturated(zeroStreak[k] + 1, 2) \in 0 .. 2
    BY Streaks, SaturatedTwo
  <2>2. StreakOf(k)
    BY DEF StreakInv
  <2>3. QED
    BY <1>1, <1>2, <2>1, <2>2 DEF StreakOf, Unjudged, Backed
<1>4. QED
  BY <1>1, <1>3 DEF StreakInv

LEMMA NextStreak == CheckInv /\ StreakInv /\ [CheckNext]_allVars => StreakInv'
<1>1. ASSUME UNCHANGED << poll, zeroStreak, reads >>, StreakInv PROVE StreakInv'
  BY <1>1 DEF StreakInv, StreakOf, Unjudged, Backed
<1>2. ASSUME CheckNext, ~PollStep, ~(\E result \in Result : ProbeAnswered(result))
      PROVE  UNCHANGED << poll, zeroStreak, reads >>
  BY <1>2 DEF CheckNext, RequestStep, AdminMarks, QuotaChanges, Callback, ProbeStep, ProbeDue,
              ProbeKey, ProbeRestore, ProbeRemove, Stop, Start, TimePasses, checkVars
<1>3. UNCHANGED allVars => UNCHANGED << poll, zeroStreak, reads >>
  BY DEF allVars, checkVars
<1>4. QED
  BY <1>1, <1>2, <1>3, PollStreak, ProbeStreak

\* However the reads of poll and probe, the reloads and the requests interleave, a key
\* is taken out only when two balances in a row were without quota, or the probe has
\* read one with quota since the streak began.
THEOREM TwoReadsHolds == CheckSpec => TwoReads
<1>1. CheckInit => StreakInv
  BY DEF CheckInit, StreakInv, StreakOf, Unjudged, Backed
<1>2. CheckSpec => [](CheckInv /\ StreakInv)
  BY <1>1, InitCheckInv, NextCheckInv, NextStreak, PTL DEF CheckSpec
<1>3. CheckInv /\ StreakInv =>
        (PollMark => reads[poll.key].zeros = 2 \/ reads[poll.key].probed)
  <2>1. SUFFICES ASSUME CheckInv, StreakInv, PollMark
                 PROVE  reads[poll.key].zeros = 2 \/ reads[poll.key].probed
    OBVIOUS
  <2>2. poll.stage = "mark" /\ poll.key \in Key
    BY <2>1, InHand DEF PollMark
  <2>3. /\ zeroStreak[poll.key] = 2 /\ Backed(poll.key, zeroStreak[poll.key])
        /\ reads[poll.key].zeros \in 0 .. 2
    BY <2>1, <2>2, Streaks DEF StreakInv, StreakOf, Unjudged
  <2>4. QED
    BY <2>3 DEF Backed
<1>4. QED
  BY <1>2, <1>3, PTL DEF CheckSpec, TwoReads
=============================================================================
