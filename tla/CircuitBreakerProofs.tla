------------------------- MODULE CircuitBreakerProofs -------------------------
(***************************************************************************)
(* Proofs about CircuitBreaker, for every threshold, window, timeout and   *)
(* trial budget and any set of callers.                                    *)
(***************************************************************************)
EXTENDS CircuitBreaker, BreakerProofs

-----------------------------------------------------------------------------
(* Type correctness.                                                       *)

\* The fresh breaker is well-formed.
LEMMA InitTypeOK == Init => TypeOK
<1> SUFFICES ASSUME Init PROVE TypeOK
  OBVIOUS
<1>1. <<>> \in Seq(0 .. FailureWindow) /\ <<>> \in Seq(0 .. OpenTimeout) /\ Len(<<>>) = 0
  OBVIOUS
<1>2. New \in BreakerType
  BY <1>1, BreakerConfig DEF New, BreakerType, State
<1>3. QED
  BY <1>1, <1>2, BreakerConfig DEF Init, TypeOK, Fate

\* Keeping the last HalfOpenRequests of the trials and one more.
LEMMA LastTrialsTyped ==
  ASSUME NEW ages \in Seq(0 .. OpenTimeout), Len(ages) <= HalfOpenRequests
  PROVE  LET added == Append(ages, 0)
             kept  == LastTrials(added) IN
         /\ kept \in Seq(0 .. OpenTimeout)
         /\ Len(kept) <= HalfOpenRequests
         /\ Len(ages) < HalfOpenRequests =>
              Len(kept) = Len(ages) + 1 /\ \A i \in 1 .. Len(ages) : kept[i] = ages[i]
         /\ Len(ages) = HalfOpenRequests =>
              Len(kept) = Len(ages) /\ \A i \in 1 .. Len(ages) - 1 : kept[i] = ages[i + 1]
         /\ kept[Len(kept)] = 0
<1> DEFINE added == Append(ages, 0)
           kept  == LastTrials(added)
           n     == Len(ages)
<1>1. /\ HalfOpenRequests \in Nat /\ HalfOpenRequests > 0 /\ 0 \in 0 .. OpenTimeout
      /\ n \in Nat /\ n <= HalfOpenRequests
  BY BreakerConfig
<1>2. /\ added \in Seq(0 .. OpenTimeout) /\ Len(added) = n + 1 /\ added # <<>>
      /\ \A i \in 1 .. n : added[i] = ages[i]
      /\ added[n + 1] = 0
  BY <1>1
<1>3. kept = IF Len(added) > HalfOpenRequests THEN Tail(added) ELSE added
  BY DEF LastTrials
<1> HIDE DEF added, kept, n
<1>4. CASE n < HalfOpenRequests
  <2>1. kept = added /\ n # HalfOpenRequests
    BY <1>1, <1>2, <1>3, <1>4
  <2>2. /\ kept \in Seq(0 .. OpenTimeout) /\ Len(kept) = n + 1 /\ Len(kept) <= HalfOpenRequests
        /\ \A i \in 1 .. n : kept[i] = ages[i]
        /\ kept[Len(kept)] = 0
    BY <1>1, <1>2, <1>4, <2>1
  <2>3. QED
    BY <2>1, <2>2 DEF kept, n, added
<1>5. CASE n = HalfOpenRequests
  <2>1. kept = Tail(added) /\ ~(n < HalfOpenRequests)
    BY <1>1, <1>2, <1>3, <1>5
  <2>2. /\ Tail(added) \in Seq(0 .. OpenTimeout) /\ Len(Tail(added)) = Len(added) - 1
        /\ \A i \in 1 .. Len(Tail(added)) : Tail(added)[i] = added[i + 1]
    BY <1>2, HeadTailProperties
  <2>3. Len(kept) = n
    BY <1>1, <1>2, <2>1, <2>2
  <2>4. \A i \in 1 .. n - 1 : kept[i] = ages[i + 1]
    BY <1>1, <1>2, <2>1, <2>2, <2>3
  <2>5. kept[n] = 0
    BY <1>1, <1>2, <1>5, <2>1, <2>2, <2>3
  <2>6. QED
    BY <1>1, <1>5, <2>1, <2>2, <2>3, <2>4, <2>5 DEF kept, n, added
<1>6. QED
  BY <1>1, <1>4, <1>5

\* Every step keeps the breaker and the history well-formed.
LEMMA NextTypeOK == TypeOK /\ [Next]_vars => TypeOK'
<1> SUFFICES ASSUME TypeOK, [Next]_vars PROVE TypeOK'
  OBVIOUS
<1> USE DEF TypeOK
<1>1. ASSUME NEW b \in BreakerType, NEW c \in Caller, NEW fate \in Fate, Becomes(b, c, fate)
      PROVE  breaker' \in BreakerType /\ call' \in [ Caller -> Fate ]
  BY <1>1 DEF Becomes, Fate
<1>2. <<>> \in Seq(0 .. FailureWindow) /\ 0 \in 0 .. FailureWindow
  BY BreakerConfig
<1>3. {"idle", "steady", "trial", "late"} = Fate
  BY DEF Fate
<1>4. ASSUME NEW c \in Caller, AdmitSteady(c) PROVE TypeOK'
  BY <1>1, <1>3, <1>4, BreakerTyped DEF AdmitSteady
<1>5. ASSUME NEW c \in Caller, AdmitTrial(c) PROVE TypeOK'
  <2>1. breaker' \in BreakerType /\ call' \in [ Caller -> Fate ] /\ recent' = recent
    BY <1>1, <1>3, <1>5, BreakerTyped DEF AdmitTrial
  <2>2. trialAges' \in Seq(0 .. OpenTimeout) /\ Len(trialAges') <= HalfOpenRequests
    BY <1>5, LastTrialsTyped DEF AdmitTrial
  <2>3. QED
    BY <2>1, <2>2
<1>6. ASSUME NEW c \in Caller, Succeed(c) PROVE TypeOK'
  <2>1. breaker' \in BreakerType /\ call' \in [ Caller -> Fate ] /\ trialAges' = trialAges
    BY <1>1, <1>3, <1>6, BreakerTyped DEF Succeed
  <2>2. recent' \in Seq(0 .. FailureWindow)
    BY <1>2, <1>6 DEF Succeed
  <2>3. QED
    BY <2>1, <2>2
<1>7. ASSUME NEW c \in Caller, NEW e \in Outcome \ {"success"}, Fail(c, e) PROVE TypeOK'
  <2>1. breaker' \in BreakerType /\ call' \in [ Caller -> Fate ] /\ trialAges' = trialAges
    BY <1>1, <1>3, <1>7, BreakerTyped DEF Fail
  <2>2. Append(recent, 0) \in Seq(0 .. FailureWindow)
    BY <1>2
  <2>3. recent' \in Seq(0 .. FailureWindow)
    BY <1>7, <2>2 DEF Fail
  <2>4. QED
    BY <2>1, <2>3
<1>8. CASE Tick
  <2>1. breaker' \in BreakerType /\ call' = call
    BY <1>8, BreakerTyped DEF Tick
  <2>2. recent' \in Seq(0 .. FailureWindow)
    BY <1>8, BreakerConfig, OlderAges, InWindowAges DEF Tick
  <2>3. trialAges' \in Seq(0 .. OpenTimeout) /\ Len(trialAges') <= HalfOpenRequests
    BY <1>8, BreakerConfig, OlderAges DEF Tick
  <2>4. QED
    BY <2>1, <2>2, <2>3
<1>9. CASE UNCHANGED vars
  BY <1>9 DEF vars
<1>10. QED
  BY <1>4, <1>5, <1>6, <1>7, <1>8, <1>9 DEF Next

\* The breaker's record and the history stay within their types, whatever the
\* configuration New accepts.
THEOREM TypeCorrect == Spec => []TypeOK
  BY InitTypeOK, NextTypeOK, PTL DEF Spec

-----------------------------------------------------------------------------
(* The sliding window.                                                     *)

\* While CLOSED the breaker's list, pruned, is the history of countable
\* failures, and it is shorter than the threshold.
WindowInv ==
  breaker.state = "CLOSED" =>
    /\ NonIncreasing(breaker.failures)
    /\ recent = InWindow(breaker.failures)
    /\ Len(breaker.failures) < FailureThreshold

LEMMA EmptyWindow ==
  NonIncreasing(<<>>) /\ InWindow(<<>>) = <<>> /\ Len(<<>>) < FailureThreshold
<1>1. <<>> \in Seq(0 .. FailureWindow) /\ Len(<<>>) = 0
  OBVIOUS
<1>2. \A i \in 1 .. Len(<<>>) : FALSE
  BY <1>1
<1>3. \A i \in 1 .. Len(<<>>) : <<>>[i] < FailureWindow
  BY <1>2
<1>4. InWindow(<<>>) = <<>>
  BY <1>1, <1>3, NoneExpired
<1>5. NonIncreasing(<<>>)
  BY <1>2 DEF NonIncreasing
<1>6. QED
  BY <1>1, <1>4, <1>5, BreakerConfig

\* Pruning never lengthens a list.
LEMMA WindowShorter ==
  ASSUME NEW ages \in Seq(0 .. FailureWindow)
  PROVE  Len(InWindow(ages)) \in Nat /\ Len(InWindow(ages)) <= Len(ages)
<1> DEFINE n == Cardinality(Expired(ages))
<1>1. n \in 0 .. Len(ages) /\ Len(ages) \in Nat
  BY ExpiredCount
<1>2. Len(InWindow(ages)) = Len(ages) - n
  BY InWindowAges
<1> HIDE DEF n
<1>3. QED
  BY <1>1, <1>2

\* Nothing has failed when the breaker is new.
LEMMA InitWindow == Init => WindowInv
  BY EmptyWindow DEF Init, New, WindowInv

\* Recording one failure prunes the list and appends it.
LEMMA RecordedWindow ==
  ASSUME NEW ages \in Seq(0 .. FailureWindow), NonIncreasing(ages)
  PROVE  LET recorded == Append(InWindow(ages), 0) IN
         NonIncreasing(recorded) /\ InWindow(recorded) = recorded
<1> DEFINE live == InWindow(ages)
           n == Len(live)
           recorded == Append(live, 0)
<1>1. /\ live \in Seq(0 .. FailureWindow) /\ NonIncreasing(live)
      /\ \A i \in 1 .. Len(live) : live[i] < FailureWindow
  BY InWindowAges, InWindowLive
<1>2. FailureWindow \in Nat /\ FailureWindow > 0
  BY BreakerConfig
<1>3. live \in [ 1 .. n -> 0 .. FailureWindow ] /\ n \in Nat
  BY <1>1, LenProperties
<1> HIDE DEF live
<1>4. /\ recorded \in Seq(0 .. FailureWindow) /\ Len(recorded) = n + 1
      /\ \A i \in 1 .. n : recorded[i] = live[i]
      /\ recorded[n + 1] = 0
  BY <1>1, <1>2
<1> HIDE DEF recorded
<1>5. \A i \in 1 .. Len(recorded) : recorded[i] \in Nat /\ recorded[i] < FailureWindow
  <2> TAKE i \in 1 .. Len(recorded)
  <2>1. CASE i = n + 1
    BY <1>2, <1>4, <2>1
  <2>2. CASE i # n + 1
    <3>1. i \in 1 .. n
      BY <1>3, <1>4, <2>2
    <3>2. live[i] \in Nat /\ live[i] < FailureWindow
      BY <1>1, <1>2, <1>3, <3>1
    <3>3. QED
      BY <1>4, <3>1, <3>2
  <2>3. QED
    BY <2>1, <2>2
<1>6. NonIncreasing(recorded)
  <2>1. SUFFICES ASSUME NEW i \in 1 .. n + 1, NEW j \in 1 .. n + 1, i <= j
                 PROVE  recorded[i] >= recorded[j]
    BY <1>4 DEF NonIncreasing
  <2>2. CASE j = n + 1
    BY <1>3, <1>4, <1>5, <2>2
  <2>3. CASE j # n + 1
    <3>1. i \in 1 .. n /\ j \in 1 .. n
      BY <1>3, <2>1, <2>3
    <3>2. QED
      BY <1>1, <1>4, <2>1, <3>1 DEF NonIncreasing
  <2>4. QED
    BY <2>2, <2>3
<1>7. InWindow(recorded) = recorded
  BY <1>4, <1>5, NoneExpired
<1>8. QED
  BY <1>6, <1>7 DEF recorded, live

\* Admissions, reports and the clock keep the window in step with the history.
LEMMA NextWindow == TypeOK /\ WindowInv /\ [Next]_vars => WindowInv'
<1> SUFFICES ASSUME TypeOK, WindowInv, [Next]_vars PROVE WindowInv'
  OBVIOUS
<1>1. /\ breaker \in BreakerType /\ breaker.state \in State
      /\ breaker.failures \in Seq(0 .. FailureWindow)
  BY DEF TypeOK, BreakerType
<1>2. /\ InWindow(breaker.failures) \in Seq(0 .. FailureWindow)
      /\ Len(InWindow(breaker.failures)) <= Len(breaker.failures)
  BY <1>1, InWindowAges, WindowShorter
<1>3. Len(breaker.failures) \in Nat /\ FailureThreshold \in Nat /\ FailureThreshold > 0
  BY <1>1, BreakerConfig
<1>4. ASSUME NEW c \in Caller, AdmitSteady(c) PROVE WindowInv'
  BY <1>1, <1>4 DEF AdmitSteady, Becomes, Allow, TimeoutOver, FreeTrial, WindowInv
<1>5. ASSUME NEW c \in Caller, AdmitTrial(c) PROVE WindowInv'
  <2>1. breaker'.state = "HALF_OPEN"
    BY <1>1, <1>5
    DEF AdmitTrial, Becomes, Allows, Allow, TimeoutOver, FreeTrial, State, BreakerType
  <2>2. QED
    BY <2>1 DEF WindowInv
<1>6. ASSUME NEW c \in Caller, Succeed(c) PROVE WindowInv'
  <2>1. CASE breaker.state = "CLOSED"
    <3>1. breaker' = [ breaker EXCEPT !.failures = InWindow(@) ] /\ recent' = recent
      BY <1>1, <1>6, <2>1 DEF Succeed, Becomes, RecordSuccess, BreakerType
    <3>2. breaker'.failures = InWindow(breaker.failures)
      BY <1>1, <3>1 DEF BreakerType
    <3>3. QED
      BY <1>1, <1>2, <1>3, <2>1, <3>1, <3>2, InWindowLive DEF WindowInv
  <2>2. CASE breaker.state = "HALF_OPEN" /\ breaker'.state = "CLOSED"
    <3>1. breaker' = New /\ recent' = <<>>
      BY <1>1, <1>6, <2>2 DEF Succeed, Becomes, RecordSuccess, BreakerType
    <3>2. QED
      BY <3>1, EmptyWindow DEF New, WindowInv
  <2>3. CASE breaker.state # "CLOSED" /\ breaker'.state # "CLOSED"
    BY <2>3 DEF WindowInv
  <2>4. CASE breaker.state = "OPEN"
    BY <1>1, <1>6, <2>4 DEF Succeed, Becomes, RecordSuccess, WindowInv
  <2>5. QED
    BY <1>1, <2>1, <2>2, <2>3, <2>4 DEF State
<1>7. ASSUME NEW c \in Caller, NEW e \in Outcome \ {"success"}, Fail(c, e) PROVE WindowInv'
  <2> DEFINE recorded == Append(InWindow(breaker.failures), 0)
  <2>1. breaker' = RecordFailure(breaker, e)
    BY <1>7 DEF Fail, Becomes
  <2>2. CASE breaker.state # "CLOSED"
    BY <1>1, <2>1, <2>2 DEF RecordFailure, Tripped, WindowInv, State
  <2>3. CASE breaker.state = "CLOSED" /\ e \notin Countable
    BY <1>7, <2>1, <2>3 DEF Fail, RecordFailure, WindowInv
  <2>4. CASE breaker.state = "CLOSED" /\ e \in Countable
    <3>1. recent' = recorded
      BY <1>7, <2>4 DEF Fail, WindowInv
    <3>2. CASE Len(recorded) >= FailureThreshold
      BY <2>1, <2>4, <3>2 DEF RecordFailure, Tripped, WindowInv
    <3>3. CASE ~(Len(recorded) >= FailureThreshold)
      <4>1. breaker' = [ breaker EXCEPT !.failures = recorded ]
        BY <2>1, <2>4, <3>3 DEF RecordFailure
      <4>2. breaker'.failures = recorded
        BY <1>1, <4>1 DEF BreakerType
      <4>3. Len(recorded) \in Nat
        BY <1>2
      <4>4. Len(recorded) < FailureThreshold
        BY <1>3, <3>3, <4>3
      <4>5. NonIncreasing(recorded) /\ InWindow(recorded) = recorded
        BY <1>1, <2>4, RecordedWindow DEF WindowInv
      <4>6. QED
        BY <3>1, <4>2, <4>4, <4>5 DEF WindowInv
    <3>4. QED
      BY <3>2, <3>3
  <2>5. QED
    BY <2>2, <2>3, <2>4
<1>8. CASE Tick
  <2>1. CASE breaker.state = "CLOSED"
    <3>1. breaker'.failures = Older(breaker.failures, FailureWindow)
      BY <1>1, <1>8 DEF Tick, Elapse, BreakerType
    <3>2. recent' = InWindow(Older(recent, FailureWindow))
      BY <1>8 DEF Tick
    <3>3. recent' = InWindow(breaker'.failures)
      BY <1>1, <2>1, <3>1, <3>2, InWindowOlder DEF WindowInv
    <3>4. Len(breaker'.failures) = Len(breaker.failures)
      BY <1>1, <3>1, OlderAges, BreakerConfig
    <3>5. NonIncreasing(breaker'.failures)
      BY <1>1, <2>1, <3>1, OlderOrdered DEF WindowInv
    <3>6. QED
      BY <2>1, <3>3, <3>4, <3>5 DEF WindowInv
  <2>2. CASE breaker.state # "CLOSED"
    <3>1. breaker'.state = breaker.state
      BY <1>1, <1>8 DEF Tick, Elapse, BreakerType
    <3>2. QED
      BY <2>2, <3>1 DEF WindowInv
  <2>3. QED
    BY <2>1, <2>2
<1>9. CASE UNCHANGED vars
  BY <1>9 DEF vars, WindowInv
<1>10. QED
  BY <1>4, <1>5, <1>6, <1>7, <1>8, <1>9 DEF Next

\* The window invariant holds in every reachable state.
LEMMA WindowCorrect == Spec => [](TypeOK /\ WindowInv)
  BY InitTypeOK, NextTypeOK, InitWindow, NextWindow, PTL DEF Spec

\* A CLOSED breaker has fewer than FailureThreshold failures in its window.
THEOREM BelowThreshold == Spec => []ClosedBelowThreshold
<1>1. TypeOK /\ WindowInv => ClosedBelowThreshold
  <2> SUFFICES ASSUME TypeOK, WindowInv, breaker.state = "CLOSED"
               PROVE  Len(recent) < FailureThreshold
    BY DEF ClosedBelowThreshold
  <2>1. breaker.failures \in Seq(0 .. FailureWindow)
    BY DEF TypeOK, BreakerType
  <2>2. Len(recent) <= Len(breaker.failures) /\ Len(recent) \in Nat
    BY <2>1, WindowShorter DEF WindowInv
  <2>3. QED
    BY <2>1, <2>2, BreakerConfig DEF WindowInv
<1>2. QED
  BY <1>1, WindowCorrect, PTL

\* A CLOSED breaker opens only when its window holds FailureThreshold failures.
THEOREM OpensOnlyAtThreshold == Spec => OpensAtThreshold
<1> DEFINE Opens == breaker.state = "CLOSED" /\ breaker'.state = "OPEN"
<1>1. TypeOK /\ WindowInv /\ [Next]_vars
        => [ Opens => Len(recent') >= FailureThreshold ]_vars
  <2> SUFFICES ASSUME TypeOK, WindowInv, [Next]_vars, Opens
               PROVE  Len(recent') >= FailureThreshold
    OBVIOUS
  <2>1. breaker \in BreakerType
    BY DEF TypeOK
  <2>2. PICK c \in Caller, e \in Outcome \ {"success"} : Fail(c, e)
    <3>1. ~(\E c \in Caller : AdmitSteady(c) \/ AdmitTrial(c) \/ Succeed(c))
      BY <2>1 DEF AdmitSteady, AdmitTrial, Succeed, Becomes, Allow, TimeoutOver, FreeTrial,
                  RecordSuccess, BreakerType
    <3>2. ~Tick /\ ~UNCHANGED vars
      BY <2>1 DEF Tick, Elapse, BreakerType, vars
    <3>3. QED
      BY <3>1, <3>2 DEF Next
  <2>3. breaker' = RecordFailure(breaker, e)
    BY <2>2 DEF Fail, Becomes
  <2>4. /\ e \in Countable
        /\ Len(Append(InWindow(breaker.failures), 0)) >= FailureThreshold
    BY <2>1, <2>3 DEF RecordFailure, BreakerType
  <2>5. recent' = Append(InWindow(breaker.failures), 0)
    BY <2>2, <2>4 DEF Fail, WindowInv
  <2>6. QED
    BY <2>4, <2>5
<1>2. QED
  BY <1>1, WindowCorrect, PTL DEF Spec, OpensAtThreshold

-----------------------------------------------------------------------------
(* The trials.                                                             *)

\* While OPEN no trial is younger than the opening, and while HALF_OPEN all
\* trials but those that took a slot are at least OpenTimeout old.
TrialHistory ==
  /\ breaker.state = "OPEN" =>
       \A i \in 1 .. Len(trialAges) : trialAges[i] >= breaker.openFor
  /\ breaker.state = "HALF_OPEN" =>
       /\ breaker.inFlight \in 1 .. HalfOpenRequests
       /\ breaker.inFlight <= Len(trialAges)
       /\ \A i \in 1 .. Len(trialAges) - breaker.inFlight : trialAges[i] >= OpenTimeout

\* The breaker a report leaves: in HALF_OPEN its slots are untouched, and it is
\* OPEN with openFor = 0 unless it was OPEN before and is left alone.
LEMMA ReportShape ==
  ASSUME NEW b \in BreakerType, NEW errType,
         NEW r, r = RecordSuccess(b) \/ r = RecordFailure(b, errType)
  PROVE  /\ r.state = "HALF_OPEN" => b.state = "HALF_OPEN" /\ r.inFlight = b.inFlight
         /\ r.state = "OPEN" => r.openFor = 0 \/ r = b
<1>1. /\ b.state \in State
      /\ b = [ state |-> b.state, failures |-> b.failures, openFor |-> b.openFor,
               successes |-> b.successes, inFlight |-> b.inFlight ]
  BY DEF BreakerType
<1>2. CASE r = RecordSuccess(b)
  BY <1>1, <1>2 DEF RecordSuccess, New, State
<1>3. CASE r = RecordFailure(b, errType)
  BY <1>1, <1>3 DEF RecordFailure, Tripped, State
<1>4. QED
  BY <1>2, <1>3

\* A report disturbs neither half of the trial history.
LEMMA ReportTrialHistory ==
  ASSUME TypeOK, TrialHistory, trialAges' = trialAges, NEW errType,
         breaker' = RecordSuccess(breaker) \/ breaker' = RecordFailure(breaker, errType)
  PROVE  TrialHistory'
<1>1. breaker \in BreakerType /\ trialAges \in Seq(0 .. OpenTimeout)
  BY DEF TypeOK
<1>2. /\ breaker'.state = "HALF_OPEN" =>
           breaker.state = "HALF_OPEN" /\ breaker'.inFlight = breaker.inFlight
      /\ breaker'.state = "OPEN" => breaker'.openFor = 0 \/ breaker' = breaker
  BY <1>1, ReportShape
<1>3. \A i \in 1 .. Len(trialAges) : trialAges[i] >= 0
  <2>1. trialAges \in [ 1 .. Len(trialAges) -> 0 .. OpenTimeout ]
    BY <1>1, LenProperties
  <2>2. QED
    BY <2>1, BreakerConfig
<1>4. QED
  BY <1>2, <1>3 DEF TrialHistory

\* The first trial, or one more, keeps the trials without a slot old enough.
LEMMA AdmitTrialHistory ==
  ASSUME TypeOK, TrialHistory, NEW c \in Caller, AdmitTrial(c)
  PROVE  TrialHistory'
<1> DEFINE L    == Len(trialAges)
           kept == LastTrials(Append(trialAges, 0))
<1>1. /\ breaker \in BreakerType /\ trialAges \in Seq(0 .. OpenTimeout)
      /\ L \in Nat /\ L <= HalfOpenRequests
      /\ HalfOpenRequests \in Nat /\ HalfOpenRequests > 0 /\ OpenTimeout \in Nat
  BY BreakerConfig DEF TypeOK
<1>2. /\ L < HalfOpenRequests =>
           Len(kept) = L + 1 /\ \A i \in 1 .. L : kept[i] = trialAges[i]
      /\ L = HalfOpenRequests =>
           Len(kept) = L /\ \A i \in 1 .. L - 1 : kept[i] = trialAges[i + 1]
  BY <1>1, LastTrialsTyped
<1>3. trialAges' = kept /\ breaker' = Allow(breaker)
  BY DEF AdmitTrial, Becomes
<1>4. L < HalfOpenRequests \/ L = HalfOpenRequests
  BY <1>1
<1> HIDE DEF kept
<1>5. \A i \in 1 .. L : trialAges[i] \in 0 .. OpenTimeout
  <2>1. trialAges \in [ 1 .. Len(trialAges) -> 0 .. OpenTimeout ]
    BY <1>1, LenProperties
  <2>2. QED
    BY <2>1
<1> HIDE DEF L
<1>6. CASE TimeoutOver(breaker)
  <2>1. breaker'.state = "HALF_OPEN" /\ breaker'.inFlight = 1
    BY <1>1, <1>3, <1>6 DEF Allow, BreakerType
  <2>2. \A i \in 1 .. L : trialAges[i] >= OpenTimeout
    <3>1. \A i \in 1 .. L : trialAges[i] >= breaker.openFor
      BY <1>6 DEF TimeoutOver, TrialHistory, L
    <3>2. breaker.openFor >= OpenTimeout /\ breaker.openFor \in Nat
      BY <1>1, <1>6 DEF TimeoutOver, BreakerType
    <3>3. QED
      BY <1>1, <1>5, <3>1, <3>2
  <2>3. \A i \in 1 .. Len(kept) - 1 : kept[i] >= OpenTimeout
    <3>1. CASE L < HalfOpenRequests
      BY <1>1, <1>2, <2>2, <3>1
    <3>2. CASE L = HalfOpenRequests
      <4>1. ASSUME NEW i \in 1 .. Len(kept) - 1 PROVE kept[i] >= OpenTimeout
        <5>1. i \in 1 .. L - 1 /\ i + 1 \in 1 .. L
          BY <1>1, <1>2, <3>2
        <5>2. kept[i] = trialAges[i + 1]
          BY <1>2, <3>2, <5>1
        <5>3. QED
          BY <2>2, <5>1, <5>2
      <4>2. QED
        BY <4>1
    <3>3. QED
      BY <1>4, <3>1, <3>2
  <2>4. 1 <= Len(kept) /\ 1 \in 1 .. HalfOpenRequests
    BY <1>1, <1>2, <1>4
  <2>5. QED
    BY <1>3, <2>1, <2>3, <2>4 DEF TrialHistory
<1>7. CASE ~TimeoutOver(breaker)
  <2> DEFINE s == breaker.inFlight
  <2>1. FreeTrial(breaker) /\ breaker.state = "HALF_OPEN"
    BY <1>7 DEF AdmitTrial, Allows, FreeTrial
  <2>2. breaker'.state = "HALF_OPEN" /\ breaker'.inFlight = s + 1
    BY <1>1, <1>3, <1>7, <2>1 DEF Allow, BreakerType
  <2>3. /\ s \in 1 .. HalfOpenRequests /\ s < HalfOpenRequests /\ s <= L
        /\ \A i \in 1 .. L - s : trialAges[i] >= OpenTimeout
    BY <2>1 DEF FreeTrial, TrialHistory, L
  <2> HIDE DEF s
  <2>4. /\ s + 1 \in 1 .. HalfOpenRequests /\ s + 1 <= Len(kept)
        /\ \A i \in 1 .. Len(kept) - (s + 1) : kept[i] >= OpenTimeout
    <3>1. s \in Nat /\ s + 1 \in 1 .. HalfOpenRequests
      BY <1>1, <2>3
    <3>2. CASE L < HalfOpenRequests
      <4>1. Len(kept) = L + 1 /\ \A i \in 1 .. L : kept[i] = trialAges[i]
        BY <1>2, <3>2
      <4>2. \A i \in 1 .. L - s : i \in 1 .. L
        BY <1>1, <2>3, <3>1
      <4>3. Len(kept) - (s + 1) = L - s /\ s + 1 <= Len(kept)
        BY <1>1, <2>3, <3>1, <4>1
      <4>4. \A i \in 1 .. L - s : kept[i] >= OpenTimeout
        BY <2>3, <4>1, <4>2
      <4>5. QED
        BY <3>1, <4>3, <4>4
    <3>3. CASE L = HalfOpenRequests
      <4>1. Len(kept) = L /\ \A i \in 1 .. L - 1 : kept[i] = trialAges[i + 1]
        BY <1>2, <3>3
      <4>2. \A i \in 1 .. L - (s + 1) : i \in 1 .. L - 1 /\ i + 1 \in 1 .. L - s
        BY <1>1, <2>3, <3>1
      <4>3. \A i \in 1 .. L - (s + 1) : kept[i] >= OpenTimeout
        BY <2>3, <4>1, <4>2
      <4>4. s + 1 <= Len(kept)
        BY <1>1, <2>3, <3>1, <3>3, <4>1
      <4>5. QED
        BY <3>1, <4>1, <4>3, <4>4
    <3>4. QED
      BY <1>4, <3>2, <3>3
  <2>5. QED
    BY <1>3, <2>2, <2>4 DEF TrialHistory
<1>8. QED
  BY <1>6, <1>7

\* The clock ages the trials as fast as the opening.
LEMMA TickTrialHistory ==
  ASSUME TypeOK, TrialHistory, Tick
  PROVE  TrialHistory'
<1> DEFINE L == Len(trialAges)
<1>1. /\ breaker \in BreakerType /\ trialAges \in Seq(0 .. OpenTimeout)
      /\ L \in Nat /\ OpenTimeout \in Nat
  BY BreakerConfig DEF TypeOK
<1>2. /\ Len(trialAges') = L
      /\ \A i \in 1 .. L : trialAges'[i] = Saturated(trialAges[i] + 1, OpenTimeout)
  BY <1>1, OlderAges DEF Tick, Saturated
<1>3. \A i \in 1 .. L : trialAges[i] \in 0 .. OpenTimeout
  <2>1. trialAges \in [ 1 .. Len(trialAges) -> 0 .. OpenTimeout ]
    BY <1>1, LenProperties
  <2>2. QED
    BY <2>1
<1>4. /\ breaker'.state = breaker.state /\ breaker'.inFlight = breaker.inFlight
      /\ breaker.state = "OPEN" => breaker'.openFor = Saturated(breaker.openFor + 1, OpenTimeout)
      /\ breaker.openFor \in 0 .. OpenTimeout
  BY <1>1 DEF Tick, Elapse, BreakerType
<1> HIDE DEF L
<1>5. CASE breaker.state = "OPEN"
  <2>1. \A i \in 1 .. L : trialAges[i] >= breaker.openFor
    BY <1>5 DEF TrialHistory, L
  <2>2. ASSUME NEW i \in 1 .. L PROVE trialAges'[i] >= breaker'.openFor
    <3>1. trialAges[i] >= breaker.openFor /\ trialAges[i] \in 0 .. OpenTimeout
      BY <1>3, <2>1
    <3>2. /\ trialAges'[i] = Saturated(trialAges[i] + 1, OpenTimeout)
          /\ breaker'.openFor = Saturated(breaker.openFor + 1, OpenTimeout)
      BY <1>2, <1>4, <1>5
    <3>3. QED
      BY <1>1, <1>4, <3>1, <3>2 DEF Saturated
  <2>3. QED
    BY <1>2, <1>4, <1>5, <2>2 DEF TrialHistory
<1>6. CASE breaker.state = "HALF_OPEN"
  <2> DEFINE s == breaker.inFlight
  <2>1. /\ s \in 1 .. HalfOpenRequests /\ s <= L
        /\ \A i \in 1 .. L - s : trialAges[i] >= OpenTimeout
    BY <1>6 DEF TrialHistory, L
  <2> HIDE DEF s
  <2>2. s \in Nat /\ \A i \in 1 .. L - s : i \in 1 .. L
    BY <1>1, <2>1, BreakerConfig
  <2>3. \A i \in 1 .. L - s : trialAges'[i] >= OpenTimeout
    BY <1>1, <1>2, <1>3, <2>1, <2>2 DEF Saturated
  <2>4. QED
    BY <1>2, <1>4, <1>6, <2>1, <2>3 DEF TrialHistory, s
<1>7. CASE breaker.state = "CLOSED"
  BY <1>4, <1>7 DEF TrialHistory
<1>8. QED
  BY <1>1, <1>5, <1>6, <1>7 DEF BreakerType, State


\* Every step keeps the trial history.
LEMMA NextTrialHistory == TypeOK /\ TrialHistory /\ [Next]_vars => TrialHistory'
<1> SUFFICES ASSUME TypeOK, TrialHistory, [Next]_vars PROVE TrialHistory'
  OBVIOUS
<1>1. ASSUME NEW c \in Caller, AdmitSteady(c) PROVE TrialHistory'
  <2>1. breaker' = breaker /\ trialAges' = trialAges
    BY <1>1 DEF AdmitSteady, Becomes, Allow, TimeoutOver, FreeTrial
  <2>2. QED
    BY <2>1 DEF TrialHistory
<1>2. ASSUME NEW c \in Caller, AdmitTrial(c) PROVE TrialHistory'
  BY <1>2, AdmitTrialHistory
<1>3. ASSUME NEW c \in Caller, Succeed(c) PROVE TrialHistory'
  BY <1>3, ReportTrialHistory DEF Succeed, Becomes
<1>4. ASSUME NEW c \in Caller, NEW e \in Outcome \ {"success"}, Fail(c, e)
      PROVE  TrialHistory'
  BY <1>4, ReportTrialHistory DEF Fail, Becomes
<1>5. CASE Tick
  BY <1>5, TickTrialHistory
<1>6. CASE UNCHANGED vars
  BY <1>6 DEF vars, TrialHistory
<1>7. QED
  BY <1>1, <1>2, <1>3, <1>4, <1>5, <1>6 DEF Next

\* The trial history holds in every reachable state.
LEMMA TrialHistoryCorrect == Spec => [](TypeOK /\ TrialHistory)
<1>1. Init => TrialHistory
  BY DEF Init, New, TrialHistory
<1>2. QED
  BY <1>1, InitTypeOK, NextTypeOK, NextTrialHistory, PTL DEF Spec

\* However late the reports, no OpenTimeout sees more than HalfOpenRequests
\* trials of the upstream.
THEOREM TrialRateHolds == Spec => TrialRate
<1> DEFINE Bounded ==
      (\E c \in Caller : call[c] = "idle" /\ call'[c] = "trial")
      /\ Len(trialAges) = HalfOpenRequests => trialAges[1] >= OpenTimeout
<1>1. TypeOK /\ TrialHistory /\ [Next]_vars => [ Bounded ]_vars
  <2> SUFFICES ASSUME TypeOK, TrialHistory, [Next]_vars,
                      NEW x \in Caller, call[x] = "idle", call'[x] = "trial",
                      Len(trialAges) = HalfOpenRequests
               PROVE  trialAges[1] >= OpenTimeout
    OBVIOUS
  <2>1. /\ breaker \in BreakerType /\ trialAges \in Seq(0 .. OpenTimeout)
        /\ HalfOpenRequests \in Nat /\ HalfOpenRequests > 0 /\ OpenTimeout \in Nat
        /\ call \in [ Caller -> Fate ]
    BY BreakerConfig DEF TypeOK
  <2>2. PICK c \in Caller : AdmitTrial(c)
    <3>1. ASSUME NEW c \in Caller, NEW b, NEW fate, fate # "trial", Becomes(b, c, fate)
          PROVE  FALSE
      BY <3>1, <2>1 DEF Becomes
    <3>2. ~(\E c \in Caller : AdmitSteady(c) \/ Succeed(c))
      BY <3>1 DEF AdmitSteady, Succeed
    <3>3. ~(\E c \in Caller, e \in Outcome \ {"success"} : Fail(c, e))
      BY <3>1 DEF Fail
    <3>4. ~Tick /\ ~UNCHANGED vars
      BY DEF Tick, vars
    <3>5. QED
      BY <3>2, <3>3, <3>4 DEF Next
  <2>3. trialAges[1] \in 0 .. OpenTimeout
    <3>1. trialAges \in [ 1 .. Len(trialAges) -> 0 .. OpenTimeout ]
      BY <2>1, LenProperties
    <3>2. QED
      BY <2>1, <3>1
  <2>4. CASE TimeoutOver(breaker)
    <3>1. trialAges[1] >= breaker.openFor
      BY <2>1, <2>4 DEF TimeoutOver, TrialHistory
    <3>2. breaker.openFor >= OpenTimeout /\ breaker.openFor \in Nat
      BY <2>1, <2>4 DEF TimeoutOver, BreakerType
    <3>3. QED
      BY <2>1, <2>3, <3>1, <3>2
  <2>5. CASE FreeTrial(breaker)
    BY <2>1, <2>5 DEF FreeTrial, TrialHistory
  <2>6. QED
    BY <2>2, <2>4, <2>5 DEF AdmitTrial, Allows
<1>2. QED
  BY <1>1, TrialHistoryCorrect, PTL DEF Spec, TrialRate

\* The trials in flight hold a slot each.
SlotInv ==
  /\ breaker.state = "HALF_OPEN" => Cardinality(Trials) <= breaker.inFlight
  /\ breaker.state # "HALF_OPEN" => Trials = {}

\* Every step keeps the trials within the slots.
LEMMA NextSlots == TypeOK /\ SlotInv /\ [Next]_vars => SlotInv'
<1> SUFFICES ASSUME TypeOK, SlotInv, [Next]_vars PROVE SlotInv'
  OBVIOUS
<1>1. breaker \in BreakerType /\ call \in [ Caller -> Fate ]
  BY DEF TypeOK
<1>2. IsFiniteSet(Trials) /\ Cardinality(Trials) \in Nat
  BY FiniteCallers, FS_Subset, FS_CardinalityType DEF Trials
<1>3. ASSUME NEW c \in Caller, NEW b, NEW fate, Becomes(b, c, fate), fate # "trial",
             b.state = "HALF_OPEN" => breaker.state = "HALF_OPEN" /\ b.inFlight = breaker.inFlight
      PROVE  SlotInv'
  <2>1. Trials' \subseteq Trials
    BY <1>3 DEF Becomes, Trials
  <2>2. Cardinality(Trials') <= Cardinality(Trials) /\ Cardinality(Trials') \in Nat
    BY <1>2, <2>1, FS_Subset, FS_CardinalityType
  <2>3. CASE breaker'.state = "HALF_OPEN"
    BY <1>1, <1>2, <1>3, <2>2, <2>3 DEF Becomes, SlotInv, BreakerType
  <2>4. CASE breaker'.state # "HALF_OPEN"
    <3>1. Trials' = {}
      <4>1. CASE breaker.state = "HALF_OPEN"
        BY <1>3, <2>4, <4>1 DEF Becomes, Trials
      <4>2. CASE breaker.state # "HALF_OPEN"
        BY <2>1, <4>2 DEF SlotInv
      <4>3. QED
        BY <4>1, <4>2
    <3>2. QED
      BY <2>4, <3>1 DEF SlotInv
  <2>5. QED
    BY <2>3, <2>4
<1>4. ASSUME NEW c \in Caller, AdmitSteady(c) PROVE SlotInv'
  <2>1. Allow(breaker) = breaker
    BY <1>4 DEF AdmitSteady, Allow, TimeoutOver, FreeTrial
  <2>2. QED
    BY <1>3, <1>4, <2>1 DEF AdmitSteady
<1>5. ASSUME NEW c \in Caller, AdmitTrial(c) PROVE SlotInv'
  <2>1. Becomes(Allow(breaker), c, "trial")
    BY <1>5 DEF AdmitTrial
  <2>2. CASE TimeoutOver(breaker)
    <3>1. breaker.state # "HALF_OPEN" /\ breaker'.state = "HALF_OPEN" /\ breaker'.inFlight = 1
      BY <1>1, <2>1, <2>2 DEF TimeoutOver, Becomes, Allow, BreakerType
    <3>2. Trials' \subseteq {c}
      BY <2>1, <3>1 DEF SlotInv, Becomes, Trials
    <3>3. Cardinality({c}) = 1 /\ IsFiniteSet({c})
      BY FS_Singleton
    <3>4. Cardinality(Trials') <= 1
      BY <3>2, <3>3, FS_Subset
    <3>5. QED
      BY <3>1, <3>4 DEF SlotInv
  <2>3. CASE ~TimeoutOver(breaker) /\ FreeTrial(breaker)
    <3>1. /\ breaker.state = "HALF_OPEN" /\ breaker'.state = "HALF_OPEN"
          /\ breaker'.inFlight = breaker.inFlight + 1 /\ breaker.inFlight \in Nat
      BY <1>1, <2>1, <2>3 DEF FreeTrial, Becomes, Allow, BreakerType
    <3>2. Trials' \subseteq Trials \cup {c}
      BY <2>1, <3>1 DEF Becomes, Trials
    <3>3. IsFiniteSet(Trials \cup {c})
          /\ Cardinality(Trials \cup {c}) <= Cardinality(Trials) + 1
      BY <1>2, FS_AddElement
    <3>4. Cardinality(Trials') <= Cardinality(Trials \cup {c})
          /\ Cardinality(Trials') \in Nat /\ Cardinality(Trials \cup {c}) \in Nat
      BY <3>2, <3>3, FS_Subset, FS_CardinalityType
    <3>5. Cardinality(Trials) <= breaker.inFlight
      BY <3>1 DEF SlotInv
    <3>6. QED
      BY <1>2, <3>1, <3>3, <3>4, <3>5 DEF SlotInv
  <2>4. QED
    BY <1>5, <2>2, <2>3 DEF AdmitTrial, Allows
<1>6. ASSUME NEW c \in Caller, Succeed(c) PROVE SlotInv'
  <2>1. Becomes(RecordSuccess(breaker), c, "idle")
    BY <1>6 DEF Succeed
  <2>2. RecordSuccess(breaker).state = "HALF_OPEN" =>
          breaker.state = "HALF_OPEN" /\ RecordSuccess(breaker).inFlight = breaker.inFlight
    BY <1>1, ReportShape
  <2>3. QED
    BY <1>3, <2>1, <2>2
<1>7. ASSUME NEW c \in Caller, NEW e \in Outcome \ {"success"}, Fail(c, e) PROVE SlotInv'
  <2>1. Becomes(RecordFailure(breaker, e), c, "idle")
    BY <1>7 DEF Fail
  <2>2. RecordFailure(breaker, e).state = "HALF_OPEN" =>
          breaker.state = "HALF_OPEN" /\ RecordFailure(breaker, e).inFlight = breaker.inFlight
    BY <1>1, ReportShape
  <2>3. QED
    BY <1>3, <2>1, <2>2
<1>8. CASE Tick
  BY <1>1, <1>8 DEF Tick, Elapse, BreakerType, Trials, SlotInv
<1>9. CASE UNCHANGED vars
  BY <1>9 DEF vars, Trials, SlotInv
<1>10. QED
  BY <1>4, <1>5, <1>6, <1>7, <1>8, <1>9 DEF Next

\* Trials in flight never outnumber the slots, nor the slots HalfOpenRequests.
THEOREM SlotsHold == Spec => []TrialsWithinSlots
<1>1. Init => SlotInv
  BY DEF Init, New, Trials, SlotInv
<1>2. TrialHistory /\ SlotInv => TrialsWithinSlots
  BY BreakerConfig DEF TrialHistory, SlotInv, TrialsWithinSlots
<1>3. QED
  BY <1>1, <1>2, InitTypeOK, NextTypeOK, NextSlots, TrialHistoryCorrect, PTL DEF Spec
=============================================================================
