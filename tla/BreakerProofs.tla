---------------------------- MODULE BreakerProofs ----------------------------
(***************************************************************************)
(* Lemmas about the operators of Breaker, for every threshold, window,     *)
(* timeout and trial budget.                                               *)
(***************************************************************************)
EXTENDS Breaker, FiniteSetTheorems, SequenceTheorems, TLAPS

\* A tick keeps the length of a list of ages and moves each age towards the bound.
LEMMA OlderAges ==
  ASSUME NEW bound \in Nat, NEW ages \in Seq(0 .. bound)
  PROVE  /\ Older(ages, bound) \in Seq(0 .. bound)
         /\ Len(Older(ages, bound)) = Len(ages)
         /\ \A i \in 1 .. Len(ages) :
              Older(ages, bound)[i] = IF ages[i] + 1 < bound THEN ages[i] + 1 ELSE bound
<1>1. ages \in [ 1 .. Len(ages) -> 0 .. bound ] /\ Len(ages) \in Nat
  BY LenProperties
<1>2. DOMAIN ages = 1 .. Len(ages)
  BY <1>1
<1> DEFINE f == [ i \in 1 .. Len(ages) |-> IF ages[i] + 1 < bound THEN ages[i] + 1 ELSE bound ]
<1>3. Older(ages, bound) = f
  BY <1>2 DEF Older, Saturated
<1>4. f \in [ 1 .. Len(ages) -> 0 .. bound ]
  BY <1>1
<1>5. f \in Seq(0 .. bound) /\ Len(f) = Len(ages)
  BY <1>1, <1>4, SMTT(30)
<1>6. QED
  BY <1>3, <1>5

\* The expired failures of a list are counted by a number within its length.
LEMMA ExpiredCount ==
  ASSUME NEW ages \in Seq(0 .. FailureWindow)
  PROVE  /\ IsFiniteSet(Expired(ages))
         /\ Cardinality(Expired(ages)) \in 0 .. Len(ages)
<1> DEFINE m == Len(ages)
<1>1. Expired(ages) \in SUBSET (1 .. m) /\ m \in Nat
  BY DEF Expired
<1> HIDE DEF m
<1>2. IsFiniteSet(1 .. m) /\ Cardinality(1 .. m) = m
  BY <1>1, FS_Interval
<1>3. QED
  BY <1>1, <1>2, FS_Subset, FS_CardinalityType DEF m

\* InWindow drops as many failures from the front as have expired.
LEMMA InWindowAges ==
  ASSUME NEW ages \in Seq(0 .. FailureWindow)
  PROVE  LET n == Cardinality(Expired(ages)) IN
         /\ InWindow(ages) \in Seq(0 .. FailureWindow)
         /\ Len(InWindow(ages)) = Len(ages) - n
         /\ \A i \in 1 .. Len(ages) - n : InWindow(ages)[i] = ages[n + i]
<1> DEFINE n == Cardinality(Expired(ages))
<1>1. n \in 0 .. Len(ages) /\ Len(ages) \in Nat
  BY ExpiredCount
<1>2. InWindow(ages) = SubSeq(ages, n + 1, Len(ages))
  BY DEF InWindow
<1> HIDE DEF n
<1>3. \A i \in n + 1 .. Len(ages) : ages[i] \in 0 .. FailureWindow
  <2>1. ages \in [ 1 .. Len(ages) -> 0 .. FailureWindow ]
    BY LenProperties
  <2>2. QED
    BY <1>1, <2>1
<1>4. n + 1 \in Int /\ Len(ages) \in Int
  BY <1>1
<1>5. /\ SubSeq(ages, n + 1, Len(ages)) \in Seq(0 .. FailureWindow)
      /\ Len(SubSeq(ages, n + 1, Len(ages)))
           = IF n + 1 <= Len(ages) THEN Len(ages) - (n + 1) + 1 ELSE 0
      /\ \A i \in 1 .. Len(ages) - (n + 1) + 1 :
           SubSeq(ages, n + 1, Len(ages))[i] = ages[n + 1 + i - 1]
  BY <1>3, <1>4, SubSeqProperties
<1>6. Len(InWindow(ages)) = Len(ages) - n
  BY <1>1, <1>2, <1>5
<1>7. \A i \in 1 .. Len(ages) - n : InWindow(ages)[i] = ages[n + i]
  <2> TAKE i \in 1 .. Len(ages) - n
  <2>1. i \in 1 .. Len(ages) - (n + 1) + 1 /\ n + 1 + i - 1 = n + i
    BY <1>1
  <2>2. QED
    BY <1>2, <1>5, <2>1
<1>8. QED
  BY <1>2, <1>5, <1>6, <1>7 DEF n

\* Ages as the breaker keeps them: oldest first.
NonIncreasing(ages) ==
  \A i, j \in 1 .. Len(ages) : i <= j => ages[i] >= ages[j]

\* In such a list the expired failures are the first ones.
LEMMA ExpiredPrefix ==
  ASSUME NEW ages \in Seq(0 .. FailureWindow), NonIncreasing(ages)
  PROVE  Expired(ages) = 1 .. Cardinality(Expired(ages))
<1> DEFINE E == Expired(ages)
           n == Cardinality(E)
<1>1. IsFiniteSet(E) /\ n \in 0 .. Len(ages) /\ Len(ages) \in Nat
  BY ExpiredCount
<1>2. ages \in [ 1 .. Len(ages) -> 0 .. FailureWindow ]
  BY LenProperties
<1>3. E = { i \in 1 .. Len(ages) : ages[i] >= FailureWindow }
  BY <1>2 DEF Expired
<1> HIDE DEF E
<1>4. ASSUME NEW x \in E PROVE x \in 1 .. n
  <2>1. x \in 1 .. Len(ages) /\ x \in Nat
    BY <1>1, <1>3
  <2>2. 1 .. x \subseteq E
    <3>1. ASSUME NEW i \in 1 .. x PROVE i \in E
      <4>1. i \in 1 .. Len(ages) /\ i <= x
        BY <1>1, <2>1
      <4>2. ages[i] >= ages[x] /\ ages[x] >= FailureWindow
        BY <1>3, <2>1, <4>1 DEF NonIncreasing
      <4>3. ages[i] \in Int /\ ages[x] \in Int /\ FailureWindow \in Int
        BY <1>2, <2>1, <4>1, BreakerConfig
      <4>4. QED
        BY <1>3, <4>1, <4>2, <4>3
    <3>2. QED
      BY <3>1
  <2>3. Cardinality(1 .. x) = x
    BY <2>1, FS_Interval
  <2>4. Cardinality(1 .. x) <= Cardinality(E)
    BY <1>1, <2>2, FS_Subset
  <2>5. QED
    BY <1>1, <2>1, <2>3, <2>4
<1>5. E \in SUBSET (1 .. n)
  BY <1>4
<1>6. n \in Nat
  BY <1>1
<1> HIDE DEF n
<1>7. IsFiniteSet(1 .. n) /\ Cardinality(1 .. n) = n
  BY <1>6, FS_Interval
<1>8. E = 1 .. n
  BY <1>5, <1>7, FS_Subset DEF n
<1>9. QED
  BY <1>8 DEF E, n

\* A list without expired failures is its own window.
LEMMA NoneExpired ==
  ASSUME NEW ages \in Seq(0 .. FailureWindow),
         \A i \in 1 .. Len(ages) : ages[i] < FailureWindow
  PROVE  InWindow(ages) = ages
<1>1. ages \in [ 1 .. Len(ages) -> 0 .. FailureWindow ]
  BY LenProperties
<1>2. Expired(ages) = {}
  BY <1>1, BreakerConfig DEF Expired
<1>3. Cardinality(Expired(ages)) = 0
  BY <1>2, FS_EmptySet
<1>4. InWindow(ages) = SubSeq(ages, 1, Len(ages))
  BY <1>3 DEF InWindow
<1>5. QED
  BY <1>4, SubSeqFull

\* What is left in the window is still ordered, and none of it has expired.
LEMMA InWindowLive ==
  ASSUME NEW ages \in Seq(0 .. FailureWindow), NonIncreasing(ages)
  PROVE  /\ NonIncreasing(InWindow(ages))
         /\ \A i \in 1 .. Len(InWindow(ages)) : InWindow(ages)[i] < FailureWindow
         /\ InWindow(InWindow(ages)) = InWindow(ages)
<1> DEFINE n == Cardinality(Expired(ages))
           live == InWindow(ages)
<1>1. n \in 0 .. Len(ages) /\ Len(ages) \in Nat
  BY ExpiredCount
<1>2. /\ live \in Seq(0 .. FailureWindow)
      /\ Len(live) = Len(ages) - n
      /\ \A i \in 1 .. Len(ages) - n : live[i] = ages[n + i]
  BY InWindowAges
<1>3. Expired(ages) = 1 .. n
  BY ExpiredPrefix
<1>4. ages \in [ 1 .. Len(ages) -> 0 .. FailureWindow ]
  BY LenProperties
<1> HIDE DEF n, live
<1>5. ASSUME NEW i \in 1 .. Len(live) PROVE live[i] < FailureWindow
  <2>1. n + i \in 1 .. Len(ages) /\ n + i \notin 1 .. n /\ live[i] = ages[n + i]
    BY <1>1, <1>2
  <2>2. ~(ages[n + i] >= FailureWindow)
    BY <1>3, <1>4, <2>1 DEF Expired
  <2>3. ages[n + i] \in Int /\ FailureWindow \in Int
    BY <1>4, <2>1, BreakerConfig
  <2>4. QED
    BY <2>1, <2>2, <2>3
<1>6. ASSUME NEW i \in 1 .. Len(live), NEW j \in 1 .. Len(live), i <= j
      PROVE  live[i] >= live[j]
  <2>1. /\ n + i \in 1 .. Len(ages) /\ n + j \in 1 .. Len(ages) /\ n + i <= n + j
        /\ live[i] = ages[n + i] /\ live[j] = ages[n + j]
    BY <1>1, <1>2, <1>6
  <2>2. QED
    BY <2>1 DEF NonIncreasing
<1>7. InWindow(live) = live
  BY <1>2, <1>5, NoneExpired
<1>8. QED
  BY <1>5, <1>6, <1>7 DEF live, NonIncreasing

\* Ageing keeps the order.
LEMMA OlderOrdered ==
  ASSUME NEW ages \in Seq(0 .. FailureWindow), NonIncreasing(ages)
  PROVE  NonIncreasing(Older(ages, FailureWindow))
<1>1. FailureWindow \in Nat
  BY BreakerConfig
<1>2. ages \in [ 1 .. Len(ages) -> 0 .. FailureWindow ]
  BY LenProperties
<1>3. /\ Len(Older(ages, FailureWindow)) = Len(ages)
      /\ \A i \in 1 .. Len(ages) : Older(ages, FailureWindow)[i]
            = IF ages[i] + 1 < FailureWindow THEN ages[i] + 1 ELSE FailureWindow
  BY <1>1, OlderAges
<1>4. ASSUME NEW i \in 1 .. Len(ages), NEW j \in 1 .. Len(ages), i <= j
      PROVE  Older(ages, FailureWindow)[i] >= Older(ages, FailureWindow)[j]
  <2>1. ages[i] >= ages[j] /\ ages[i] \in Nat /\ ages[j] \in Nat
    BY <1>2, <1>4 DEF NonIncreasing
  <2>2. QED
    BY <1>1, <1>3, <2>1
<1>5. QED
  BY <1>3, <1>4 DEF NonIncreasing

\* Pruning may be deferred: ageing a list and then cutting the window gives
\* what ageing the window and cutting again gives.
LEMMA InWindowOlder ==
  ASSUME NEW ages \in Seq(0 .. FailureWindow), NonIncreasing(ages)
  PROVE  InWindow(Older(ages, FailureWindow))
           = InWindow(Older(InWindow(ages), FailureWindow))
<1> DEFINE W == FailureWindow
           L == Len(ages)
           g == Older(ages, W)
           h == InWindow(ages)
           k == Older(h, W)
           n == Cardinality(Expired(ages))
           e == Cardinality(Expired(g))
           d == Cardinality(Expired(k))
<1>1. W \in Nat /\ W > 0 /\ L \in Nat
  BY BreakerConfig
<1>2. ages \in [ 1 .. L -> 0 .. W ]
  BY LenProperties
<1>3. /\ g \in Seq(0 .. W) /\ Len(g) = L /\ NonIncreasing(g)
      /\ \A i \in 1 .. L : g[i] = IF ages[i] + 1 < W THEN ages[i] + 1 ELSE W
  BY <1>1, OlderAges, OlderOrdered
<1>4. /\ h \in Seq(0 .. W) /\ Len(h) = L - n /\ NonIncreasing(h)
      /\ \A i \in 1 .. L - n : h[i] = ages[n + i]
  BY InWindowAges, InWindowLive
<1> HIDE DEF g, h, W
<1>5. /\ k \in Seq(0 .. W) /\ Len(k) = Len(h) /\ NonIncreasing(k)
      /\ \A i \in 1 .. Len(h) : k[i] = IF h[i] + 1 < W THEN h[i] + 1 ELSE W
  BY <1>1, <1>4, OlderAges, OlderOrdered DEF W
<1>6. /\ n \in 0 .. L /\ Expired(ages) = 1 .. n
  BY ExpiredCount, ExpiredPrefix
<1>7. /\ e \in 0 .. L /\ Expired(g) = 1 .. e
  BY <1>3, ExpiredCount, ExpiredPrefix DEF W
<1> HIDE DEF k, n, e, d, L
<1>8. /\ d \in 0 .. L - n /\ Expired(k) = 1 .. d
  <2>1. k \in Seq(0 .. FailureWindow) /\ NonIncreasing(k)
    BY <1>5 DEF W
  <2>2. d \in 0 .. Len(k) /\ Expired(k) = 1 .. d
    BY <2>1, ExpiredCount, ExpiredPrefix DEF d
  <2>3. QED
    BY <1>4, <1>5, <2>2
<1>9. \A i \in 1 .. L - n : n + i \in 1 .. L /\ k[i] = g[n + i]
  <2> TAKE i \in 1 .. L - n
  <2>1. i \in 1 .. Len(h) /\ n + i \in 1 .. L
    BY <1>1, <1>4, <1>6
  <2>2. h[i] = ages[n + i]
    BY <1>4
  <2>3. k[i] = IF h[i] + 1 < W THEN h[i] + 1 ELSE W
    BY <1>5, <2>1
  <2>4. g[n + i] = IF ages[n + i] + 1 < W THEN ages[n + i] + 1 ELSE W
    BY <1>3, <2>1
  <2>5. QED
    BY <2>1, <2>2, <2>3, <2>4
<1>10. g \in [ 1 .. L -> 0 .. W ] /\ k \in [ 1 .. L - n -> 0 .. W ]
  BY <1>3, <1>4, <1>5, LenProperties
<1>11. n <= e
  <2>1. CASE n = 0
    BY <1>7, <2>1
  <2>2. CASE n > 0
    <3>1. n \in 1 .. L /\ n \in Expired(ages)
      BY <1>1, <1>6, <2>2
    <3>2. ages[n] >= W
      BY <3>1 DEF Expired, W
    <3>3. ages[n] \in 0 .. W
      BY <1>2, <3>1 DEF L, W
    <3>4. g[n] = W
      BY <1>1, <1>3, <3>1, <3>2, <3>3
    <3>5. n \in Expired(g)
      BY <1>1, <1>10, <3>1, <3>4 DEF Expired, W
    <3>6. QED
      BY <1>7, <3>5
  <2>3. QED
    BY <1>6, <2>1, <2>2
<1>12. \A i \in 1 .. L - n : i \in Expired(k) <=> n + i \in Expired(g)
  BY <1>9, <1>10 DEF Expired
<1>13. \A i \in 1 .. L - n : i <= d <=> n + i <= e
  <2> TAKE i \in 1 .. L - n
  <2>1. L \in Nat /\ n \in Nat /\ n <= L /\ i \in Nat /\ i >= 1 /\ n + i >= 1
    BY <1>1, <1>6
  <2>2. i \in 1 .. d <=> n + i \in 1 .. e
    BY <1>7, <1>8, <1>12
  <2>3. d \in Nat /\ e \in Nat
    BY <1>1, <1>6, <1>7, <1>8
  <2>4. QED
    BY <2>1, <2>2, <2>3
<1>14. n + d = e
  <2>1. CASE n + d < e
    <3>1. d + 1 \in 1 .. L - n /\ n + (d + 1) <= e /\ ~(d + 1 <= d)
      BY <1>1, <1>6, <1>7, <1>8, <2>1
    <3>2. QED
      BY <1>13, <3>1
  <2>2. CASE n + d > e
    <3>1. d \in 1 .. L - n /\ d <= d /\ ~(n + d <= e)
      BY <1>1, <1>6, <1>7, <1>8, <1>11, <2>2
    <3>2. QED
      BY <1>13, <3>1
  <2>3. QED
    BY <1>1, <1>6, <1>7, <1>8, <2>1, <2>2
<1>15. /\ InWindow(g) \in Seq(0 .. W) /\ Len(InWindow(g)) = L - e
       /\ \A i \in 1 .. L - e : InWindow(g)[i] = g[e + i]
  BY <1>3, InWindowAges DEF W, e
<1>16. /\ InWindow(k) \in Seq(0 .. W) /\ Len(InWindow(k)) = (L - n) - d
       /\ \A i \in 1 .. (L - n) - d : InWindow(k)[i] = k[d + i]
  <2>1. k \in Seq(0 .. FailureWindow)
    BY <1>5 DEF W
  <2>2. /\ InWindow(k) \in Seq(0 .. FailureWindow) /\ Len(InWindow(k)) = Len(k) - d
        /\ \A i \in 1 .. Len(k) - d : InWindow(k)[i] = k[d + i]
    BY <2>1, InWindowAges DEF d
  <2>3. QED
    BY <1>4, <1>5, <2>2 DEF W
<1>17. (L - n) - d = L - e
  BY <1>1, <1>6, <1>7, <1>8, <1>14
<1>18. ASSUME NEW i \in 1 .. L - e PROVE InWindow(g)[i] = InWindow(k)[i]
  <2>1. d + i \in 1 .. L - n /\ n + (d + i) = e + i
    BY <1>1, <1>6, <1>7, <1>8, <1>14
  <2>2. k[d + i] = g[e + i]
    BY <1>9, <2>1
  <2>3. QED
    BY <1>15, <1>16, <1>17, <2>2
<1>19. InWindow(g) = InWindow(k)
  BY <1>15, <1>16, <1>17, <1>18, SeqEqual
<1>20. QED
  BY <1>19 DEF g, h, k, W

\* Every method of the breaker keeps its record well-formed.
LEMMA BreakerTyped ==
  ASSUME NEW b \in BreakerType, NEW errType
  PROVE  /\ Allow(b) \in BreakerType
         /\ RecordSuccess(b) \in BreakerType
         /\ RecordFailure(b, errType) \in BreakerType
         /\ Elapse(b) \in BreakerType
<1>1. /\ b.state \in State /\ b.failures \in Seq(0 .. FailureWindow)
      /\ b.openFor \in 0 .. OpenTimeout /\ b.successes \in Nat /\ b.inFlight \in Nat
  BY DEF BreakerType
<1>2. <<>> \in Seq(0 .. FailureWindow) /\ 0 \in 0 .. OpenTimeout /\ 0 \in 0 .. FailureWindow
  BY BreakerConfig
<1>3. InWindow(b.failures) \in Seq(0 .. FailureWindow)
  BY <1>1, InWindowAges
<1>4. Append(InWindow(b.failures), 0) \in Seq(0 .. FailureWindow)
  BY <1>2, <1>3
<1>5. Older(b.failures, FailureWindow) \in Seq(0 .. FailureWindow)
  BY <1>1, BreakerConfig, OlderAges
<1>6. Saturated(b.openFor + 1, OpenTimeout) \in 0 .. OpenTimeout
  BY <1>1, BreakerConfig DEF Saturated
<1>7. Allow(b) \in BreakerType
  <2>1. CASE TimeoutOver(b)
    BY <1>1, <1>2, <2>1 DEF Allow, BreakerType, State
  <2>2. CASE ~TimeoutOver(b) /\ FreeTrial(b)
    BY <1>1, <2>2 DEF Allow, BreakerType
  <2>3. CASE ~TimeoutOver(b) /\ ~FreeTrial(b)
    BY <2>3 DEF Allow
  <2>4. QED
    BY <2>1, <2>2, <2>3
<1>8. RecordSuccess(b) \in BreakerType
  BY <1>1, <1>2, <1>3 DEF RecordSuccess, New, BreakerType, State
<1>9. RecordFailure(b, errType) \in BreakerType
  BY <1>1, <1>2, <1>4 DEF RecordFailure, Tripped, BreakerType, State
<1>10. Elapse(b) \in BreakerType
  BY <1>1, <1>5, <1>6 DEF Elapse, BreakerType
<1>11. QED
  BY <1>7, <1>8, <1>9, <1>10
=============================================================================
