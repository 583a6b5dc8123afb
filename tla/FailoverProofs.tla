---------------------------- MODULE FailoverProofs ----------------------------
(***************************************************************************)
(* Proofs about the candidate loop of Failover: a request leaves a tier in *)
(* which it has failed only with evidence, is answered once, and costs the *)
(* upstreams a bounded number of sends, on every route the router offers.  *)
(***************************************************************************)
EXTENDS Failover, FiniteSetTheorems, TLAPS

ErrType == [ class : ErrorClass \cup { "none", "refused" }, at : Places ]
CtxType == { "live", "canceled", "expired" }

\* Being in the middle of a candidate: it is the one the iterator gave last, and
\* its tier is the loop's.
InHand ==
  /\ loop.current = try.at
  /\ try.sending => try.stage \in Sends
  /\ try.at = 0 => loop.tier = "" /\ try.stage \in { "next", "done" }
  /\ try.at # 0 => loop.tier = Here.tier

\* Nothing has been sent to a candidate that has not been reached, nor, as long as
\* the tier has seen no failure, to any of its candidates but the one in hand.
Unsent ==
  /\ \A i \in DOMAIN route : i > try.at => sent[i] = 0
  /\ ~loop.sawFailure =>
       \A i \in DOMAIN route : i # try.at /\ route[i].tier = loop.tier => sent[i] = 0
  /\ ~loop.sawFailure /\ try.stage = "next" /\ try.at # 0 => sent[try.at] = 0
  /\ try.stage = "first" /\ ~try.sending => sent[try.at] = 0

\* The evidence in hand is an upstream's answer in the current tier.
Proven ==
  /\ loop.quotaEvidence => loop.tier \in shown
  /\ try.cause = "quota" /\ try.stage \in { "swap", "other" } /\ OnPlan => loop.tier \in shown

FInv == TypeOK /\ InHand /\ Unsent /\ Proven

LEMMA ConstantTypes ==
  /\ Routes \subseteq Seq(Candidate)
  /\ MaxRetry \subseteq Nat
  /\ SameKeyRetries \in Nat \ {0}
BY FailoverConfig

LEMMA RouteType ==
  ASSUME route \in Routes
  PROVE  /\ route \in Seq(Candidate) /\ Len(route) \in Nat
         /\ DOMAIN route = 1 .. Len(route)
<1>1. route \in Seq(Candidate)
  BY ConstantTypes
<1> QED BY <1>1

LEMMA HereType ==
  ASSUME TypeOK, try.at # 0  PROVE  Here.tier \in Tiers
<1>1. try.at \in DOMAIN route /\ route \in Seq(Candidate)
  BY RouteType DEF TypeOK, TryType, Places
<1>2. Here \in Candidate
  BY <1>1 DEF Here
<1> QED BY <1>2 DEF Candidate

LEMMA Contiguous ==
  ASSUME route \in Routes, NEW i \in DOMAIN route, NEW j \in DOMAIN route,
         NEW m \in DOMAIN route, i < m, m < j, route[i].tier = route[j].tier
  PROVE  route[m].tier = route[i].tier
BY FailoverConfig

-----------------------------------------------------------------------------
(* What a step inside a candidate leaves of the loop's knowledge.          *)

Keeps ==
  /\ loop' \in LoopType /\ try' \in TryType /\ answer' \in Answer \cup {"none"}
  /\ loop'.current = loop.current /\ loop'.tier = loop.tier /\ try'.at = try.at
  /\ try.at = 0 => try'.stage = "done"
  /\ loop.sawFailure => loop'.sawFailure
  /\ loop'.quotaEvidence => loop.tier \in shown'
  /\ try'.stage = "next" => loop'.sawFailure \/ sent[try.at] = 0
  /\ try'.stage # "first" /\ ~try'.sending
  /\ try'.cause = "quota" /\ try'.stage \in { "swap", "other" } /\ OnPlan => loop.tier \in shown'

\* A step that keeps them, and sends nothing, keeps the invariant.
LEMMA KeepsInvariant ==
  ASSUME FInv, Keeps, UNCHANGED << route, cap, sent, ctx >>,
         lastErr' \in ErrType, shown' \subseteq Tiers, shown \subseteq shown'
  PROVE  FInv'
<1>1. TypeOK'
  BY DEF FInv, TypeOK, Keeps, ErrType, LoopType, TryType, Places
<1>2. InHand'
  BY DEF FInv, InHand, Keeps, Here, Sends
<1>3. Unsent'
  <2>1. loop'.sawFailure \in BOOLEAN /\ loop.sawFailure \in BOOLEAN
    BY DEF FInv, TypeOK, Keeps, LoopType
  <2> QED BY <2>1 DEF FInv, Unsent, Keeps
<1>4. Proven'
  BY DEF FInv, Keeps, Proven, OnPlan, Here
<1> QED BY <1>1, <1>2, <1>3, <1>4 DEF FInv

LEMMA FailureAnswersType ==
  ASSUME NEW e  PROVE FailureAnswers(e) \subseteq Answer
BY DEF FailureAnswers, Answer

LEMMA HandleAllFailedKeeps ==
  ASSUME FInv, NEW e, HandleAllFailed(e), shown \subseteq shown'
  PROVE  Keeps
<1>1. answer' \in Answer \cup {"none"}
  BY FailureAnswersType DEF HandleAllFailed, FInv, TypeOK
<1>2. try' \in TryType /\ try'.at = try.at /\ try'.stage = "done" /\ ~try'.sending
  BY DEF HandleAllFailed, FInv, TypeOK, TryType, Stage, Places
<1> QED BY <1>1, <1>2 DEF Keeps, HandleAllFailed, FInv, TypeOK, Proven

LEMMA ReturnsKeeps ==
  ASSUME FInv, NEW outcome, NEW quotaEv \in BOOLEAN, NEW attempted \in BOOLEAN,
         Returns(outcome, quotaEv, attempted),
         try.at # 0, shown \subseteq shown',
         quotaEv => Here.tier \in shown',
         ~attempted => sent[try.at] = 0
  PROVE  Keeps
<1>1. CASE ctx # "live" \/ outcome = "fatal"
  BY <1>1, HandleAllFailedKeeps DEF Returns
<1>2. CASE ~(ctx # "live" \/ outcome = "fatal")
  <2>1. try' = [ try EXCEPT !.stage = "next", !.sending = FALSE ] /\ answer' = answer
    BY <1>2 DEF Returns
  <2>2. loop' = [ loop EXCEPT !.quotaEvidence = IF quotaEv THEN TRUE ELSE @,
                              !.sawFailure = IF attempted THEN TRUE ELSE @,
                              !.attempts = IF attempted THEN @ + 1 ELSE @ ]
    BY <1>2 DEF Returns
  <2>3. loop \in LoopType /\ try \in TryType /\ answer \in Answer \cup {"none"}
    BY DEF FInv, TypeOK
  <2>4. try' \in TryType /\ try'.at = try.at /\ try'.stage = "next" /\ ~try'.sending
    BY <2>1, <2>3 DEF TryType, Stage
  <2>5. /\ loop' \in LoopType
        /\ loop'.current = loop.current /\ loop'.tier = loop.tier
    <3> DEFINE q == IF quotaEv THEN TRUE ELSE loop.quotaEvidence
               s == IF attempted THEN TRUE ELSE loop.sawFailure
               n == IF attempted THEN loop.attempts + 1 ELSE loop.attempts
    <3>1. q \in BOOLEAN /\ s \in BOOLEAN /\ n \in Nat
      <4>1. /\ loop.quotaEvidence \in BOOLEAN /\ loop.sawFailure \in BOOLEAN
            /\ loop.attempts \in Nat
        BY <2>3 DEF LoopType
      <4>2. q \in BOOLEAN
        BY <4>1
      <4>3. s \in BOOLEAN
        BY <4>1
      <4>4. n \in Nat
        BY <4>1
      <4> QED BY <4>2, <4>3, <4>4
    <3>2. loop' = [ current |-> loop.current, tier |-> loop.tier, attempts |-> n,
                    sawFailure |-> s, quotaEvidence |-> q ]
      BY <2>2, <2>3 DEF LoopType
    <3> HIDE DEF q, s, n
    <3> QED BY <2>3, <3>1, <3>2 DEF LoopType
  <2>6. loop.sawFailure => loop'.sawFailure
    BY <2>2, <2>3 DEF LoopType
  <2>7. loop'.sawFailure \/ sent[try.at] = 0
    BY <2>2, <2>3 DEF LoopType
  <2>8. loop'.quotaEvidence => loop.tier \in shown'
    <3>1. loop.quotaEvidence => loop.tier \in shown'
      BY DEF FInv, Proven
    <3>2. quotaEv => loop.tier \in shown'
      BY DEF FInv, InHand
    <3> QED BY <2>2, <2>3, <3>1, <3>2 DEF LoopType
  <2> QED BY <2>1, <2>3, <2>4, <2>5, <2>6, <2>7, <2>8 DEF Keeps
<1> QED BY <1>1, <1>2

\* Another stage of the same candidate, with what brought it there.
LEMMA MovesKeeps ==
  ASSUME FInv, try.at # 0, UNCHANGED << loop, answer >>, try' \in TryType,
         try'.at = try.at, try'.stage \notin { "next", "first" }, ~try'.sending,
         shown \subseteq shown',
         try'.cause = "quota" /\ try'.stage \in { "swap", "other" } /\ OnPlan
           => loop.tier \in shown'
  PROVE  Keeps
BY DEF FInv, TypeOK, Proven, Keeps

-----------------------------------------------------------------------------
(* The branches of tryCandidate.                                           *)

LEMMA StopsKeeps ==
  ASSUME FInv, Stops, try.at # 0, shown \subseteq shown'
  PROVE  Keeps
BY ReturnsKeeps DEF Stops

LEMMA ContinuesKeeps ==
  ASSUME FInv, NEW quotaEv \in BOOLEAN, Continues(quotaEv), try.at # 0,
         shown \subseteq shown', quotaEv => Here.tier \in shown'
  PROVE  Keeps
BY ReturnsKeeps DEF Continues

LEMMA GoesToKeeps ==
  ASSUME FInv, NEW stage \in { "again", "other", "ask", "done" }, GoesTo(stage),
         try.at # 0, shown \subseteq shown',
         stage = "other" => try.stage = "swap"
  PROVE  Keeps
<1>1. /\ try' \in TryType /\ try'.at = try.at /\ try'.stage = stage
      /\ try'.cause = try.cause /\ ~try'.sending
  BY DEF GoesTo, FInv, TypeOK, TryType, Stage
<1>2. try'.cause = "quota" /\ try'.stage \in { "swap", "other" } /\ OnPlan
           => loop.tier \in shown'
  BY <1>1 DEF FInv, Proven
<1> QED BY <1>1, <1>2, MovesKeeps DEF GoesTo

LEMMA AsksQuotaKeeps ==
  ASSUME FInv, AsksQuota, try.at # 0, shown \subseteq shown'
  PROVE  Keeps
BY GoesToKeeps, ContinuesKeeps DEF AsksQuota

\* A quota error in hand has been shown of the candidate's tier, if it is a plan.
LEMMA HandlesKeeps ==
  ASSUME FInv, NEW e \in ErrorClass, Handles(e), try.at # 0, shown \subseteq shown',
         e = "quota" /\ OnPlan => Here.tier \in shown'
  PROVE  Keeps
<1> USE DEF ErrorClass
<1>0. /\ try \in TryType /\ OnPlan \in BOOLEAN
      /\ loop.tier = Here.tier
  BY DEF FInv, TypeOK, InHand, OnPlan
<1>1. CASE try.stage = "first" /\ FirstFails(e)
  <2>1. CASE e \in NonRetryable /\ IF Unfit(e) THEN Continues(FALSE) ELSE Stops
    BY <2>1, ContinuesKeeps, StopsKeeps
  <2>2. CASE GoesTo("again")
    BY <2>2, GoesToKeeps
  <2>3. CASE /\ try' = [ try EXCEPT !.stage = "swap", !.sending = FALSE, !.cause = e ]
             /\ UNCHANGED << loop, answer >>
    <3>1. /\ try' \in TryType /\ try'.at = try.at /\ try'.stage = "swap" /\ ~try'.sending
            /\ try'.cause = e
      BY <1>0, <2>3 DEF TryType, Stage
    <3> QED BY <1>0, <2>3, <3>1, MovesKeeps
  <2> QED BY <1>1, <2>1, <2>2, <2>3 DEF FirstFails
<1>2. CASE try.stage = "again" /\ AgainFails(e)
  <2>1. CASE Stops
    BY <2>1, StopsKeeps
  <2>2. CASE /\ try.resends + 1 < SameKeyRetries
             /\ try' = [ try EXCEPT !.sending = FALSE, !.resends = @ + 1 ]
             /\ UNCHANGED << loop, answer >>
    <3>1. try.resends + 1 \in 0 .. SameKeyRetries
      BY <1>0, <2>2, ConstantTypes DEF TryType
    <3>2. /\ try' \in TryType /\ try'.at = try.at /\ try'.stage = "again"
          /\ ~try'.sending
      BY <1>0, <1>2, <2>2, <3>1 DEF TryType
    <3> QED BY <1>0, <2>2, <3>2, MovesKeeps
  <2>3. CASE /\ try' = [ try EXCEPT !.stage = "swap", !.sending = FALSE, !.cause = "429" ]
             /\ UNCHANGED << loop, answer >>
    <3>1. /\ try' \in TryType /\ try'.at = try.at /\ try'.stage = "swap" /\ ~try'.sending
            /\ try'.cause = "429"
      BY <1>0, <2>3 DEF TryType, Stage
    <3> QED BY <1>0, <2>3, <3>1, MovesKeeps
  <2> QED BY <1>2, <2>1, <2>2, <2>3 DEF AgainFails
<1>3. CASE try.stage = "other" /\ OtherFails(e)
  <2>1. CASE Continues(e = "quota" /\ OnPlan)
    BY <1>0, <2>1, ContinuesKeeps
  <2>2. CASE IF Unfit(e) THEN Continues(FALSE) ELSE Stops
    BY <2>2, ContinuesKeeps, StopsKeeps
  <2>3. CASE e = "quota" /\ Continues(OnPlan)
    BY <1>0, <2>3, ContinuesKeeps
  <2>4. CASE AsksQuota
    BY <2>4, AsksQuotaKeeps
  <2>5. CASE Continues(FALSE)
    BY <2>5, ContinuesKeeps
  <2>6. CASE try.cause = "quota" /\ Continues(OnPlan)
    <3>1. OnPlan => Here.tier \in shown'
      BY <1>0, <1>3, <2>6 DEF FInv, Proven
    <3> QED BY <1>0, <2>6, <3>1, ContinuesKeeps
  <2>7. CASE Stops
    BY <2>7, StopsKeeps
  <2> QED BY <1>3, <2>1, <2>2, <2>3, <2>4, <2>5, <2>6, <2>7 DEF OtherFails
<1> QED BY <1>1, <1>2, <1>3 DEF Handles

-----------------------------------------------------------------------------
(* The steps.                                                              *)

\* A candidate is offered after all that have been in hand, and a new tier's
\* candidates have not been sent anything.
LEMMA NextCandidateInvariant ==
  ASSUME FInv, NEW i \in DOMAIN route, NextCandidate(i)
  PROVE  FInv'
<1>0. /\ route \in Seq(Candidate) /\ DOMAIN route = 1 .. Len(route) /\ Len(route) \in Nat
      /\ try \in TryType /\ loop \in LoopType /\ lastErr \in ErrType
      /\ i > loop.current /\ loop.current = try.at /\ try.stage = "next"
  <2>1. route \in Seq(Candidate)
    BY RouteType DEF FInv, TypeOK
  <2>2. i > loop.current
    <3>1. loop.current \in Nat
      <4>1. loop.current \in 0 .. Len(route)
        BY DEF FInv, TypeOK, LoopType, Places
      <4>2. Len(route) \in Nat
        BY RouteType DEF FInv, TypeOK
      <4> QED BY <4>1, <4>2
    <3> QED BY <3>1, RouteType DEF NextCandidate, Offered, FInv, TypeOK
  <2>3. DOMAIN route = 1 .. Len(route) /\ Len(route) \in Nat
    BY RouteType DEF FInv, TypeOK
  <2> QED BY <2>1, <2>2, <2>3 DEF FInv, TypeOK, InHand, NextCandidate, ErrType
<1>1. CASE RefusesDowngrade(i)
  <2>1. HandleAllFailed(lastErr) /\ UNCHANGED << route, cap, lastErr, ctx, sent, shown >>
    BY <1>1 DEF NextCandidate
  <2>2. Keeps
    BY <2>1, HandleAllFailedKeeps
  <2> QED BY <1>0, <2>1, <2>2, KeepsInvariant DEF FInv, TypeOK
<1>2. CASE ~RefusesDowngrade(i)
  <2>1. /\ loop' = Accepted(i)
        /\ try' = [ at |-> i, stage |-> "first", sending |-> FALSE, resends |-> 0,
                    cause |-> "none", late |-> FALSE ]
        /\ UNCHANGED << route, cap, lastErr, ctx, answer, sent, shown >>
    BY <1>2 DEF NextCandidate
  <2>2. i \in Places /\ route[i] \in Candidate /\ route[i].tier \in Tiers /\ i # 0
    <3>1. route[i] \in Candidate
      BY <1>0
    <3> QED BY <1>0, <3>1 DEF Places, Candidate
  <2>3. /\ loop' \in LoopType /\ loop'.current = i /\ loop'.tier = route[i].tier
        /\ route[i].tier = loop.tier =>
             loop'.sawFailure = loop.sawFailure /\ loop'.quotaEvidence = loop.quotaEvidence
        /\ route[i].tier # loop.tier => ~loop'.quotaEvidence
    BY <1>0, <2>1, <2>2 DEF Accepted, LoopType, Places
  <2>4. /\ try' \in TryType /\ try'.at = i /\ try'.stage = "first" /\ try'.cause = "none"
        /\ ~try'.sending
    BY <1>0, <2>1, <2>2, ConstantTypes DEF TryType, Stage, Places
  <2>5. TypeOK'
    BY <2>1, <2>3, <2>4 DEF FInv, TypeOK, LoopType, TryType, Places
  <2>6. InHand'
    BY <2>1, <2>2, <2>3, <2>4 DEF InHand, Here
  <2>7. \A j \in DOMAIN route : j > i => sent[j] = 0
    BY <1>0 DEF FInv, Unsent, TryType, Places
  <2>8. sent[i] = 0
    BY <1>0 DEF FInv, Unsent
  <2>9. ASSUME ~loop'.sawFailure, NEW j \in DOMAIN route, j # i, route[j].tier = route[i].tier
        PROVE  sent[j] = 0
    <3>1. try.at \in Nat /\ i \in Nat /\ j \in Nat
      BY <1>0 DEF TryType, Places
    <3>2. CASE j > try.at
      BY <3>2 DEF FInv, Unsent
    <3>3. CASE ~(j > try.at)
      <4>1. try.at \in DOMAIN route /\ j <= try.at /\ loop.tier = route[try.at].tier
        <5>1. try.at \in 0 .. Len(route)
          BY <1>0 DEF TryType, Places
        <5>2. j \in 1 .. Len(route) /\ Len(route) \in Nat
          BY <1>0
        <5>3. try.at \in 1 .. Len(route) /\ j <= try.at
          BY <3>1, <3>3, <5>1, <5>2
        <5>4. try.at \in DOMAIN route /\ try.at # 0
          BY <1>0, <3>1, <5>3
        <5> QED BY <5>3, <5>4 DEF FInv, InHand, Here
      <4>2. CASE route[i].tier = loop.tier
        <5>1. ~loop.sawFailure
          BY <2>3, <2>9, <4>2
        <5>2. CASE j = try.at
          BY <1>0, <5>1, <5>2, <3>1 DEF FInv, Unsent
        <5>3. CASE j # try.at
          BY <2>9, <4>2, <5>1, <5>3 DEF FInv, Unsent
        <5> QED BY <5>2, <5>3
      <4>3. CASE route[i].tier # loop.tier
        <5>1. j < try.at /\ try.at < i
          BY <1>0, <2>9, <3>1, <4>1, <4>3
        <5>2. route[try.at].tier = route[i].tier
          <6>1. route \in Routes
            BY DEF FInv, TypeOK
          <6> QED BY <2>9, <4>1, <5>1, <6>1, Contiguous
        <5> QED BY <4>1, <4>3, <5>2
      <4> QED BY <4>2, <4>3
    <3> QED BY <3>2, <3>3
  <2>10. Unsent'
    BY <2>1, <2>3, <2>4, <2>7, <2>8, <2>9 DEF Unsent
  <2>11. Proven'
    BY <2>1, <2>3, <2>4 DEF FInv, Proven
  <2> QED BY <2>5, <2>6, <2>10, <2>11 DEF FInv
<1> QED BY <1>1, <1>2

LEMMA SendStartsInvariant ==
  ASSUME FInv, SendStarts
  PROVE  FInv'
<1>1. /\ try' = [ try EXCEPT !.sending = TRUE ]
      /\ sent' = [ sent EXCEPT ![try.at] = IF @ = Most THEN @ ELSE @ + 1 ]
      /\ UNCHANGED << route, cap, loop, lastErr, ctx, answer, shown >>
      /\ try.stage \in { "first", "again", "other" }
  BY DEF SendStarts, Sends
<1>2. try \in TryType /\ try.at # 0 /\ route \in Seq(Candidate)
  BY <1>1, RouteType DEF FInv, TypeOK, InHand
<1>3. /\ try' \in TryType /\ try'.at = try.at /\ try'.stage = try.stage
      /\ try'.cause = try.cause /\ try'.sending
  BY <1>1, <1>2 DEF TryType
<1>4. sent' \in [ DOMAIN route -> 0 .. SameKeyRetries + 3 ]
  <2>1. \A n \in 0 .. SameKeyRetries + 3 : n # Most => n + 1 \in 0 .. SameKeyRetries + 3
    BY ConstantTypes DEF Most
  <2> QED BY <1>1, <2>1 DEF FInv, TypeOK
<1>5. \A i \in DOMAIN route : i # try.at => sent'[i] = sent[i]
  BY <1>1 DEF FInv, TypeOK
<1>6. TypeOK'
  BY <1>1, <1>3, <1>4 DEF FInv, TypeOK, LoopType, TryType, Places
<1>7. InHand'
  BY <1>1, <1>3 DEF FInv, InHand, Here, Sends
<1>8. Unsent'
  BY <1>1, <1>2, <1>3, <1>5 DEF FInv, Unsent, TryType, Places
<1>9. Proven'
  BY <1>1, <1>3 DEF FInv, Proven, OnPlan, Here
<1> QED BY <1>6, <1>7, <1>8, <1>9 DEF FInv

LEMMA InitInvariant == Init => FInv
<1> SUFFICES ASSUME Init PROVE FInv
  OBVIOUS
<1>1. route \in Seq(Candidate) /\ Len(route) \in Nat /\ DOMAIN route = 1 .. Len(route)
  BY RouteType DEF Init, Enters
<1>2. loop \in LoopType
  <2>1. loop = [ current |-> 0, tier |-> "", attempts |-> 0,
                 sawFailure |-> FALSE, quotaEvidence |-> FALSE ]
    BY DEF Init, Enters
  <2>2. 0 \in Places
    BY <1>1 DEF Places
  <2> QED BY <2>1, <2>2 DEF LoopType
<1>3. try \in TryType
  <2>1. try = [ at |-> 0, stage |-> "next", sending |-> FALSE, resends |-> 0,
                cause |-> "none", late |-> FALSE ]
    BY DEF Init, Enters
  <2>2. 0 \in Places /\ 0 \in 0 .. SameKeyRetries
    BY <1>1, ConstantTypes DEF Places
  <2> QED BY <2>1, <2>2 DEF TryType, Stage
<1>4. sent \in [ DOMAIN route -> 0 .. SameKeyRetries + 3 ]
  <2>1. 0 \in 0 .. SameKeyRetries + 3
    BY ConstantTypes
  <2>2. sent = [ i \in DOMAIN route |-> 0 ]
    BY DEF Init, Enters
  <2> QED BY <2>1, <2>2
<1>5. TypeOK
  <2>1. lastErr \in [ class : ErrorClass \cup { "none", "refused" }, at : Places ]
    <3>1. lastErr = [ class |-> "none", at |-> 0 ]
      BY DEF Init, Enters
    <3>2. 0 \in Places
      BY <1>1 DEF Places
    <3> QED BY <3>1, <3>2
  <2> QED BY <1>2, <1>3, <1>4, <2>1 DEF Init, Enters, TypeOK
<1> QED BY <1>1, <1>5 DEF Init, Enters, FInv, InHand, Unsent, Proven

LEMMA StepInvariant == FInv /\ [Next]_vars => FInv'
<1> SUFFICES ASSUME FInv, [Next]_vars PROVE FInv'
  OBVIOUS
<1>0. /\ try \in TryType /\ loop \in LoopType /\ lastErr \in ErrType /\ shown \subseteq Tiers
      /\ OnPlan => Here.tier \in Tiers
      /\ try.stage \notin { "next", "done" } => try.at # 0 /\ try.at \in Places
  BY DEF FInv, TypeOK, InHand, ErrType, TryType, OnPlan, Tiers
<1>1. ASSUME NEW i \in DOMAIN route, NextCandidate(i) PROVE FInv'
  BY <1>1, NextCandidateInvariant
<1>2. CASE NoMoreCandidates
  <2>1. Keeps
    BY <1>2, HandleAllFailedKeeps DEF NoMoreCandidates
  <2> QED BY <1>0, <1>2, <2>1, KeepsInvariant DEF NoMoreCandidates
<1>3. CASE Skip
  <2>1. Keeps
    BY <1>0, <1>3, ReturnsKeeps DEF Skip, FInv, Unsent
  <2>2. lastErr' \in ErrType
    BY <1>0, <1>3 DEF Skip, ErrType
  <2> QED BY <1>0, <1>3, <2>1, <2>2, KeepsInvariant DEF Skip
<1>4. CASE SendStarts
  BY <1>4, SendStartsInvariant
<1>5. CASE SendSucceeds
  <2>1. try' \in TryType /\ try'.at = try.at /\ try'.stage = "after" /\ ~try'.sending
    BY <1>0, <1>5 DEF SendSucceeds, TryType, Stage
  <2>2. loop' = loop /\ shown' = shown /\ answer' \in Answer \cup {"none"}
    BY <1>5 DEF SendSucceeds, Answer
  <2>3. try.at # 0
    BY <1>5 DEF SendSucceeds, FInv, InHand, Sends
  <2>4. Keeps
    BY <1>0, <2>1, <2>2, <2>3 DEF Keeps, FInv, Proven
  <2> QED BY <1>0, <1>5, <2>4, KeepsInvariant DEF SendSucceeds
<1>6. CASE Finish
  <2>1. Keeps
    BY <1>0, <1>6, GoesToKeeps DEF Finish
  <2> QED BY <1>0, <1>6, <2>1, KeepsInvariant DEF Finish
<1>7. CASE NotSent
  <2>1. Keeps
    BY <1>0, <1>7, HandlesKeeps DEF NotSent, Sends, ErrorClass
  <2>2. lastErr' \in ErrType
    BY <1>0, <1>7 DEF NotSent, Sends, Handles, ErrType, ErrorClass
  <2> QED BY <1>0, <1>7, <2>1, <2>2, KeepsInvariant DEF NotSent
<1>8. CASE Swap
  <2>0. try.at # 0 /\ try.stage = "swap" /\ UNCHANGED << route, cap, lastErr, ctx, sent, shown >>
    BY <1>0, <1>8 DEF Swap
  <2>1. CASE GoesTo("other")
    BY <1>0, <2>0, <2>1, GoesToKeeps, KeepsInvariant
  <2>2. CASE Continues(FALSE)
    BY <1>0, <2>0, <2>2, ContinuesKeeps, KeepsInvariant
  <2>3. CASE AsksQuota
    BY <1>0, <2>0, <2>3, AsksQuotaKeeps, KeepsInvariant
  <2>4. CASE try.cause = "quota" /\ Continues(OnPlan)
    <3>1. OnPlan \in BOOLEAN /\ (OnPlan => Here.tier \in shown')
      BY <2>0, <2>4 DEF FInv, Proven, InHand, OnPlan
    <3> QED BY <1>0, <2>0, <2>4, <3>1, ContinuesKeeps, KeepsInvariant
  <2> QED BY <1>8, <2>1, <2>2, <2>3, <2>4 DEF Swap
<1>9. ASSUME NEW e \in ErrorClass, SendFails(e) PROVE FInv'
  <2>0. /\ Handles(e) /\ UNCHANGED << route, cap, ctx, sent >>
        /\ shown' = IF e = "quota" /\ OnPlan THEN shown \cup { Here.tier } ELSE shown
    BY <1>9 DEF SendFails
  <2>1. try.at # 0 /\ try.at \in Places
    BY <1>0, <2>0 DEF Handles
  <2>2. Keeps
    BY <1>0, <2>0, <2>1, HandlesKeeps
  <2>3. lastErr' \in ErrType
    BY <2>0, <2>1 DEF Handles, ErrType
  <2> QED BY <1>0, <2>0, <2>2, <2>3, KeepsInvariant
<1>10. ASSUME NEW spent \in BOOLEAN, Ask(spent) PROVE FInv'
  <2>0. /\ try.at # 0 /\ Continues(spent) /\ UNCHANGED << route, cap, lastErr, ctx, sent >>
        /\ shown' = IF spent THEN shown \cup { Here.tier } ELSE shown
    BY <1>0, <1>10 DEF Ask
  <2>1. Here.tier \in Tiers
    BY <2>0, HereType DEF FInv
  <2>2. Keeps
    BY <2>0, ContinuesKeeps
  <2> QED BY <1>0, <2>0, <2>1, <2>2, KeepsInvariant
<1>11. CASE ClientGone
  <2>1. Keeps
    BY <1>11, HandleAllFailedKeeps DEF ClientGone
  <2> QED BY <1>0, <1>11, <2>1, KeepsInvariant DEF ClientGone
<1>12. ASSUME NEW how \in { "canceled", "expired" }, ContextEnds(how) PROVE FInv'
  <2>0. ctx' \in CtxType /\ UNCHANGED << route, cap, loop, try, lastErr, answer, sent, shown >>
    BY <1>12 DEF ContextEnds, CtxType
  <2>1. TypeOK'
    BY <2>0 DEF FInv, TypeOK, CtxType, LoopType, TryType, Places
  <2>2. InHand' /\ Unsent' /\ Proven'
    BY <2>0 DEF FInv, InHand, Unsent, Proven, Here, OnPlan
  <2> QED BY <2>1, <2>2 DEF FInv
<1>13. CASE BudgetEnds
  <2>0. /\ try' = [ try EXCEPT !.late = TRUE ]
        /\ UNCHANGED << route, cap, loop, lastErr, ctx, answer, sent, shown >>
    BY <1>13 DEF BudgetEnds
  <2>1. /\ try' \in TryType /\ try'.at = try.at /\ try'.stage = try.stage
        /\ try'.cause = try.cause /\ try'.sending = try.sending
    BY <1>0, <2>0 DEF TryType
  <2>2. TypeOK'
    BY <2>0, <2>1 DEF FInv, TypeOK, LoopType, TryType, Places
  <2>3. InHand' /\ Unsent' /\ Proven'
    BY <2>0, <2>1 DEF FInv, InHand, Unsent, Proven, Here, OnPlan
  <2> QED BY <2>2, <2>3 DEF FInv
<1>14. CASE UNCHANGED vars
  <2>1. TypeOK'
    BY <1>14 DEF vars, FInv, TypeOK, LoopType, TryType, Places
  <2>2. InHand' /\ Unsent' /\ Proven'
    BY <1>14 DEF vars, FInv, InHand, Unsent, Proven, Here, OnPlan
  <2> QED BY <2>1, <2>2 DEF FInv
<1> QED BY <1>1, <1>2, <1>3, <1>4, <1>5, <1>6, <1>7, <1>8, <1>9, <1>10, <1>11, <1>12, <1>13,
           <1>14 DEF Next, HandlerStep

\* The loop's variables always have the values the program gives them, whatever
\* the route and whatever the upstreams answer.
THEOREM FailoverTypes == Spec => []TypeOK
<1>1. FInv => TypeOK
  BY DEF FInv
<1> QED BY InitInvariant, StepInvariant, <1>1, PTL DEF Spec

\* Only NextCandidate changes the tier.
LEMMA TierStays ==
  ASSUME FInv, [Next]_vars, \A i \in DOMAIN route : ~NextCandidate(i)
  PROVE  loop'.tier = loop.tier
<1>1. loop \in LoopType
  BY DEF FInv, TypeOK
<1>2. \A outcome, q, a : Returns(outcome, q, a) => loop'.tier = loop.tier
  BY <1>1 DEF Returns, HandleAllFailed, LoopType
<1>3. \A e : HandleAllFailed(e) => loop'.tier = loop.tier
  BY DEF HandleAllFailed
<1>4. \A e : Handles(e) => loop'.tier = loop.tier
  BY <1>2 DEF Handles, FirstFails, AgainFails, OtherFails, Continues, Stops, AsksQuota, GoesTo
<1> QED BY <1>2, <1>3, <1>4 DEF Next, HandlerStep, vars, NoMoreCandidates, Skip, SendStarts,
     SendSucceeds, Finish, NotSent, Swap, SendFails, Ask, ClientGone, ContextEnds, BudgetEnds,
     Continues, AsksQuota, GoesTo

\* A request that has failed in a tier goes on to a lower one only when an
\* upstream has shown this tier's quota to be spent.
THEOREM NoDowngradeHolds == Spec => NoDowngrade
<1> DEFINE Justified ==
      loop'.tier # loop.tier /\ loop.tier # "" =>
        \/ loop.tier \in shown
        \/ \A i \in DOMAIN route : route[i].tier = loop.tier => sent[i] = 0
<1>1. FInv /\ [Next]_vars => Justified
  <2> SUFFICES ASSUME FInv, [Next]_vars, loop'.tier # loop.tier, loop.tier # ""
               PROVE  \/ loop.tier \in shown
                      \/ \A i \in DOMAIN route : route[i].tier = loop.tier => sent[i] = 0
    OBVIOUS
  <2>1. PICK i \in DOMAIN route : NextCandidate(i)
    BY TierStays
  <2>2. ~RefusesDowngrade(i) /\ route[i].tier # loop.tier
    BY <2>1 DEF NextCandidate, HandleAllFailed, Accepted, FInv, TypeOK, LoopType
  <2>3. loop \in LoopType /\ try.stage = "next" /\ try.at # 0
    BY <2>1 DEF NextCandidate, FInv, TypeOK, InHand
  <2>4. CASE loop.quotaEvidence
    BY <2>4 DEF FInv, Proven
  <2>5. CASE ~loop.quotaEvidence
    <3>1. ~loop.sawFailure
      BY <2>2, <2>3, <2>5 DEF RefusesDowngrade, LoopType
    <3> QED BY <2>3, <3>1 DEF FInv, Unsent
  <2> QED BY <2>4, <2>5
<1>2. Justified => [Justified]_vars
  OBVIOUS
<1> HIDE DEF Justified
<1>3. Spec => [][Justified]_vars
  BY InitInvariant, StepInvariant, <1>1, PTL DEF Spec
<1> QED BY <1>3 DEF NoDowngrade, Justified

-----------------------------------------------------------------------------
(* One answer.                                                             *)

\* A request that has been answered is not sent, nor about to be.
AnswerInv == answer # "none" => try.stage \in { "after", "done" } /\ ~try.sending

\* What ends or goes on leaves no request answered and still under way.
LEMMA OutcomesAnswer ==
  ASSUME answer = "none", FInv
  PROVE  /\ \A e : HandleAllFailed(e) => AnswerInv'
         /\ \A outcome, q, a : Returns(outcome, q, a) => AnswerInv'
         /\ \A stage : GoesTo(stage) => AnswerInv'
<1>1. ASSUME NEW e, HandleAllFailed(e) PROVE AnswerInv'
  <2>1. try' = [ try EXCEPT !.stage = "done", !.sending = FALSE ]
    BY <1>1 DEF HandleAllFailed
  <2> QED BY <2>1 DEF AnswerInv, FInv, TypeOK, TryType
<1>2. ASSUME NEW outcome, NEW q, NEW a, Returns(outcome, q, a) PROVE AnswerInv'
  <2>1. HandleAllFailed(lastErr') \/ answer' = answer
    BY <1>2 DEF Returns
  <2> QED BY <1>1, <2>1 DEF AnswerInv
<1> QED BY <1>1, <1>2 DEF GoesTo, AnswerInv

LEMMA AnswerStep ==
  ASSUME FInv, AnswerInv, [Next]_vars
  PROVE  AnswerInv' /\ (answer # "none" => UNCHANGED << answer, sent >>)
<1>1. CASE UNCHANGED vars
  BY <1>1 DEF vars, AnswerInv
<1>2. CASE Next /\ answer # "none"
  <2>1. try.stage \in { "after", "done" } /\ ~try.sending /\ try \in TryType
    BY <1>2 DEF AnswerInv, FInv, TypeOK
  <2>2. \/ Finish \/ ClientGone
        \/ \E how \in { "canceled", "expired" } : ContextEnds(how)
    BY <1>2, <2>1 DEF Next, HandlerStep, NextCandidate, NoMoreCandidates, Skip, SendStarts,
       SendSucceeds, NotSent, Swap, SendFails, Ask, BudgetEnds, Sends
  <2>3. CASE Finish \/ ClientGone
    <3>1. \E stage \in Stage : try' = [ try EXCEPT !.stage = stage, !.sending = FALSE ]
                              /\ stage = "done"
      BY <2>3 DEF Finish, ClientGone, HandleAllFailed, GoesTo, Stage
    <3>2. UNCHANGED << answer, sent >>
      BY <1>2, <2>3 DEF Finish, ClientGone, HandleAllFailed, GoesTo
    <3> QED BY <2>1, <3>1, <3>2 DEF AnswerInv, TryType
  <2> QED BY <2>1, <2>2, <2>3 DEF ContextEnds, AnswerInv
<1>3. CASE Next /\ answer = "none"
  <2>1. \A e : Handles(e) => AnswerInv'
    <3> SUFFICES ASSUME NEW e, Handles(e) PROVE AnswerInv'
      OBVIOUS
    <3> QED BY <1>3, OutcomesAnswer
        DEF Handles, FirstFails, AgainFails, OtherFails, Continues, Stops, AsksQuota, AnswerInv
  <2>2. CASE SendSucceeds
    <3>1. try' = [ try EXCEPT !.stage = "after", !.sending = FALSE ]
      BY <2>2 DEF SendSucceeds
    <3> QED BY <1>3, <3>1 DEF AnswerInv, FInv, TypeOK, TryType
  <2>3. CASE ~SendSucceeds
    BY <1>3, <2>1, <2>3, OutcomesAnswer
    DEF Next, HandlerStep, NextCandidate, NoMoreCandidates, Skip, SendStarts, Finish, NotSent,
        Swap, SendFails, Ask, ClientGone, ContextEnds, BudgetEnds, Continues, AsksQuota, AnswerInv
  <2> QED BY <1>3, <2>2, <2>3
<1> QED BY <1>1, <1>2, <1>3

\* The client gets one answer, and once it has it nothing more is sent for it.
THEOREM AnsweredOnceHolds == Spec => AnsweredOnce
<1> DEFINE Once == answer # "none" => UNCHANGED << answer, sent >>
<1>1. Init => AnswerInv
  BY DEF Init, Enters, AnswerInv
<1>2. FInv /\ AnswerInv /\ [Next]_vars => AnswerInv' /\ Once
  BY AnswerStep
<1> HIDE DEF Once
<1>3. Spec => [][Once]_vars
  BY InitInvariant, StepInvariant, <1>1, <1>2, PTL DEF Spec
<1> QED BY <1>3 DEF AnsweredOnce, Once

-----------------------------------------------------------------------------
(* What one client request can cost the upstreams.                         *)

Limit(i) == IF route[i].relay THEN 2 ELSE 2 + SameKeyRetries

\* The sends to the candidate in hand, by where tryCandidate is.
Counted ==
  try.at # 0 =>
    /\ try.stage = "first" => try.resends = 0 /\ sent[try.at] <= IF try.sending THEN 1 ELSE 0
    /\ try.stage = "again" => /\ ~Here.relay /\ try.resends < SameKeyRetries
                              /\ sent[try.at] <= try.resends + IF try.sending THEN 2 ELSE 1
    /\ try.stage = "swap" => sent[try.at] <= Limit(try.at) - 1
    /\ try.stage = "other" => sent[try.at] <= Limit(try.at) - IF try.sending THEN 0 ELSE 1

Within == \A i \in DOMAIN route : sent[i] <= Limit(i)

Ended == { "next", "done" }

\* Every candidate of the tier that was sent to is an attempt, or the one in hand.
Budget ==
  cap > 0 =>
    /\ \A tier \in Tiers : Cardinality(Tried(tier)) <= cap
    /\ try.stage = "next" => Cardinality(Tried(loop.tier)) <= loop.attempts /\ loop.attempts <= cap
    /\ try.stage \notin Ended =>
         Cardinality(Tried(loop.tier) \ { try.at }) <= loop.attempts /\ loop.attempts < cap

BoundsInv == Counted /\ Within /\ Budget

LEMMA LoopTypes ==
  ASSUME FInv
  PROVE  /\ loop.attempts \in Nat /\ cap \in Nat /\ SameKeyRetries \in Nat \ {0}
         /\ try \in TryType /\ loop \in LoopType /\ try.at \in Nat
         /\ try.resends \in 0 .. SameKeyRetries /\ try.sending \in BOOLEAN
         /\ route \in Seq(Candidate) /\ Len(route) \in Nat /\ DOMAIN route = 1 .. Len(route)
         /\ \A i \in DOMAIN route : sent[i] \in Nat /\ Limit(i) \in Nat /\ Limit(i) >= 2
<1>1. SameKeyRetries \in Nat \ {0} /\ MaxRetry \subseteq Nat  BY ConstantTypes
<1>2. route \in Seq(Candidate) /\ Len(route) \in Nat /\ DOMAIN route = 1 .. Len(route)
  BY RouteType DEF FInv, TypeOK
<1>3. try \in TryType /\ loop \in LoopType /\ cap \in Nat  BY <1>1 DEF FInv, TypeOK
<1>4. try.at \in Nat  BY <1>2, <1>3 DEF TryType, Places
<1>5. \A i \in DOMAIN route : sent[i] \in 0 .. SameKeyRetries + 3  BY DEF FInv, TypeOK
<1>6. \A i \in DOMAIN route : sent[i] \in Nat  BY <1>1, <1>5
<1>7. \A i \in DOMAIN route : Limit(i) \in Nat /\ Limit(i) >= 2  BY <1>1 DEF Limit
<1> QED BY <1>1, <1>2, <1>3, <1>4, <1>6, <1>7 DEF TryType, LoopType

LEMMA TriedFinite ==
  ASSUME FInv, NEW tier
  PROVE  /\ Tried(tier) \subseteq DOMAIN route
         /\ IsFiniteSet(Tried(tier)) /\ Cardinality(Tried(tier)) \in Nat
<1>1. Tried(tier) \subseteq 1 .. Len(route)  BY LoopTypes DEF Tried
<1>2. IsFiniteSet(1 .. Len(route))  BY LoopTypes, FS_Interval
<1>3. IsFiniteSet(Tried(tier))  BY <1>1, <1>2, FS_Subset
<1> QED BY <1>1, <1>3, FS_CardinalityType, LoopTypes

\* One candidate more or less is one in the count.
LEMMA OneMore ==
  ASSUME NEW S, IsFiniteSet(S), NEW T, T \subseteq S, NEW x, S \subseteq T \cup {x}
  PROVE  Cardinality(S) <= Cardinality(T) + 1
<1>1. IsFiniteSet(T)  BY FS_Subset
<1>2. Cardinality(T) \in Nat /\ Cardinality(S) \in Nat  BY <1>1, FS_CardinalityType
<1>3. CASE x \in T
  <2>1. S = T  BY <1>3
  <2> QED BY <1>2, <2>1
<1>4. CASE x \notin T
  <2>1. /\ IsFiniteSet(T \cup {x})
        /\ Cardinality(T \cup {x}) = Cardinality(T) + 1
    BY <1>1, <1>4, FS_AddElement
  <2>2. Cardinality(S) <= Cardinality(T \cup {x})  BY <2>1, FS_Subset
  <2> QED BY <2>1, <2>2
<1> QED BY <1>3, <1>4

-----------------------------------------------------------------------------
(* Steps that send nothing and stay with the candidate in hand.            *)

Settles ==
  /\ try'.at = try.at /\ loop'.tier = loop.tier
  /\ \/ try'.stage = "done"
     \/ /\ try'.stage = "next" /\ try.stage \notin Ended
        /\ \/ loop'.attempts = loop.attempts + 1
           \/ loop'.attempts = loop.attempts /\ sent[try.at] = 0
     \/ /\ try'.stage \notin Ended /\ try.stage \notin Ended
        /\ loop'.attempts = loop.attempts
        /\ Counted'

LEMMA SettlesBounds ==
  ASSUME FInv, BoundsInv, Settles, UNCHANGED << route, cap, sent >>
  PROVE  BoundsInv'
<1>1. Counted'
  BY DEF Settles, Counted, Ended
<1>2. Within'
  BY DEF BoundsInv, Within, Limit
<1>3. Budget'
  <2> SUFFICES ASSUME cap > 0 PROVE Budget'
    BY DEF Budget
  <2>1. \A tier : Tried(tier)' = Tried(tier)
    BY DEF Tried
  <2>2. \A tier \in Tiers : Cardinality(Tried(tier)) <= cap
    BY DEF BoundsInv, Budget
  <2>3. CASE try'.stage = "done"
    BY <2>1, <2>2, <2>3 DEF Budget, Ended
  <2>4. CASE /\ try'.stage = "next" /\ try.stage \notin Ended
             /\ loop'.attempts = loop.attempts + 1
    <3>1. /\ Cardinality(Tried(loop.tier) \ { try.at }) <= loop.attempts
          /\ loop.attempts < cap
      BY <2>4 DEF BoundsInv, Budget
    <3>2. Cardinality(Tried(loop.tier)) <= Cardinality(Tried(loop.tier) \ { try.at }) + 1
      BY TriedFinite, OneMore
    <3>3. /\ Cardinality(Tried(loop.tier)) \in Nat
          /\ Cardinality(Tried(loop.tier) \ { try.at }) \in Nat
      BY TriedFinite, FS_Subset, FS_CardinalityType
    <3>4. Cardinality(Tried(loop.tier)) <= loop.attempts + 1 /\ loop.attempts + 1 <= cap
      BY <3>1, <3>2, <3>3, LoopTypes
    <3>5. loop'.tier = loop.tier  BY DEF Settles
    <3> QED BY <2>1, <2>2, <2>4, <3>4, <3>5 DEF Budget, Ended
  <2>5. CASE /\ try'.stage = "next" /\ try.stage \notin Ended
             /\ loop'.attempts = loop.attempts /\ sent[try.at] = 0
    <3>0. \A j \in Tried(loop.tier) : j # try.at
      BY <2>5 DEF Tried
    <3>1. Tried(loop.tier) \ { try.at } = Tried(loop.tier)
      BY <3>0
    <3>2. Cardinality(Tried(loop.tier)) <= loop.attempts /\ loop.attempts < cap
      BY <2>5, <3>1 DEF BoundsInv, Budget
    <3>4. Cardinality(Tried(loop.tier)) <= loop.attempts /\ loop.attempts <= cap
      BY <3>2, LoopTypes
    <3>3. loop'.tier = loop.tier  BY DEF Settles
    <3> QED BY <2>1, <2>2, <2>5, <3>3, <3>4 DEF Budget, Ended
  <2>6. CASE try'.stage \notin Ended /\ try.stage \notin Ended /\ loop'.attempts = loop.attempts
    <3>1. loop'.tier = loop.tier /\ try'.at = try.at  BY DEF Settles
    <3> QED BY <2>1, <2>2, <2>6, <3>1 DEF BoundsInv, Budget, Ended
  <2> QED BY <2>3, <2>4, <2>5, <2>6 DEF Settles
<1> QED BY <1>1, <1>2, <1>3 DEF BoundsInv

LEMMA HandleAllFailedSettles ==
  ASSUME FInv, NEW e, HandleAllFailed(e)
  PROVE  Settles
BY LoopTypes DEF HandleAllFailed, Settles, TryType

LEMMA ReturnsSettles ==
  ASSUME FInv, NEW outcome, NEW quotaEv \in BOOLEAN, NEW attempted \in BOOLEAN,
         Returns(outcome, quotaEv, attempted), try.stage \notin Ended,
         ~attempted => sent[try.at] = 0
  PROVE  Settles
<1>1. CASE ctx # "live" \/ outcome = "fatal"
  BY <1>1, HandleAllFailedSettles DEF Returns
<1>2. CASE ~(ctx # "live" \/ outcome = "fatal")
  <2>1. try' = [ try EXCEPT !.stage = "next", !.sending = FALSE ]
    BY <1>2 DEF Returns
  <2>2. try'.at = try.at /\ try'.stage = "next"
    BY <2>1, LoopTypes DEF TryType
  <2>3. loop' = [ loop EXCEPT !.quotaEvidence = IF quotaEv THEN TRUE ELSE @,
                              !.sawFailure = IF attempted THEN TRUE ELSE @,
                              !.attempts = IF attempted THEN @ + 1 ELSE @ ]
    BY <1>2 DEF Returns
  <2>4. /\ loop'.tier = loop.tier
        /\ loop'.attempts = IF attempted THEN loop.attempts + 1 ELSE loop.attempts
    BY <2>3, LoopTypes DEF LoopType
  <2> QED BY <2>2, <2>4 DEF Settles
<1> QED BY <1>1, <1>2

LEMMA OutcomesSettle ==
  ASSUME FInv, try.stage \notin Ended
  PROVE  /\ Stops => Settles
         /\ \A q \in BOOLEAN : Continues(q) => Settles
BY ReturnsSettles DEF Stops, Continues

\* Another stage of the same candidate.
LEMMA MovesSettle ==
  ASSUME FInv, try.stage \notin Ended, UNCHANGED << route, loop, sent >>,
         try'.at = try.at, try'.stage \notin Ended, Counted'
  PROVE  Settles
BY DEF Settles

\* Neither a question about the quota nor a response bears on the count.
LEMMA AsksSettles ==
  ASSUME FInv, try.stage \notin Ended, UNCHANGED << route, sent >>, AsksQuota
  PROVE  Settles
<1>1. CASE GoesTo("ask")
  <2>1. try'.at = try.at /\ try'.stage = "ask" /\ UNCHANGED loop
    BY <1>1, LoopTypes DEF GoesTo, TryType
  <2>2. Counted'  BY <2>1 DEF Counted
  <2> QED BY <2>1, <2>2, MovesSettle DEF Ended
<1>2. CASE Continues(FALSE)
  BY <1>2, OutcomesSettle
<1> QED BY <1>1, <1>2 DEF AsksQuota

\* An error leads to a stage in which the candidate has a send left for it.
LEMMA HandlesSettles ==
  ASSUME FInv, BoundsInv, NEW e \in ErrorClass, Handles(e), UNCHANGED << route, sent >>,
         try.at # 0
  PROVE  Settles
<1>0. /\ try.stage \in Sends /\ try.stage \notin Ended /\ try.at \in DOMAIN route
      /\ OnPlan \in BOOLEAN /\ Counted
      /\ sent[try.at] \in Nat /\ Limit(try.at) \in Nat /\ Limit(try.at) >= 2
  <2>1. try.at \in DOMAIN route
    BY LoopTypes DEF TryType, Places
  <2> QED BY <2>1, LoopTypes DEF Handles, Sends, Ended, OnPlan, BoundsInv
<1>1. CASE try.stage = "first" /\ FirstFails(e)
  <2>0. try.resends = 0 /\ sent[try.at] <= 1
    BY <1>0, <1>1 DEF Counted
  <2>1. CASE IF Unfit(e) THEN Continues(FALSE) ELSE Stops
    BY <1>0, <2>1, OutcomesSettle
  <2>2. CASE ~Here.relay /\ GoesTo("again")
    <3>1. /\ try'.at = try.at /\ try'.stage = "again" /\ ~try'.sending /\ UNCHANGED loop
          /\ try'.resends = 0
      BY <2>0, <2>2, LoopTypes DEF GoesTo, TryType
    <3>2. Counted'
      BY <2>0, <2>2, <3>1, LoopTypes DEF Counted, Here
    <3> QED BY <1>0, <3>1, <3>2, MovesSettle DEF Ended
  <2>3. CASE /\ try' = [ try EXCEPT !.stage = "swap", !.sending = FALSE, !.cause = e ]
             /\ UNCHANGED << loop, answer >>
    <3>1. try'.at = try.at /\ try'.stage = "swap"
      BY <2>3, LoopTypes DEF TryType
    <3>2. Counted'
      BY <1>0, <2>0, <3>1 DEF Counted, Limit
    <3> QED BY <1>0, <2>3, <3>1, <3>2, MovesSettle DEF Ended
  <2> QED BY <1>1, <2>1, <2>2, <2>3 DEF FirstFails
<1>2. CASE try.stage = "again" /\ AgainFails(e)
  <2>0. /\ ~Here.relay /\ try.resends < SameKeyRetries /\ try.resends \in Nat
        /\ sent[try.at] <= try.resends + 2 /\ SameKeyRetries \in Nat
    <3>1. /\ try.resends < SameKeyRetries
          /\ sent[try.at] <= try.resends + IF try.sending THEN 2 ELSE 1
      BY <1>0, <1>2 DEF Counted, BoundsInv
    <3>2. ~Here.relay
      BY <1>0, <1>2 DEF Counted
    <3> QED BY <1>0, <3>1, <3>2, LoopTypes
  <2>1. CASE Stops
    BY <1>0, <2>1, OutcomesSettle
  <2>2. CASE /\ try.resends + 1 < SameKeyRetries
             /\ try' = [ try EXCEPT !.sending = FALSE, !.resends = @ + 1 ]
             /\ UNCHANGED << loop, answer >>
    <3>1. /\ try'.at = try.at /\ try'.stage = "again" /\ ~try'.sending
          /\ try'.resends = try.resends + 1
      BY <1>2, <2>2, LoopTypes DEF TryType
    <3>2. Counted'
      BY <1>0, <2>0, <2>2, <3>1 DEF Counted, Here
    <3> QED BY <1>0, <2>2, <3>1, <3>2, MovesSettle DEF Ended
  <2>3. CASE /\ try' = [ try EXCEPT !.stage = "swap", !.sending = FALSE, !.cause = "429" ]
             /\ UNCHANGED << loop, answer >>
    <3>1. try'.at = try.at /\ try'.stage = "swap"
      BY <2>3, LoopTypes DEF TryType
    <3>2. Limit(try.at) = 2 + SameKeyRetries
      BY <2>0 DEF Limit, Here
    <3>3. sent[try.at] <= Limit(try.at) - 1
      BY <1>0, <2>0, <3>2
    <3>4. Counted'
      BY <3>1, <3>3 DEF Counted, Limit
    <3> QED BY <1>0, <2>3, <3>1, <3>4, MovesSettle DEF Ended
  <2> QED BY <1>2, <2>1, <2>2, <2>3 DEF AgainFails
<1>3. CASE try.stage = "other" /\ OtherFails(e)
  <2>1. CASE \E q \in BOOLEAN : Continues(q)
    BY <1>0, <2>1, OutcomesSettle
  <2>2. CASE Stops
    BY <1>0, <2>2, OutcomesSettle
  <2>3. CASE AsksQuota
    BY <1>0, <2>3, AsksSettles
  <2>4. (e = "quota" /\ OnPlan) \in BOOLEAN
    BY <1>0
  <2> QED BY <1>0, <1>3, <2>1, <2>2, <2>3, <2>4 DEF OtherFails
<1> QED BY <1>1, <1>2, <1>3 DEF Handles

-----------------------------------------------------------------------------
(* The steps.                                                              *)

\* A candidate is taken from a tier in which there is an attempt left, or from a
\* tier of which nothing has been tried.
LEMMA NextCandidateBounds ==
  ASSUME FInv, BoundsInv, NEW i \in DOMAIN route, NextCandidate(i)
  PROVE  BoundsInv'
<1>0. /\ try.stage = "next" /\ loop.current = try.at /\ try.at \in Nat /\ i \in Nat
      /\ UNCHANGED << route, cap, sent >>
      /\ i > try.at /\ DOMAIN route = 1 .. Len(route) /\ Len(route) \in Nat
      /\ route \in Routes /\ try.at \in 0 .. Len(route)
  <2>1. try.at \in 0 .. Len(route)
    BY LoopTypes DEF TryType, Places
  <2>2. loop.current = try.at /\ route \in Routes
    BY DEF FInv, InHand, TypeOK
  <2>3. DOMAIN route = 1 .. Len(route) /\ Len(route) \in Nat
    BY LoopTypes
  <2>4. i \in (loop.current + 1) .. Len(route) /\ try.stage = "next"
    BY DEF NextCandidate, Offered
  <2>5. UNCHANGED << route, cap, sent >>
    BY DEF NextCandidate
  <2> QED BY <2>1, <2>2, <2>3, <2>4, <2>5
<1>1. CASE RefusesDowngrade(i)
  <2>1. HandleAllFailed(lastErr)
    BY <1>1 DEF NextCandidate
  <2> QED BY <1>0, <2>1, HandleAllFailedSettles, SettlesBounds
<1>2. CASE ~RefusesDowngrade(i)
  <2>1. /\ loop' = Accepted(i)
        /\ try' = [ at |-> i, stage |-> "first", sending |-> FALSE, resends |-> 0,
                    cause |-> "none", late |-> FALSE ]
    BY <1>2 DEF NextCandidate
  <2>2. sent[i] = 0
    BY <1>0 DEF FInv, Unsent
  <2>3. Counted'
    BY <1>0, <2>1, <2>2 DEF Counted
  <2>4. Within'
    BY <1>0 DEF BoundsInv, Within, Limit
  <2>5. ASSUME cap > 0
        PROVE  /\ Cardinality(Tried(route[i].tier) \ {i}) <= Accepted(i).attempts
               /\ Accepted(i).attempts < cap
    <3>1. CASE route[i].tier = loop.tier
      <4>1. Accepted(i).attempts = loop.attempts
        BY <3>1, LoopTypes DEF Accepted, LoopType
      <4>2. ~Capped
        BY <3>1 DEF NextCandidate, Offered
      <4>3. loop.attempts < cap
        BY <2>5, <4>2, LoopTypes DEF Capped
      <4>4. \A j \in Tried(loop.tier) : j # i
        BY <2>2 DEF Tried
      <4>5. Tried(loop.tier) \ {i} = Tried(loop.tier)
        BY <4>4
      <4> QED BY <1>0, <2>5, <3>1, <4>1, <4>3, <4>5 DEF BoundsInv, Budget
    <3>2. CASE route[i].tier # loop.tier
      <4>1. ASSUME NEW j \in Tried(route[i].tier)  PROVE FALSE
        <5>1. j \in DOMAIN route /\ route[j].tier = route[i].tier /\ sent[j] > 0
          BY <4>1 DEF Tried
        <5>2. j \in Nat /\ j <= try.at /\ j # i
          BY <1>0, <2>2, <5>1 DEF FInv, Unsent
        <5>3. try.at \in DOMAIN route /\ try.at # 0
          BY <1>0, <5>1, <5>2
        <5>4. loop.tier = route[try.at].tier
          BY <5>3 DEF FInv, InHand, Here
        <5>5. j < try.at
          BY <1>0, <3>2, <5>1, <5>2, <5>4
        <5>6. route[try.at].tier = route[j].tier
          BY <1>0, <5>1, <5>3, <5>5, Contiguous
        <5> QED BY <3>2, <5>1, <5>4, <5>6
      <4>2. Tried(route[i].tier) \ {i} = {}
        BY <4>1
      <4>3. Cardinality({}) = 0
        BY FS_EmptySet
      <4>4. Accepted(i).attempts = 0
        BY <3>2 DEF Accepted
      <4>5. cap \in Nat
        BY LoopTypes
      <4>6. Cardinality(Tried(route[i].tier) \ {i}) = 0
        BY <4>2, <4>3
      <4> QED BY <2>5, <4>4, <4>5, <4>6
    <3> QED BY <3>1, <3>2
  <2>6. Budget'
    <3>1. \A tier : Tried(tier)' = Tried(tier)
      BY <1>0 DEF Tried
    <3>2. loop'.tier = route[i].tier
      BY <2>1, LoopTypes DEF Accepted, LoopType
    <3>3. loop'.attempts = Accepted(i).attempts /\ try'.at = i /\ try'.stage = "first"
      BY <2>1
    <3>4. cap > 0 => \A tier \in Tiers : Cardinality(Tried(tier)) <= cap
      BY DEF BoundsInv, Budget
    <3> QED BY <1>0, <2>5, <3>1, <3>2, <3>3, <3>4 DEF Budget, Ended
  <2> QED BY <2>3, <2>4, <2>6 DEF BoundsInv
<1> QED BY <1>1, <1>2

\* A send is one more for the candidate in hand, for which there was one left, and
\* the candidate is one of the tier's attempts already.
LEMMA SendStartsBounds ==
  ASSUME FInv, BoundsInv, SendStarts
  PROVE  BoundsInv'
<1>1. /\ try' = [ try EXCEPT !.sending = TRUE ]
      /\ sent' = [ sent EXCEPT ![try.at] = IF @ = Most THEN @ ELSE @ + 1 ]
      /\ UNCHANGED << route, cap, loop >>
      /\ try.stage \in { "first", "again", "other" } /\ ~try.sending
  BY DEF SendStarts, Sends
<1>2. /\ try'.at = try.at /\ try'.stage = try.stage /\ try'.sending
      /\ try'.resends = try.resends
  BY <1>1, LoopTypes DEF TryType
<1>3. try.at \in DOMAIN route /\ try.at # 0
  <2>1. try.at # 0
    BY <1>1 DEF FInv, InHand
  <2> QED BY <2>1, LoopTypes DEF TryType, Places
<1>4. /\ \A j \in DOMAIN route : j # try.at => sent'[j] = sent[j]
      /\ sent'[try.at] <= sent[try.at] + 1
      /\ sent'[try.at] \in Nat
  <2>1. DOMAIN sent = DOMAIN route
    BY DEF FInv, TypeOK
  <2>2. sent[try.at] \in Nat
    BY <1>3, LoopTypes
  <2> QED BY <1>1, <1>3, <2>1, <2>2
<1>5. Counted'
  <2>1. CASE try.stage = "first"
    <3>1. try.resends = 0 /\ sent[try.at] <= 0
      BY <1>1, <1>3, <2>1 DEF BoundsInv, Counted
    <3>2. sent'[try.at] <= 1
      BY <1>3, <1>4, <3>1, LoopTypes
    <3> QED BY <1>2, <2>1, <3>1, <3>2 DEF Counted
  <2>2. CASE try.stage = "again"
    <3>1. ~Here.relay /\ try.resends < SameKeyRetries /\ sent[try.at] <= try.resends + 1
      BY <1>1, <1>3, <2>2 DEF BoundsInv, Counted
    <3>2. try.resends \in Nat /\ sent[try.at] \in Nat
      BY <1>3, LoopTypes
    <3>3. sent'[try.at] <= try.resends + 2
      BY <1>4, <3>1, <3>2
    <3> QED BY <1>1, <1>2, <2>2, <3>1, <3>3 DEF Counted, Here
  <2>3. CASE try.stage = "other"
    <3>1. sent[try.at] <= Limit(try.at) - 1
      BY <1>1, <1>3, <2>3 DEF BoundsInv, Counted
    <3>2. sent'[try.at] <= Limit(try.at) - 0
      BY <1>3, <1>4, <3>1, LoopTypes
    <3>3. Limit(try.at)' = Limit(try.at)
      BY <1>1, <1>2 DEF Limit
    <3> QED BY <1>2, <2>3, <3>2, <3>3 DEF Counted
  <2> QED BY <1>1, <2>1, <2>2, <2>3
<1>6. Within'
  <2>1. sent'[try.at] <= Limit(try.at)
    <3>1. /\ sent'[try.at] \in Nat /\ Limit(try.at) \in Nat /\ Limit(try.at) >= 2
          /\ SameKeyRetries \in Nat /\ try.resends \in Nat
      BY <1>3, <1>4, LoopTypes
    <3>2. CASE try.stage = "first"
      <4>1. sent'[try.at] <= 1
        BY <1>2, <1>3, <1>5, <3>2 DEF Counted
      <4> QED BY <3>1, <4>1
    <3>3. CASE try.stage = "again"
      <4>1. sent'[try.at] <= try.resends + 2 /\ try.resends < SameKeyRetries /\ ~Here.relay
        BY <1>1, <1>2, <1>3, <1>5, <3>3 DEF Counted, Here
      <4>2. Limit(try.at) = 2 + SameKeyRetries
        BY <4>1 DEF Limit, Here
      <4> QED BY <3>1, <4>1, <4>2
    <3>4. CASE try.stage = "other"
      <4>1. sent[try.at] <= Limit(try.at) - 1 /\ sent[try.at] \in Nat
        BY <1>1, <1>3, <3>4, LoopTypes DEF BoundsInv, Counted
      <4> QED BY <1>4, <3>1, <4>1
    <3> QED BY <1>1, <3>2, <3>3, <3>4
  <2>2. \A j \in DOMAIN route : Limit(j)' = Limit(j)
    BY <1>1 DEF Limit
  <2>3. \A j \in DOMAIN route : sent'[j] <= Limit(j)
    BY <1>4, <2>1 DEF BoundsInv, Within
  <2> QED BY <1>1, <2>2, <2>3 DEF Within
<1>7. Budget'
  <2> SUFFICES ASSUME cap > 0 PROVE Budget'
    BY <1>1 DEF Budget
  <2>0. PICK t : t = loop.tier /\ t = loop'.tier /\ t = route[try.at].tier
    BY <1>1, <1>3 DEF FInv, InHand, Here
  <2>1. ASSUME NEW tier, tier # t  PROVE Tried(tier)' = Tried(tier)
    <3>1. \A j \in DOMAIN route : route[j].tier = tier => sent'[j] = sent[j]
      BY <1>4, <2>0, <2>1
    <3> QED BY <1>1, <3>1 DEF Tried
  <2>2. Tried(t)' \ { try.at } = Tried(t) \ { try.at }
    BY <1>1, <1>4 DEF Tried
  <2>3. Cardinality(Tried(t) \ { try.at }) <= loop.attempts /\ loop.attempts < cap
    BY <1>1, <2>0 DEF BoundsInv, Budget, Ended
  <2>4. Cardinality(Tried(t)') <= cap
    <3>1. Tried(t)' \subseteq 1 .. Len(route) /\ IsFiniteSet(1 .. Len(route))
      <4>1. Tried(t)' \subseteq DOMAIN route
        BY <1>1 DEF Tried
      <4> QED BY <4>1, LoopTypes, FS_Interval
    <3>2. IsFiniteSet(Tried(t)') /\ IsFiniteSet(Tried(t)' \ { try.at })
      BY <3>1, FS_Subset
    <3>3. Cardinality(Tried(t)') <= Cardinality(Tried(t)' \ { try.at }) + 1
      BY <3>2, OneMore
    <3>4. Cardinality(Tried(t)') \in Nat /\ Cardinality(Tried(t)' \ { try.at }) \in Nat
      BY <3>2, FS_CardinalityType
    <3>5. Cardinality(Tried(t)' \ { try.at }) <= loop.attempts
      BY <2>2, <2>3
    <3>6. loop.attempts \in Nat /\ cap \in Nat
      BY LoopTypes
    <3> QED BY <2>3, <3>3, <3>4, <3>5, <3>6
  <2>5. \A tier \in Tiers : Cardinality(Tried(tier)') <= cap
    <3> SUFFICES ASSUME NEW tier \in Tiers  PROVE Cardinality(Tried(tier)') <= cap
      OBVIOUS
    <3>1. CASE tier = t
      BY <2>4, <3>1
    <3>2. CASE tier # t
      <4>1. Cardinality(Tried(tier)) <= cap
        BY DEF BoundsInv, Budget
      <4> QED BY <2>1, <3>2, <4>1
    <3> QED BY <3>1, <3>2
  <2>6. Cardinality(Tried(t)' \ { try.at }) <= loop.attempts
    BY <2>2, <2>3
  <2> QED BY <1>1, <1>2, <2>0, <2>3, <2>5, <2>6 DEF Budget, Ended
<1> QED BY <1>5, <1>6, <1>7 DEF BoundsInv

LEMMA BoundsInit == Init => BoundsInv
<1> SUFFICES ASSUME Init PROVE BoundsInv
  OBVIOUS
<1>0. FInv
  BY InitInvariant
<1>1. /\ \A i \in DOMAIN route : sent[i] = 0
      /\ try.at = 0 /\ try.stage = "next" /\ loop.attempts = 0
  BY DEF Init, Enters
<1>2. Counted
  BY <1>1 DEF Counted
<1>3. Within
  BY <1>0, <1>1, LoopTypes DEF Within
<1>4. \A tier : Tried(tier) = {}
  BY <1>1 DEF Tried
<1>5. \A tier : Cardinality(Tried(tier)) = 0
  BY <1>4, FS_EmptySet
<1>6. cap \in Nat
  BY <1>0, LoopTypes
<1>7. Budget
  BY <1>1, <1>5, <1>6 DEF Budget, Ended
<1> QED BY <1>2, <1>3, <1>7 DEF BoundsInv

LEMMA BoundsStep == FInv /\ BoundsInv /\ [Next]_vars => BoundsInv'
<1> SUFFICES ASSUME FInv, BoundsInv, [Next]_vars PROVE BoundsInv'
  OBVIOUS
<1>0. /\ try \in TryType
      /\ try.stage \notin Ended => try.at # 0 /\ try.at \in DOMAIN route
      /\ try.sending => try.stage \in Sends
  <2>1. try \in TryType /\ try.at \in 0 .. Len(route)
    BY LoopTypes DEF TryType, Places
  <2>2. try.stage \notin Ended => try.at # 0
    BY DEF FInv, InHand, Ended
  <2>3. try.sending => try.stage \in Sends
    BY DEF FInv, InHand
  <2> QED BY <2>1, <2>2, <2>3, LoopTypes
<1>1. ASSUME NEW i \in DOMAIN route, NextCandidate(i) PROVE BoundsInv'
  BY <1>1, NextCandidateBounds
<1>2. CASE NoMoreCandidates
  BY <1>2, HandleAllFailedSettles, SettlesBounds DEF NoMoreCandidates
<1>3. CASE Skip
  <2>1. try.at # 0 /\ try.stage \notin Ended /\ sent[try.at] = 0
    BY <1>0, <1>3 DEF Skip, Ended, FInv, Unsent
  <2>2. Settles
    BY <1>3, <2>1, ReturnsSettles DEF Skip
  <2> QED BY <1>3, <2>2, SettlesBounds DEF Skip
<1>4. CASE SendStarts
  BY <1>4, SendStartsBounds
<1>5. CASE SendSucceeds
  <2>1. try'.at = try.at /\ try'.stage = "after" /\ UNCHANGED << route, cap, loop, sent >>
    BY <1>0, <1>5 DEF SendSucceeds, TryType
  <2>2. try.stage \notin Ended
    BY <1>0, <1>5 DEF SendSucceeds, Sends, Ended
  <2>3. Counted'
    BY <2>1 DEF Counted
  <2>4. Settles
    BY <2>1, <2>2, <2>3, MovesSettle DEF Ended
  <2> QED BY <2>1, <2>4, SettlesBounds
<1>6. CASE Finish
  <2>1. try'.at = try.at /\ try'.stage = "done" /\ UNCHANGED << route, cap, loop, sent >>
    BY <1>0, <1>6 DEF Finish, GoesTo, TryType
  <2> QED BY <2>1, SettlesBounds DEF Settles
<1>7. CASE NotSent
  <2>1. try.at # 0
    BY <1>0, <1>7 DEF NotSent, Sends, Ended
  <2>2. Settles
    BY <1>7, <2>1, HandlesSettles DEF NotSent, ErrorClass
  <2> QED BY <1>7, <2>2, SettlesBounds DEF NotSent
<1>8. CASE Swap
  <2>0. /\ try.stage = "swap" /\ try.stage \notin Ended /\ try.at # 0
        /\ UNCHANGED << route, cap, lastErr, ctx, sent, shown >>
    BY <1>0, <1>8 DEF Swap, Ended
  <2>1. CASE GoesTo("other")
    <3>1. /\ try'.at = try.at /\ try'.stage = "other" /\ ~try'.sending /\ UNCHANGED loop
      BY <1>0, <2>1 DEF GoesTo, TryType
    <3>2. sent[try.at] <= Limit(try.at) - 1
      BY <2>0 DEF BoundsInv, Counted
    <3>3. Counted'
      BY <2>0, <3>1, <3>2 DEF Counted, Limit
    <3>4. Settles
      BY <2>0, <3>1, <3>3, MovesSettle DEF Ended
    <3> QED BY <2>0, <3>4, SettlesBounds
  <2>2. CASE AsksQuota
    <3>1. Settles
      BY <2>0, <2>2, AsksSettles
    <3> QED BY <2>0, <3>1, SettlesBounds
  <2>3. CASE \E q \in BOOLEAN : Continues(q)
    <3>1. Settles
      BY <2>0, <2>3, OutcomesSettle
    <3> QED BY <2>0, <3>1, SettlesBounds
  <2>4. OnPlan \in BOOLEAN
    BY DEF OnPlan
  <2> QED BY <1>8, <2>1, <2>2, <2>3, <2>4 DEF Swap
<1>9. ASSUME NEW e \in ErrorClass, SendFails(e) PROVE BoundsInv'
  <2>1. Handles(e) /\ UNCHANGED << route, cap, sent >>
    BY <1>9 DEF SendFails
  <2>2. try.at # 0
    BY <1>0, <1>9 DEF SendFails, Sends, Ended
  <2>3. Settles
    BY <2>1, <2>2, HandlesSettles
  <2> QED BY <2>1, <2>3, SettlesBounds
<1>10. ASSUME NEW spent \in BOOLEAN, Ask(spent) PROVE BoundsInv'
  <2>1. Continues(spent) /\ UNCHANGED << route, cap, sent >> /\ try.stage \notin Ended
    BY <1>10 DEF Ask, Ended
  <2>2. Settles
    BY <2>1, OutcomesSettle
  <2> QED BY <2>1, <2>2, SettlesBounds
<1>11. CASE ClientGone
  BY <1>11, HandleAllFailedSettles, SettlesBounds DEF ClientGone
<1>12. ASSUME NEW how \in { "canceled", "expired" }, ContextEnds(how) PROVE BoundsInv'
  BY <1>12 DEF ContextEnds, BoundsInv, Counted, Within, Budget, Limit, Here, Tried
<1>13. CASE BudgetEnds
  <2>1. /\ try'.at = try.at /\ try'.stage = try.stage /\ try'.sending = try.sending
        /\ try'.resends = try.resends
        /\ UNCHANGED << route, cap, loop, sent >>
    BY <1>0, <1>13 DEF BudgetEnds, TryType
  <2>2. \A tier : Tried(tier)' = Tried(tier)
    BY <2>1 DEF Tried
  <2> QED BY <2>1, <2>2 DEF BoundsInv, Counted, Within, Budget, Limit, Here, Tried
<1>14. CASE UNCHANGED vars
  BY <1>14 DEF vars, BoundsInv, Counted, Within, Budget, Limit, Here, Tried
<1> QED BY <1>1, <1>2, <1>3, <1>4, <1>5, <1>6, <1>7, <1>8, <1>9, <1>10, <1>11, <1>12, <1>13,
           <1>14 DEF Next, HandlerStep

\* One client request is sent twice to a relay, SameKeyRetries times more to another
\* candidate, and to max_retry candidates of a tier, whatever the upstreams answer.
THEOREM SendsBoundedHolds == Spec => []SendsBounded
<1>1. BoundsInv /\ FInv => SendsBounded
  <2> SUFFICES ASSUME BoundsInv, FInv PROVE SendsBounded
    OBVIOUS
  <2>1. \A i \in DOMAIN route :
          sent[i] <= IF route[i].relay THEN 2 ELSE 2 + SameKeyRetries
    BY DEF BoundsInv, Within, Limit
  <2>2. \A tier \in Tiers : cap > 0 => Cardinality(Tried(tier)) <= cap
    BY DEF BoundsInv, Budget
  <2> QED BY <2>1, <2>2 DEF SendsBounded
<1> QED BY InitInvariant, StepInvariant, BoundsInit, BoundsStep, <1>1, PTL DEF Spec
=============================================================================
