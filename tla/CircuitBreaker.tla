---------------------------- MODULE CircuitBreaker ----------------------------
(***************************************************************************)
(* One circuit breaker under concurrent callers.  A caller asks Allow, is  *)
(* admitted, talks to the upstream for as long as it takes and reports how *)
(* the call ended; the breaker may have changed state several times in     *)
(* between, because nothing ties a report to the admission it answers.     *)
(*                                                                         *)
(* Three history variables record what the breaker itself does not:        *)
(*   call       when the call in flight was admitted;                      *)
(*   recent     the countable failures reported since the breaker last     *)
(*              closed, as ages, without those that left the window;       *)
(*   trialAges  how long ago the last HalfOpenRequests trials started.     *)
(***************************************************************************)
EXTENDS Breaker

CONSTANTS
  Caller,   \* goroutines that send requests guarded by this breaker
  Outcome   \* how a call may end: "success" or an error type

ASSUME FiniteCallers == IsFiniteSet(Caller)

VARIABLES breaker, call, recent, trialAges

vars == << breaker, call, recent, trialAges >>

\* A call is "steady" when the breaker was CLOSED at its admission, a "trial"
\* when it was HALF_OPEN, and "late" once the breaker has changed state since.
Fate == {"idle", "steady", "trial", "late"}

TypeOK ==
  /\ breaker \in BreakerType
  /\ call \in [ Caller -> Fate ]
  /\ recent \in Seq(0 .. FailureWindow)
  /\ trialAges \in Seq(0 .. OpenTimeout)
  /\ Len(trialAges) <= HalfOpenRequests

Init ==
  /\ breaker = New
  /\ call = [ c \in Caller |-> "idle" ]
  /\ recent = <<>>
  /\ trialAges = <<>>

\* The breaker takes the value b; calls in flight outlive a change of state.
Becomes(b, c, fate) ==
  /\ breaker' = b
  /\ call' = [ x \in Caller |->
                 IF x = c THEN fate
                 ELSE IF call[x] # "idle" /\ b.state # breaker.state THEN "late"
                 ELSE call[x] ]

LastTrials(ages) ==
  IF Len(ages) > HalfOpenRequests THEN Tail(ages) ELSE ages

-----------------------------------------------------------------------------

\* A caller is let through while the breaker is CLOSED ...
AdmitSteady(c) ==
  /\ call[c] = "idle" /\ breaker.state = "CLOSED"
  /\ Becomes(Allow(breaker), c, "steady")
  /\ UNCHANGED << recent, trialAges >>

\* ... or as a trial: the first after OpenTimeout, or one of the free ones.
AdmitTrial(c) ==
  /\ call[c] = "idle" /\ breaker.state # "CLOSED"
  /\ Allows(breaker)
  /\ Becomes(Allow(breaker), c, "trial")
  /\ trialAges' = LastTrials(Append(trialAges, 0))
  /\ UNCHANGED recent

Succeed(c) ==
  /\ call[c] # "idle" /\ "success" \in Outcome
  /\ Becomes(RecordSuccess(breaker), c, "idle")
  /\ recent' = IF breaker'.state # breaker.state THEN <<>> ELSE recent
  /\ UNCHANGED trialAges

\* The pool forwards only countable errors, and RecordFailure ignores the rest.
Fail(c, errType) ==
  /\ call[c] # "idle"
  /\ Becomes(RecordFailure(breaker, errType), c, "idle")
  /\ recent' = IF breaker.state = "CLOSED" /\ errType \in Countable
               THEN Append(recent, 0) ELSE recent
  /\ UNCHANGED trialAges

\* The clock moves; a failure that reaches FailureWindow leaves the window.
Tick ==
  /\ breaker' = Elapse(breaker)
  /\ recent' = InWindow(Older(recent, FailureWindow))
  /\ trialAges' = Older(trialAges, OpenTimeout)
  /\ UNCHANGED call

Next ==
  \/ \E c \in Caller : AdmitSteady(c) \/ AdmitTrial(c) \/ Succeed(c)
  \/ \E c \in Caller, e \in Outcome \ {"success"} : Fail(c, e)
  \/ Tick

Ends(c) == Succeed(c) \/ \E e \in Outcome \ {"success"} : Fail(c, e)

\* Requests keep coming, time passes, and every call ends: the HTTP client, the
\* streaming timeouts and the client's own disconnection bound each of them.
Fairness ==
  /\ WF_vars(Tick)
  /\ WF_vars(\E c \in Caller : AdmitSteady(c) \/ AdmitTrial(c))
  /\ \A c \in Caller : WF_vars(Ends(c))

Spec == Init /\ [][Next]_vars
FairSpec == Spec /\ Fairness

-----------------------------------------------------------------------------

\* While CLOSED, fewer than FailureThreshold countable failures have been
\* reported within the window since the breaker closed: pruning in
\* RecordSuccess and RecordFailure never loses one that still counts.
ClosedBelowThreshold ==
  breaker.state = "CLOSED" => Len(recent) < FailureThreshold

\* A CLOSED breaker opens only on the FailureThreshold-th countable failure
\* within the window: failures that left it are never counted again.
OpensAtThreshold ==
  [][ breaker.state = "CLOSED" /\ breaker'.state = "OPEN"
        => Len(recent') >= FailureThreshold ]_vars

\* An upstream that keeps failing sees at most HalfOpenRequests trials in any
\* OpenTimeout, however late reports reopen or close the breaker in between.
TrialRate ==
  [][ (\E c \in Caller : call[c] = "idle" /\ call'[c] = "trial")
      /\ Len(trialAges) = HalfOpenRequests
        => trialAges[1] >= OpenTimeout ]_vars

Trials == { c \in Caller : call[c] = "trial" }

\* Trials in flight never outnumber the slots taken in this HALF_OPEN period, and
\* these never HalfOpenRequests.
TrialsWithinSlots ==
  breaker.state = "HALF_OPEN" =>
    /\ Cardinality(Trials) <= breaker.inFlight
    /\ breaker.inFlight <= HalfOpenRequests

\* A call that ends uncounted (429, auth, quota, cancellation) does not give its
\* slot back; when they all are gone nothing moves the breaker any more.
SlotsLost == /\ breaker.inFlight = HalfOpenRequests /\ Trials = {}
             /\ breaker.successes < HalfOpenRequests

\* A breaker does not stay HALF_OPEN: the trials decide between CLOSED and OPEN,
\* unless calls that end uncounted use up its slots.
HalfOpenDecides ==
  breaker.state = "HALF_OPEN" ~> breaker.state # "HALF_OPEN" \/ SlotsLost
=============================================================================
