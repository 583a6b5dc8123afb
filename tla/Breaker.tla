------------------------------- MODULE Breaker -------------------------------
(***************************************************************************)
(* The per-key circuit breaker of internal/circuit/breaker.go as a data    *)
(* type: the record the struct keeps and one operator per method, without  *)
(* state of its own.  CircuitBreaker runs one breaker under concurrent     *)
(* callers; KeyPool keeps one per key.                                     *)
(*                                                                         *)
(* Time is relative.  Instead of the wall-clock instants the struct holds, *)
(* the record keeps how long ago they lie, and Elapse moves every one of   *)
(* them by a tick.  Ages saturate at the only bound the code compares them *)
(* with (FailureWindow, OpenTimeout), so that a behaviour may be as long   *)
(* as it likes and still have finitely many states.                        *)
(*                                                                         *)
(* An operator marked as a slip is its neighbour with a mistake: the runs  *)
(* are made once with each of them, to see that a property notices.        *)
(***************************************************************************)
EXTENDS Integers, Sequences, FiniteSets

CONSTANTS
  FailureThreshold,  \* failures within the window that trip the breaker
  FailureWindow,     \* ticks a failure counts
  OpenTimeout,       \* ticks OPEN before the first trial
  HalfOpenRequests   \* trials admitted in HALF_OPEN

\* New replaces every non-positive setting by its default.
ASSUME BreakerConfig ==
  /\ FailureThreshold \in Nat \ {0}
  /\ FailureWindow \in Nat \ {0}
  /\ OpenTimeout \in Nat \ {0}
  /\ HalfOpenRequests \in Nat \ {0}

State == {"CLOSED", "OPEN", "HALF_OPEN"}

\* failures: ages of the recorded failures, oldest first (they are appended in
\* the order of the clock); openFor: time since openedAt, kept while OPEN.
BreakerType ==
  [ state : State, failures : Seq(0 .. FailureWindow), openFor : 0 .. OpenTimeout,
    successes : Nat, inFlight : Nat ]

New == [ state |-> "CLOSED", failures |-> <<>>, openFor |-> 0,
         successes |-> 0, inFlight |-> 0 ]

\* shouldCount: the configured lists are never stored, the defaults decide.
Countable == {"server_error", "timeout", "connection"}

Saturated(n, bound) == IF n < bound THEN n ELSE bound

Older(ages, bound) == [ i \in DOMAIN ages |-> Saturated(ages[i] + 1, bound) ]

Elapse(b) ==
  [ b EXCEPT !.failures = Older(@, FailureWindow),
             !.openFor = IF b.state = "OPEN" THEN Saturated(@ + 1, OpenTimeout) ELSE @ ]

\* The failures still inside the sliding window: ages ascend towards the front,
\* so filtering the old ones out drops a prefix.
Expired(ages) == { i \in DOMAIN ages : ages[i] >= FailureWindow }
InWindow(ages) == SubSeq(ages, Cardinality(Expired(ages)) + 1, Len(ages))

\* Allow: whether the call is admitted, and the breaker it leaves behind.
TimeoutOverEarly(b) == b.state = "OPEN" /\ b.openFor + 1 >= OpenTimeout  \* slip
TimeoutOver(b) == b.state = "OPEN" /\ b.openFor >= OpenTimeout
FreeTrial(b)   == b.state = "HALF_OPEN" /\ b.inFlight < HalfOpenRequests
Allows(b)      == b.state = "CLOSED" \/ TimeoutOver(b) \/ FreeTrial(b)

\* Slip: the trial that ends OPEN takes no slot.
AllowUncounted(b) ==
  IF TimeoutOver(b)
  THEN [ b EXCEPT !.state = "HALF_OPEN", !.failures = <<>>, !.openFor = 0,
                  !.successes = 0, !.inFlight = 0 ]
  ELSE IF FreeTrial(b) THEN [ b EXCEPT !.inFlight = @ + 1 ]
  ELSE b

Allow(b) ==
  IF TimeoutOver(b)
  THEN [ b EXCEPT !.state = "HALF_OPEN", !.failures = <<>>, !.openFor = 0,
                  !.successes = 0, !.inFlight = 1 ]
  ELSE IF FreeTrial(b) THEN [ b EXCEPT !.inFlight = @ + 1 ]
  ELSE b

\* Slip: one success more than there are slots.
RecordSuccessTooMany(b) ==
  IF b.state = "HALF_OPEN"
  THEN IF b.successes + 1 > HalfOpenRequests
       THEN New
       ELSE [ b EXCEPT !.successes = @ + 1 ]
  ELSE IF b.state = "CLOSED" THEN [ b EXCEPT !.failures = InWindow(@) ]
  ELSE b

RecordSuccess(b) ==
  IF b.state = "HALF_OPEN"
  THEN IF b.successes + 1 >= HalfOpenRequests
       THEN New
       ELSE [ b EXCEPT !.successes = @ + 1 ]
  ELSE IF b.state = "CLOSED" THEN [ b EXCEPT !.failures = InWindow(@) ]
  ELSE b

Tripped(failures) == [ state |-> "OPEN", failures |-> failures, openFor |-> 0,
                        successes |-> 0, inFlight |-> 0 ]

\* Slips: one failure too many, and failures that never leave the window.
RecordFailureTooMany(b, errType) ==
  LET recorded == Append(InWindow(b.failures), 0) IN
  IF errType \notin Countable \/ b.state = "OPEN" THEN b
  ELSE IF b.state = "HALF_OPEN" THEN Tripped(b.failures)
  ELSE IF Len(recorded) > FailureThreshold THEN Tripped(recorded)
  ELSE [ b EXCEPT !.failures = recorded ]

RecordFailureUnpruned(b, errType) ==
  LET recorded == Append(b.failures, 0) IN
  IF errType \notin Countable \/ b.state = "OPEN" THEN b
  ELSE IF b.state = "HALF_OPEN" THEN Tripped(b.failures)
  ELSE IF Len(recorded) >= FailureThreshold THEN Tripped(recorded)
  ELSE [ b EXCEPT !.failures = recorded ]

RecordFailure(b, errType) ==
  LET recorded == Append(InWindow(b.failures), 0) IN
  IF errType \notin Countable \/ b.state = "OPEN" THEN b
  ELSE IF b.state = "HALF_OPEN" THEN Tripped(b.failures)
  ELSE IF Len(recorded) >= FailureThreshold THEN Tripped(recorded)
  ELSE [ b EXCEPT !.failures = recorded ]
=============================================================================
