--------------------------- MODULE CircuitBreaker ---------------------------
(***************************************************************************)
(* CircuitBreaker of app/gateway_client.py as a value                      *)
(* [state, failures, since] and the operators its methods compute.         *)
(***************************************************************************)
EXTENDS Integers

CONSTANTS FailureThreshold,   \* CIRCUIT_BREAKER_FAILURE_THRESHOLD
          OpenTimeout         \* CIRCUIT_BREAKER_TIMEOUT_SECONDS, in ticks

ASSUME FailureThresholdAssumption == FailureThreshold \in Nat \ {0}
ASSUME OpenTimeoutAssumption == OpenTimeout \in Nat \ {0}

CircuitStates == {"CLOSED", "OPEN", "HALF_OPEN"}

Never == -1   \* _last_failure_time is None

\* since is the age of _last_failure_time, stopped at OpenTimeout; failures is
\* _failure_count, stopped at FailureThreshold: the code compares them with
\* these two limits only.
BreakerSet ==
  [state : CircuitStates, failures : 0 .. FailureThreshold, since : Never .. OpenTimeout]

NewBreaker == [state |-> "CLOSED", failures |-> 0, since |-> Never]

TimedOut(b) == b.since # Never /\ b.since >= OpenTimeout

\* Mistakes in Seen: an open breaker is probed at once, or never.
SeenAtOnce(b) == IF b.state = "OPEN" THEN [b EXCEPT !.state = "HALF_OPEN"] ELSE b
SeenNever(b) == b

\* The state property moves an open breaker whose timeout is over to half-open;
\* it is the only thing that does, so an unread breaker stays open.
Seen(b) ==
  IF b.state = "OPEN" /\ TimedOut(b) THEN [b EXCEPT !.state = "HALF_OPEN"] ELSE b

AllowsRequest(b) == Seen(b).state \in {"CLOSED", "HALF_OPEN"}

\* A mistake in RecordSuccess: one failure is forgiven instead of all.
RecordSuccessForgivingOne(b) ==
  [state |-> "CLOSED", failures |-> b.failures - 1, since |-> b.since]

\* record_success closes the breaker from every state and keeps
\* _last_failure_time.
RecordSuccess(b) == [state |-> "CLOSED", failures |-> 0, since |-> b.since]

OneMore(n) == IF n < FailureThreshold THEN n + 1 ELSE n

\* A mistake in RecordFailure: the count is compared before it grows.
RecordFailureLate(b) ==
  [state    |-> IF b.state = "HALF_OPEN" \/ b.failures >= FailureThreshold
                THEN "OPEN" ELSE b.state,
   failures |-> OneMore(b.failures),
   since    |-> 0]

\* record_failure looks at the stored state, not at the state property.
RecordFailure(b) ==
  [state    |-> IF b.state = "HALF_OPEN" \/ OneMore(b.failures) >= FailureThreshold
                THEN "OPEN" ELSE b.state,
   failures |-> OneMore(b.failures),
   since    |-> 0]

\* One tick of the clock.
Later(b) ==
  IF b.since # Never /\ b.since < OpenTimeout THEN [b EXCEPT !.since = b.since + 1] ELSE b

\* _update_circuit_breaker_metric.
GaugeOf(state) == CASE state = "CLOSED" -> 0 [] state = "OPEN" -> 1 [] state = "HALF_OPEN" -> 2
=============================================================================
