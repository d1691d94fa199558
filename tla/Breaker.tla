------------------------------- MODULE Breaker -------------------------------
(***************************************************************************)
(* class CircuitBreaker of                                                 *)
(* src/gateway/infrastructure/resilience/circuit_breaker.py as operators   *)
(* on a value: each method is a function from the breaker before the call  *)
(* to the breaker after it.  The modules that own breakers (CircuitBreaker *)
(* for one, Upstream for one per instance) hold them in their variables.   *)
(*                                                                         *)
(* _opened_at and the clock only ever meet in the comparison               *)
(* clock - opened_at < recovery_timeout, so the model keeps the difference *)
(* instead, counted while the breaker is open and saturated at             *)
(* RecoveryTimeout: .age = RecoveryTimeout stands for every later time.    *)
(***************************************************************************)
EXTENDS Naturals

CONSTANTS
    FailureThreshold,   \* _failure_threshold: consecutive failures that trip
    RecoveryTimeout     \* _recovery_timeout, in clock ticks

\* The two ValueErrors of CircuitBreaker.__init__.
ASSUME BreakerAssumption ==
    /\ FailureThreshold \in Nat \ {0}
    /\ RecoveryTimeout \in Nat \ {0}

CircuitState == {"closed", "open", "half_open"}

\* failures stays below the threshold: the failure that reaches it trips.
Breakers == [state    : CircuitState,
             failures : 0..(FailureThreshold - 1),
             age      : 0..RecoveryTimeout,
             probe    : BOOLEAN]

NewBreaker == [state |-> "closed", failures |-> 0, age |-> 0, probe |-> FALSE]

-----------------------------------------------------------------------------
(* Plausible bugs of the methods below, used to test the properties.       *)

\* try_acquire that forgets to take the probe slot.
AcquireWithoutSlot(b) ==
    [granted |-> b.state # "open" \/ b.age >= RecoveryTimeout,
     after   |-> IF b.state = "open" /\ b.age >= RecoveryTimeout
                 THEN [b EXCEPT !.state = "half_open"] ELSE b]

\* on_success that closes whatever the state is.
SuccessClosesAnyState(b) ==
    [b EXCEPT !.state = "closed", !.probe = FALSE, !.failures = 0]

\* on_failure that trips one failure too late.
FailureTripsLate(b) ==
    CASE b.state = "half_open" -> [NewBreaker EXCEPT !.state = "open"]
      [] b.state = "closed"    -> IF b.failures >= FailureThreshold
                                  THEN [NewBreaker EXCEPT !.state = "open"]
                                  ELSE [b EXCEPT !.failures = @ + 1]
      [] b.state = "open"      -> b

\* on_abort that does nothing.
AbortKeepsSlot(b) == b

-----------------------------------------------------------------------------

trip(b) == [state |-> "open", failures |-> 0, age |-> 0, probe |-> FALSE]

\* An open breaker whose recovery timeout has elapsed turns half-open the
\* moment somebody asks, whether or not that caller then gets through.
Asked(b) ==
    IF b.state = "open" /\ b.age >= RecoveryTimeout
    THEN [b EXCEPT !.state = "half_open"] ELSE b

try_acquire(b) ==
    LET h == Asked(b)
    IN  [granted |-> h.state = "closed" \/ (h.state = "half_open" /\ ~h.probe),
         after   |-> IF h.state = "half_open" THEN [h EXCEPT !.probe = TRUE]
                                              ELSE h]

on_success(b) ==
    IF b.state = "half_open"
    THEN [b EXCEPT !.state = "closed", !.probe = FALSE, !.failures = 0]
    ELSE [b EXCEPT !.failures = 0]

on_failure(b) ==
    CASE b.state = "half_open" -> trip(b)
      [] b.state = "closed"    -> IF b.failures + 1 >= FailureThreshold
                                  THEN trip(b)
                                  ELSE [b EXCEPT !.failures = @ + 1]
      [] b.state = "open"      -> b

on_abort(b) == [b EXCEPT !.probe = FALSE]

\* One clock tick, as an open breaker sees it.
Aged(b) ==
    IF b.state = "open" /\ b.age < RecoveryTimeout
    THEN [b EXCEPT !.age = @ + 1] ELSE b

=============================================================================
