------------------------------ MODULE Upstream ------------------------------
(***************************************************************************)
(* The outbound chain a request to one service goes through, as            *)
(* bootstrap.py composes it: LoadBalancingUpstreamClient                   *)
(* (load_balancer.py) around CircuitBreakerUpstreamClient                  *)
(* (circuit_breaker.py, one breaker per instance) around                   *)
(* RetryingUpstreamClient (retry.py) around HttpxUpstreamClient            *)
(* (httpx_client.py), over a network that may refuse a connection, lose an *)
(* answer, or answer with a gateway error.                                 *)
(*                                                                         *)
(* A request's coroutine suspends while an attempt is on the wire and      *)
(* while it sleeps between two attempts; everything in between is one      *)
(* step.  Other requests to the same service interleave there, and share   *)
(* the breakers and the round-robin turn with it.                          *)
(***************************************************************************)
EXTENDS Breaker

CONSTANTS
    Requests,       \* requests being served concurrently
    Idempotent,     \* those whose method is in IDEMPOTENT_METHODS
    Instances,      \* number of instances of the service
    MaxAttempts     \* RetryPolicy.max_attempts

ASSUME UpstreamAssumption ==
    /\ Idempotent \subseteq Requests
    /\ Instances \in Nat \ {0}
    /\ MaxAttempts \in Nat \ {0}

Instance == 0..(Instances - 1)

VARIABLES
    breakers,   \* CircuitBreakerUpstreamClient._breakers, by instance
    nextTurn,   \* LoadBalancingUpstreamClient._next_turn of the service
    req,        \* what each request's coroutine holds
    received    \* history: how often each request reached an instance

vars == <<breakers, nextTurn, req, received>>

(* phase    where the coroutine is: not begun, about to ask the next        *)
(*          instance's breaker, on the wire, asleep before a retry, ended   *)
(* at, left the instance in turn and how many are left to try, it included  *)
(* attempt  the retry loop's counter                                        *)
(* failed   whether errors holds an UpstreamError, next to open circuits    *)
(* result   how it ended                                                    *)
Phases  == {"new", "routing", "wire", "backoff", "done"}
Results == {"none", "response", "upstream_error", "circuit_open", "cancelled"}

Coroutines == [phase   : Phases,
               at      : Instance,
               left    : 0..Instances,
               attempt : 0..MaxAttempts,
               failed  : BOOLEAN,
               result  : Results]

\* What an attempt can come back with.  The status of a response is all the
\* retry and the breaker look at; an error says whether it was raised after
\* the request was sent (httpx_client.py: _NOT_SENT_TIMEOUTS, ConnectError).
Outcomes == {"response", "bad_gateway", "lost", "not_sent"}

Is_error(out) == out \in {"lost", "not_sent"}

TypeOK ==
    /\ breakers \in [Instance -> Breakers]
    /\ nextTurn \in Instance
    /\ req \in [Requests -> Coroutines]
    /\ received \in [Requests -> Nat]

Init ==
    /\ breakers = [i \in Instance |-> NewBreaker]
    /\ nextTurn = 0
    /\ req = [r \in Requests |->
                [phase |-> "new", at |-> 0, left |-> 0, attempt |-> 0,
                 failed |-> FALSE, result |-> "none"]]
    /\ received = [r \in Requests |-> 0]

-----------------------------------------------------------------------------
(* Plausible bugs of the definitions below, used to test the properties.   *)

\* Fails over whatever the method, as long as something went wrong.
FailsOverAlways(r, out) == TRUE

\* Counts attempts from the wrong end: one more than the policy allows.
RetriesOnceTooOften(r, out, attempt) ==
    r \in Idempotent /\ out # "response" /\ attempt < MaxAttempts + 1

\* Raises the last error instead of preferring one of an instance tried.
MovesOnWithLastError(q, tried) ==
    IF q.left > 1
    THEN [q EXCEPT !.phase = "routing", !.at = (@ + 1) % Instances,
                   !.left = @ - 1, !.failed = @ \/ tried]
    ELSE [q EXCEPT !.phase = "done", !.left = 0,
                   !.result = IF tried THEN "upstream_error"
                                       ELSE "circuit_open"]

\* Goes round again while circuits are open.
MovesOnUntilClosed(q, tried) ==
    IF q.left > 1 \/ ~tried
    THEN [q EXCEPT !.phase = "routing", !.at = (@ + 1) % Instances,
                   !.left = IF @ > 1 THEN @ - 1 ELSE 1, !.failed = @ \/ tried]
    ELSE [q EXCEPT !.phase = "done", !.left = 0, !.result = "upstream_error"]

-----------------------------------------------------------------------------
(* LoadBalancingUpstreamClient                                             *)

\* _can_fail_over.
can_fail_over(r, out) == r \in Idempotent \/ out = "not_sent"

\* should_retry_status, _RETRYABLE_ERRORS and the attempt limit: every
\* UpstreamError httpx_client.py raises is retryable.
should_retry(r, out, attempt) ==
    r \in Idempotent /\ out # "response" /\ attempt < MaxAttempts

\* The except clauses of _balanced: note the error and take the next instance
\* of the rotation, or raise, preferring the error of an instance tried.
moves_on(q, tried) ==
    IF q.left > 1
    THEN [q EXCEPT !.phase = "routing", !.at = (@ + 1) % Instances,
                   !.left = @ - 1, !.failed = @ \/ tried]
    ELSE [q EXCEPT !.phase = "done", !.left = 0,
                   !.result = IF q.failed \/ tried THEN "upstream_error"
                                                   ELSE "circuit_open"]

ends(q, result) == [q EXCEPT !.phase = "done", !.result = result]

\* _rotation: the request starts at the instance in turn.
Balance(r) ==
    /\ req[r].phase = "new"
    /\ req' = [req EXCEPT ![r].phase = "routing", ![r].at = nextTurn,
                          ![r].left = Instances]
    /\ nextTurn' = (nextTurn + 1) % Instances
    /\ UNCHANGED <<breakers, received>>

\* A request that names its instance goes there and nowhere else.
Pinned(r, i) ==
    /\ req[r].phase = "new"
    /\ req' = [req EXCEPT ![r].phase = "routing", ![r].at = i, ![r].left = 1]
    /\ UNCHANGED <<breakers, nextTurn, received>>

-----------------------------------------------------------------------------
(* CircuitBreakerUpstreamClient and RetryingUpstreamClient                 *)

\* _guarded up to its await: the first attempt leaves, or the circuit is
\* open and the balancer hears CircuitOpenError.
Ask(r) ==
    LET q   == req[r]
        ask == try_acquire(breakers[q.at])
    IN  /\ q.phase = "routing"
        /\ breakers' = [breakers EXCEPT ![q.at] = ask.after]
        /\ req' = [req EXCEPT ![r] =
                     IF ask.granted
                     THEN [q EXCEPT !.phase = "wire", !.attempt = 1]
                     ELSE moves_on(q, FALSE)]
        /\ UNCHANGED <<nextTurn, received>>

\* An attempt's outcome reaches the retry loop.  If it is not retried, the
\* breaker counts it, once for the whole series of attempts, and the balancer
\* returns the response, raises, or goes on to the next instance.
Answer(r, out) ==
    LET q == req[r]
    IN  /\ q.phase = "wire"
        /\ \/ out # "not_sent" /\ received' = [received EXCEPT ![r] = @ + 1]
           \/ Is_error(out) /\ UNCHANGED received
        /\ IF should_retry(r, out, q.attempt)
           THEN /\ req' = [req EXCEPT ![r].phase = "backoff"]
                /\ UNCHANGED breakers
           ELSE /\ breakers' = [breakers EXCEPT ![q.at] =
                                  IF out = "response" THEN on_success(@)
                                                      ELSE on_failure(@)]
                /\ req' = [req EXCEPT ![r] =
                             IF ~Is_error(out) THEN ends(q, "response")
                             ELSE IF can_fail_over(r, out) THEN moves_on(q, TRUE)
                             ELSE ends(q, "upstream_error")]
        /\ UNCHANGED nextTurn

\* The sleep between two attempts is over.
Retry(r) ==
    /\ req[r].phase = "backoff"
    /\ req' = [req EXCEPT ![r].phase = "wire", ![r].attempt = @ + 1]
    /\ UNCHANGED <<breakers, nextTurn, received>>

\* The request's task is cancelled where it is suspended.  Its attempt may
\* have been received all the same.
Cancel(r) ==
    LET q == req[r]
    IN  /\ q.phase \in {"wire", "backoff"}
        /\ \/ UNCHANGED received
           \/ q.phase = "wire" /\ received' = [received EXCEPT ![r] = @ + 1]
        /\ breakers' = [breakers EXCEPT ![q.at] = on_abort(@)]
        /\ req' = [req EXCEPT ![r] = ends(q, "cancelled")]
        /\ UNCHANGED nextTurn

Tick ==
    /\ \E i \in Instance : Aged(breakers[i]) # breakers[i]
    /\ breakers' = [i \in Instance |-> Aged(breakers[i])]
    /\ UNCHANGED <<nextTurn, req, received>>

Step(r) == Ask(r) \/ (\E out \in Outcomes : Answer(r, out)) \/ Retry(r)

Next ==
    \/ \E r \in Requests : \/ Balance(r)
                           \/ \E i \in Instance : Pinned(r, i)
                           \/ Step(r)
                           \/ Cancel(r)
    \/ Tick

\* Everything a coroutine waits for has a timeout, and the event loop runs
\* whatever is ready.
Fairness == \A r \in Requests : WF_vars(Step(r))

Spec == Init /\ [][Next]_vars

FairSpec == Spec /\ Fairness

-----------------------------------------------------------------------------
(* Properties.                                                             *)

\* "Non-idempotent methods (POST, PATCH) are never retried: repeating them
\* could duplicate side effects": across the retries, the failover and every
\* instance, such a request is received at most once.
PostAtMostOnce == \A r \in Requests \ Idempotent : received[r] <= 1

\* An idempotent request may be repeated, but no failure pattern makes it more
\* than max_attempts on each instance it may visit.
RepeatsBounded == \A r \in Requests : received[r] <= Instances * MaxAttempts

\* A caller told that the circuit is open was not sent anywhere: the balancer
\* prefers the error of an instance that was tried.
OpenMeansUntouched ==
    \A r \in Requests : req[r].result = "circuit_open" => received[r] = 0

\* Every request ends once it has begun, with all its instances failing and
\* all its circuits flapping.
EveryRequestEnds ==
    \A r \in Requests : req[r].phase = "routing" ~> req[r].phase = "done"

=============================================================================
