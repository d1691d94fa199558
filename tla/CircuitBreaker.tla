--------------------------- MODULE CircuitBreaker ---------------------------
(***************************************************************************)
(* One target's breaker under concurrent calls:                            *)
(* CircuitBreakerUpstreamClient._guarded of                                *)
(* src/gateway/infrastructure/resilience/circuit_breaker.py.               *)
(*                                                                         *)
(* _guarded suspends once, at "await call(request)".  Up to there it runs  *)
(* try_acquire, after it exactly one of on_success, on_failure, on_abort.  *)
(* A call carries no record of the state it was admitted in, so one that   *)
(* was admitted while the circuit was closed may come back when it is      *)
(* open, or half-open with somebody else's probe in flight.                *)
(***************************************************************************)
EXTENDS Breaker

CONSTANT
    Callers     \* requests that can be in flight at the same time

VARIABLES
    breaker,    \* the CircuitBreaker of the target
    inflight,   \* callers suspended at "await call(request)"
    probes,     \* history: those of them admitted in the current half-open
                \* episode; empty whenever the circuit is not half-open
    strays      \* history: callers admitted before this episode and cancelled
                \* during it, when on_abort frees a slot that is not theirs

breakerVars == <<breaker, inflight, probes, strays>>

BreakerTypeOK ==
    /\ breaker \in Breakers
    /\ inflight \subseteq Callers
    /\ probes \subseteq inflight
    /\ strays \subseteq Callers

BreakerInit ==
    /\ breaker = NewBreaker
    /\ inflight = {}
    /\ probes = {}
    /\ strays = {}

\* _guarded up to the await.  A refused caller gets CircuitOpenError and is
\* gone; its asking may still have turned the breaker half-open.
Begin(c) ==
    LET ask == try_acquire(breaker)
    IN  /\ c \notin inflight
        /\ breaker' = ask.after
        /\ IF ask.granted
           THEN /\ inflight' = inflight \cup {c}
                /\ probes' = IF ask.after.state = "half_open"
                             THEN probes \cup {c} ELSE probes
           ELSE UNCHANGED <<inflight, probes>>
        /\ UNCHANGED strays

Return(c, after) ==
    /\ c \in inflight
    /\ breaker' = after
    /\ inflight' = inflight \ {c}
    /\ probes' = IF after.state = "half_open" THEN probes \ {c} ELSE {}
    /\ strays' = IF after.state = "half_open" THEN strays \cup ({c} \ probes) ELSE {}

\* A response whose status is not 502, 503 or 504.
Succeed(c) == Return(c, on_success(breaker))

\* An UpstreamError, or a response with one of those statuses.
Fail(c) == Return(c, on_failure(breaker))

\* Any other exception, in practice the cancellation of the caller's task.
Cancel(c) == Return(c, on_abort(breaker))

Tick ==
    /\ breaker # Aged(breaker)
    /\ breaker' = Aged(breaker)
    /\ UNCHANGED <<inflight, probes, strays>>

Finish(c) == Succeed(c) \/ Fail(c) \/ Cancel(c)

BreakerNext == Tick \/ \E c \in Callers : Begin(c) \/ Finish(c)

\* Time passes, and every call ends: httpx gives each one a timeout.  Nobody
\* is obliged to call.
Fairness == WF_breakerVars(Tick) /\ \A c \in Callers : WF_breakerVars(Finish(c))

BreakerSpec == BreakerInit /\ [][BreakerNext]_breakerVars

FairSpec == BreakerSpec /\ Fairness

-----------------------------------------------------------------------------
(* Properties.                                                             *)

\* The probe slot never leaks: when a half-open circuit refuses because a
\* probe is in flight, a call it admitted as a probe really is in flight and
\* will give the verdict (or the slot) back.
SlotHasHolder == breaker.state = "half_open" /\ breaker.probe => probes # {}

\* The "single probe request" of the class docstring, and how far it goes: two
\* requests of one half-open episode are in flight at once only after a call
\* from before the episode was cancelled during it.
SingleProbe == strays = {} => \A p, q \in probes : p = q

\* A half-open circuit has been idle or is being probed; it never carries
\* failures counted against the closed circuit, and a slot taken in one
\* episode is not still taken when the next one starts.
EpisodeStartsClean ==
    /\ breaker.state # "half_open" => ~breaker.probe
    /\ breaker.state # "closed" => breaker.failures = 0

\* An open circuit is left only towards half-open, after the whole recovery
\* timeout: no late answer to a call made before the trip, good or bad,
\* cuts the quarantine short.
QuarantineServed ==
    [][breaker.state = "open" /\ breaker'.state # "open"
         => breaker'.state = "half_open" /\ breaker.age = RecoveryTimeout]_breakerVars

\* Whatever happens, the circuit comes to admit requests again.
AdmitsAgain == []<> try_acquire(breaker).granted

=============================================================================
