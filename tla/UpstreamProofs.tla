--------------------------- MODULE UpstreamProofs ---------------------------
(***************************************************************************)
(* Proofs about Upstream for every number of instances, attempts and       *)
(* concurrent requests.                                                    *)
(***************************************************************************)
EXTENDS Upstream, TLAPS

\* Every method of the breaker maps a breaker to a breaker.
LEMMA BreakerMethods ==
    ASSUME NEW b \in Breakers
    PROVE  /\ try_acquire(b).granted \in BOOLEAN
           /\ try_acquire(b).after \in Breakers
           /\ on_success(b) \in Breakers
           /\ on_failure(b) \in Breakers
           /\ on_abort(b) \in Breakers
           /\ Aged(b) \in Breakers
<1> USE BreakerAssumption DEF Breakers, CircuitState
<1>1. try_acquire(b).granted \in BOOLEAN /\ try_acquire(b).after \in Breakers
  BY DEF try_acquire, Asked
<1>2. on_success(b) \in Breakers
  <2>1. 0 \in 0..(FailureThreshold - 1)
    OBVIOUS
  <2>2. CASE b.state = "half_open"
    BY <2>1, <2>2 DEF on_success
  <2>3. CASE b.state # "half_open"
    BY <2>1, <2>3 DEF on_success
  <2> QED
    BY <2>2, <2>3
<1>3. on_failure(b) \in Breakers
  BY DEF on_failure, trip
<1>4. on_abort(b) \in Breakers
  BY DEF on_abort
<1>5. Aged(b) \in Breakers
  BY DEF Aged
<1> QED
  BY <1>1, <1>2, <1>3, <1>4, <1>5

\* The instance after any instance of the rotation is an instance.
LEMMA NextInstance ==
    ASSUME NEW i \in Instance
    PROVE  (i + 1) % Instances \in Instance
  BY UpstreamAssumption DEF Instance

\* Moving on leaves a well-formed coroutine that is routing again or done.
LEMMA MovesOn ==
    ASSUME NEW q \in Coroutines, NEW tried \in BOOLEAN
    PROVE  /\ moves_on(q, tried) \in Coroutines
           /\ \/ /\ moves_on(q, tried).phase = "routing"
                 /\ moves_on(q, tried).failed = (q.failed \/ tried)
                 /\ moves_on(q, tried).result = q.result
              \/ /\ moves_on(q, tried).phase = "done"
                 /\ moves_on(q, tried).result
                      = IF q.failed \/ tried THEN "upstream_error"
                                             ELSE "circuit_open"
<1>1. CASE q.left > 1
  <2>1. (q.at + 1) % Instances \in Instance
    BY NextInstance DEF Coroutines
  <2>2. q.left - 1 \in 0..Instances
    BY <1>1, UpstreamAssumption DEF Coroutines
  <2> QED
    BY <1>1, <2>1, <2>2 DEF moves_on, Coroutines, Phases
<1>2. CASE ~(q.left > 1)
  <2> DEFINE result == IF q.failed \/ tried THEN "upstream_error"
                                            ELSE "circuit_open"
  <2>1. moves_on(q, tried)
          = [q EXCEPT !.phase = "done", !.left = 0, !.result = result]
    BY <1>2 DEF moves_on
  <2>2. 0 \in 0..Instances /\ result \in Results
    BY UpstreamAssumption DEF Results
  <2> HIDE DEF result
  <2>3. /\ moves_on(q, tried) \in Coroutines
        /\ moves_on(q, tried).phase = "done"
        /\ moves_on(q, tried).result = result
    BY <2>1, <2>2 DEF Coroutines, Phases
  <2> QED
    BY <2>3 DEF result
<1> QED
  BY <1>1, <1>2

\* An ended coroutine is well-formed.
LEMMA Ends ==
    ASSUME NEW q \in Coroutines, NEW result \in Results
    PROVE  /\ ends(q, result) \in Coroutines
           /\ ends(q, result).phase = "done"
           /\ ends(q, result).result = result
  BY DEF ends, Coroutines, Phases

-----------------------------------------------------------------------------
(* Why a POST is received at most once: as long as the request may still be *)
(* sent it has not been received, because the one outcome that sends it on  *)
(* to another instance is the one in which it never left.  Why an open      *)
(* circuit means untouched: a request about to ask a breaker has been       *)
(* received only if an attempt failed, which .failed records.               *)

NotYetReceived(r) ==
    /\ r \notin Idempotent =>
         /\ req[r].phase # "backoff"
         /\ req[r].phase # "done" => received[r] = 0
         /\ received[r] <= 1
    /\ req[r].phase \in {"new", "routing"} /\ ~req[r].failed
         => received[r] = 0
    /\ req[r].phase # "done" => req[r].result = "none"
    /\ req[r].result = "circuit_open" => received[r] = 0

AttemptInv ==
    \A r \in Requests :
        /\ req[r].phase \in {"wire", "backoff"} => req[r].attempt >= 1
        /\ req[r].phase = "backoff" => req[r].attempt < MaxAttempts

SafetyInv ==
    /\ TypeOK
    /\ AttemptInv
    /\ \A r \in Requests : NotYetReceived(r)

\* No step of a request, of another one or of the clock breaks any of this.
LEMMA SafetyInvHolds == Spec => []SafetyInv
<1>1. Init => SafetyInv
  <2> SUFFICES ASSUME Init
               PROVE  SafetyInv
    OBVIOUS
  <2>1. NewBreaker \in Breakers
    BY BreakerAssumption DEF NewBreaker, Breakers, CircuitState
  <2>2. 0 \in Instance
    BY UpstreamAssumption DEF Instance
  <2>3. TypeOK
    BY <2>1, <2>2, UpstreamAssumption
       DEF Init, TypeOK, Coroutines, Phases, Results
  <2> QED
    BY <2>3 DEF Init, SafetyInv, AttemptInv, NotYetReceived
<1>2. SafetyInv /\ [Next]_vars => SafetyInv'
  <2> SUFFICES ASSUME SafetyInv, [Next]_vars
               PROVE  SafetyInv'
    OBVIOUS
  <2>a. TypeOK /\ AttemptInv /\ \A r \in Requests : NotYetReceived(r)
    BY DEF SafetyInv
  <2>b. \A i \in Instance : breakers[i] \in Breakers
    BY <2>a DEF TypeOK
  <2>c. \A r \in Requests : req[r] \in Coroutines /\ received[r] \in Nat
    BY <2>a DEF TypeOK
  <2>1. ASSUME NEW r \in Requests, Balance(r)
        PROVE  SafetyInv'
    <3> DEFINE w == [req[r] EXCEPT !.phase = "routing", !.at = nextTurn,
                                   !.left = Instances]
    <3>1. req' = [req EXCEPT ![r] = w] /\ UNCHANGED <<breakers, received>>
      BY <2>a, <2>c, <2>1 DEF Balance, TypeOK
    <3>2. /\ w \in Coroutines
          /\ w.phase = "routing"
          /\ w.failed = req[r].failed
          /\ w.result = req[r].result
      <4>1. nextTurn \in Instance /\ Instances \in 0..Instances
        BY <2>a, UpstreamAssumption DEF TypeOK
      <4> QED
        BY <2>c, <4>1 DEF Coroutines, Phases
    <3>3. nextTurn' \in Instance
      BY <2>a, <2>1, NextInstance DEF Balance, TypeOK
    <3> HIDE DEF w
    <3>4. TypeOK'
      BY <2>a, <3>1, <3>2, <3>3 DEF TypeOK
    <3> QED
      BY <2>a, <2>c, <2>1, <3>1, <3>2, <3>4
         DEF Balance, SafetyInv, AttemptInv, NotYetReceived, TypeOK
  <2>2. ASSUME NEW r \in Requests, NEW i \in Instance, Pinned(r, i)
        PROVE  SafetyInv'
    <3> DEFINE w == [req[r] EXCEPT !.phase = "routing", !.at = i, !.left = 1]
    <3>1. /\ req' = [req EXCEPT ![r] = w]
          /\ UNCHANGED <<breakers, nextTurn, received>>
      BY <2>a, <2>c, <2>2 DEF Pinned, TypeOK
    <3>2. /\ w \in Coroutines
          /\ w.phase = "routing"
          /\ w.failed = req[r].failed
          /\ w.result = req[r].result
      <4>1. 1 \in 0..Instances
        BY UpstreamAssumption
      <4> QED
        BY <2>c, <4>1 DEF Coroutines, Phases
    <3> HIDE DEF w
    <3>3. TypeOK'
      BY <2>a, <3>1, <3>2 DEF TypeOK
    <3> QED
      BY <2>a, <2>c, <2>2, <3>1, <3>2, <3>3
         DEF Pinned, SafetyInv, AttemptInv, NotYetReceived, TypeOK
  <2>3. ASSUME NEW r \in Requests, Ask(r)
        PROVE  SafetyInv'
    <3> DEFINE q == req[r]
               ask == try_acquire(breakers[q.at])
    <3>1. q \in Coroutines /\ q.at \in Instance /\ q.phase = "routing"
      BY <2>c, <2>3 DEF Coroutines, Ask
    <3>2. ask.granted \in BOOLEAN /\ ask.after \in Breakers
      BY <2>b, <3>1, BreakerMethods
    <3>3. breakers' \in [Instance -> Breakers]
      BY <2>a, <2>3, <3>2 DEF Ask, TypeOK
    <3>4. CASE ask.granted
      <4> DEFINE w == [q EXCEPT !.phase = "wire", !.attempt = 1]
      <4>1. req' = [req EXCEPT ![r] = w]
        BY <2>3, <3>4 DEF Ask
      <4>2. 1 \in 0..MaxAttempts
        BY UpstreamAssumption
      <4>3. /\ w \in Coroutines
            /\ w.phase = "wire"
            /\ w.attempt = 1
            /\ w.result = q.result
        BY <3>1, <4>2 DEF Coroutines, Phases
      <4> HIDE DEF w
      <4>4. TypeOK'
        BY <2>a, <2>3, <3>3, <4>1, <4>3 DEF TypeOK, Ask
      <4>5. received' = received /\ req[r].phase = "routing"
        BY <2>3 DEF Ask
      <4>6. AttemptInv'
        BY <2>a, <4>1, <4>3 DEF AttemptInv, TypeOK
      <4>7. \A s \in Requests : NotYetReceived(s)'
        BY <2>a, <4>1, <4>3, <4>5 DEF NotYetReceived, TypeOK
      <4> QED
        BY <4>4, <4>6, <4>7 DEF SafetyInv
    <3>5. CASE ~ask.granted
      <4>1. req' = [req EXCEPT ![r] = moves_on(q, FALSE)]
        BY <2>3, <3>5 DEF Ask
      <4>2. /\ moves_on(q, FALSE) \in Coroutines
            /\ \/ /\ moves_on(q, FALSE).phase = "routing"
                  /\ moves_on(q, FALSE).failed = q.failed
                  /\ moves_on(q, FALSE).result = q.result
               \/ /\ moves_on(q, FALSE).phase = "done"
                  /\ moves_on(q, FALSE).result
                       = IF q.failed THEN "upstream_error" ELSE "circuit_open"
        BY <3>1, MovesOn DEF Coroutines
      <4>3. TypeOK'
        BY <2>a, <2>3, <3>3, <4>1, <4>2 DEF TypeOK, Ask
      <4> QED
        BY <2>a, <2>c, <2>3, <3>1, <4>1, <4>2, <4>3
           DEF Ask, SafetyInv, AttemptInv, NotYetReceived, TypeOK
    <3> QED
      BY <3>2, <3>4, <3>5
  <2>4. ASSUME NEW r \in Requests, NEW out \in Outcomes, Answer(r, out)
        PROVE  SafetyInv'
    <3> DEFINE q == req[r]
    <3>1. q \in Coroutines /\ q.at \in Instance /\ q.phase = "wire"
      BY <2>c, <2>4 DEF Coroutines, Answer
    <3>2. /\ received' \in [Requests -> Nat]
          /\ received'[r] \in {received[r], received[r] + 1}
          /\ out = "not_sent" => received'[r] = received[r]
          /\ \A s \in Requests \ {r} : received'[s] = received[s]
      BY <2>a, <2>4 DEF Answer, TypeOK, Is_error
    <3>3. CASE should_retry(r, out, q.attempt)
      <4>1. req' = [req EXCEPT ![r].phase = "backoff"]
        BY <2>4, <3>3 DEF Answer
      <4>2. r \in Idempotent /\ q.attempt < MaxAttempts
        BY <3>3 DEF should_retry
      <4>3. TypeOK'
        BY <2>a, <2>4, <3>2, <3>3, <4>1 DEF Answer, TypeOK, Coroutines, Phases
      <4> QED
        BY <2>a, <2>c, <3>1, <3>2, <4>1, <4>2, <4>3
           DEF SafetyInv, AttemptInv, NotYetReceived, TypeOK, Coroutines
    <3>4. CASE ~should_retry(r, out, q.attempt)
      <4>1. breakers' \in [Instance -> Breakers] /\ nextTurn' = nextTurn
        BY <2>a, <2>b, <2>4, <3>1, <3>4, BreakerMethods DEF Answer, TypeOK
      <4>2. PICK w \in Coroutines :
              /\ req' = [req EXCEPT ![r] = w]
              /\ \/ w.phase = "done" /\ w.result \in {"response", "upstream_error"}
                 \/ /\ w.phase = "routing"
                    /\ w.failed
                    /\ w.result = q.result
                    /\ r \in Idempotent \/ out = "not_sent"
        <5>1. CASE ~Is_error(out)
          BY <2>4, <3>1, <3>4, <5>1, Ends DEF Answer, Results
        <5>2. CASE Is_error(out) /\ can_fail_over(r, out)
          <6>1. req' = [req EXCEPT ![r] = moves_on(q, TRUE)]
            BY <2>4, <3>4, <5>2 DEF Answer
          <6>2. r \in Idempotent \/ out = "not_sent"
            BY <5>2 DEF can_fail_over
          <6>3. /\ moves_on(q, TRUE) \in Coroutines
                /\ \/ /\ moves_on(q, TRUE).phase = "routing"
                      /\ moves_on(q, TRUE).failed
                      /\ moves_on(q, TRUE).result = q.result
                   \/ /\ moves_on(q, TRUE).phase = "done"
                      /\ moves_on(q, TRUE).result = "upstream_error"
            BY <3>1, MovesOn
          <6> QED
            BY <6>1, <6>2, <6>3
        <5>3. CASE Is_error(out) /\ ~can_fail_over(r, out)
          BY <2>4, <3>1, <3>4, <5>3, Ends DEF Answer, Results
        <5> QED
          BY <5>1, <5>2, <5>3
      <4>3. TypeOK'
        BY <2>a, <3>2, <4>1, <4>2 DEF TypeOK
      <4> QED
        BY <2>a, <2>c, <3>1, <3>2, <4>2, <4>3
           DEF SafetyInv, AttemptInv, NotYetReceived, TypeOK
    <3> QED
      BY <3>3, <3>4
  <2>5. ASSUME NEW r \in Requests, Retry(r)
        PROVE  SafetyInv'
    <3>1. req[r].attempt + 1 \in 0..MaxAttempts
      BY <2>a, <2>c, <2>5, UpstreamAssumption DEF Retry, AttemptInv, Coroutines
    <3>2. TypeOK'
      BY <2>a, <2>c, <2>5, <3>1 DEF TypeOK, Retry, Coroutines, Phases
    <3> QED
      BY <2>a, <2>c, <2>5, <3>1, <3>2
         DEF Retry, SafetyInv, AttemptInv, NotYetReceived, TypeOK, Coroutines
  <2>6. ASSUME NEW r \in Requests, Cancel(r)
        PROVE  SafetyInv'
    <3>1. req[r] \in Coroutines /\ req[r].at \in Instance
      BY <2>c DEF Coroutines
    <3>2. /\ ends(req[r], "cancelled") \in Coroutines
          /\ ends(req[r], "cancelled").phase = "done"
          /\ ends(req[r], "cancelled").result = "cancelled"
      BY <3>1, Ends DEF Results
    <3>3. breakers' \in [Instance -> Breakers]
      BY <2>a, <2>b, <2>6, <3>1, BreakerMethods DEF Cancel, TypeOK
    <3>4. /\ received' \in [Requests -> Nat]
          /\ received'[r] \in {received[r], received[r] + 1}
          /\ \A s \in Requests \ {r} : received'[s] = received[s]
      BY <2>a, <2>6 DEF Cancel, TypeOK
    <3>5. TypeOK'
      BY <2>a, <2>6, <3>2, <3>3, <3>4 DEF TypeOK, Cancel
    <3> QED
      BY <2>a, <2>c, <2>6, <3>2, <3>4, <3>5
         DEF Cancel, SafetyInv, AttemptInv, NotYetReceived, TypeOK
  <2>7. CASE Tick
    <3>1. TypeOK'
      BY <2>a, <2>b, <2>7, BreakerMethods DEF TypeOK, Tick
    <3> QED
      BY <2>a, <2>7, <3>1 DEF Tick, SafetyInv, AttemptInv, NotYetReceived
  <2>8. CASE UNCHANGED vars
    BY <2>a, <2>8
       DEF vars, SafetyInv, TypeOK, AttemptInv, NotYetReceived
  <2> QED
    BY <2>1, <2>2, <2>3, <2>4, <2>5, <2>6, <2>7, <2>8 DEF Next, Step
<1> QED
  BY <1>1, <1>2, PTL DEF Spec

\* In every behaviour the chain's state is well-formed and a non-idempotent
\* request is received at most once, whatever the retries and the failover of
\* _balanced do.
THEOREM Safety == Spec => [](TypeOK /\ PostAtMostOnce)
<1>1. SafetyInv => TypeOK /\ PostAtMostOnce
  BY DEF SafetyInv, PostAtMostOnce, NotYetReceived
<1> QED
  BY <1>1, SafetyInvHolds, PTL

\* A caller that gets CircuitOpenError was not sent anywhere: _balanced
\* prefers the error of an instance that was tried.
THEOREM Untouched == Spec => []OpenMeansUntouched
<1>1. SafetyInv => OpenMeansUntouched
  BY DEF SafetyInv, OpenMeansUntouched, NotYetReceived
<1> QED
  BY <1>1, SafetyInvHolds, PTL

-----------------------------------------------------------------------------
(* Why repeats are bounded: a request leaves an instance behind for good,   *)
(* having been received there at most once per attempt of the retry loop.   *)
(* What it may have cost so far is MaxAttempts for each instance behind it  *)
(* plus the attempts made on the one in turn.                               *)

\* Attempts the policy allows on the instances a request with left to go has
\* left behind.
Behind(left) == (Instances - left) * MaxAttempts

\* Leaving one more instance behind adds MaxAttempts, and all of them together
\* are the bound.
LEMMA BehindGrows ==
    ASSUME NEW left \in 1..Instances
    PROVE  /\ Behind(left) \in Nat
           /\ Behind(left) + MaxAttempts = Behind(left - 1)
           /\ Behind(left) + MaxAttempts <= Instances * MaxAttempts
           /\ Behind(Instances) = 0
           /\ Instances * MaxAttempts \in Nat
<1> USE UpstreamAssumption
<1>1. \A m, n \in Nat : m * n \in Nat
  OBVIOUS
<1>2. Instances - left \in Nat /\ left - 1 \in Nat /\ left \in Nat
  OBVIOUS
<1>3. Behind(left) \in Nat /\ Instances * MaxAttempts \in Nat
  BY <1>1, <1>2 DEF Behind
<1>4. Behind(left) + MaxAttempts = Behind(left - 1)
  BY <1>2 DEF Behind
<1>5. (left - 1) * MaxAttempts \in Nat
  BY <1>1, <1>2
<1>6. Behind(left) + MaxAttempts + (left - 1) * MaxAttempts
        = Instances * MaxAttempts
  BY <1>2 DEF Behind
<1>7. Behind(Instances) = 0
  BY DEF Behind
<1> QED
  BY <1>3, <1>4, <1>5, <1>6, <1>7

Budget(r) ==
    LET q == req[r]
    IN  /\ q.phase = "new" => received[r] = 0
        /\ q.phase \in {"routing", "wire", "backoff"} => q.left \in 1..Instances
        /\ q.phase = "routing" => received[r] <= Behind(q.left)
        /\ q.phase = "wire"    => received[r] < Behind(q.left) + q.attempt
        /\ q.phase = "backoff" => received[r] <= Behind(q.left) + q.attempt
        /\ received[r] <= Instances * MaxAttempts

\* Moving on leaves an instance behind, or ends.
LEMMA MovesAlong ==
    ASSUME NEW q \in Coroutines, NEW tried \in BOOLEAN, q.left \in 1..Instances
    PROVE  \/ moves_on(q, tried).phase = "done"
           \/ /\ moves_on(q, tried).phase = "routing"
              /\ moves_on(q, tried).left = q.left - 1
              /\ q.left - 1 \in 1..Instances
<1>1. CASE q.left > 1
  BY <1>1, UpstreamAssumption DEF moves_on, Coroutines
<1>2. CASE ~(q.left > 1)
  BY <1>2 DEF moves_on, Coroutines
<1> QED
  BY <1>1, <1>2

\* However its instances fail and its circuits open and close, a request is
\* received at most max_attempts times on each instance of the service.
THEOREM Bounded == Spec => []RepeatsBounded
<1> DEFINE P == \A r \in Requests : Budget(r)
<1>1. Init => P
  <2> SUFFICES ASSUME Init, NEW r \in Requests
               PROVE  Budget(r)
    OBVIOUS
  <2>1. Instances \in 1..Instances
    BY UpstreamAssumption
  <2>2. 0 <= Instances * MaxAttempts
    BY <2>1, BehindGrows
  <2> QED
    BY <2>2 DEF Init, Budget
<1>2. SafetyInv /\ SafetyInv' /\ P /\ [Next]_vars => P'
  <2> SUFFICES ASSUME SafetyInv, SafetyInv', P, [Next]_vars,
                      NEW s \in Requests
               PROVE  Budget(s)'
    OBVIOUS
  <2>a. /\ req[s] \in Coroutines /\ received[s] \in Nat
        /\ req'[s] \in Coroutines /\ received'[s] \in Nat
    BY DEF SafetyInv, TypeOK
  <2>b. /\ req \in [Requests -> Coroutines]
        /\ received \in [Requests -> Nat]
    BY DEF SafetyInv, TypeOK
  <2>c. Budget(s)
    OBVIOUS
  <2>d. \A left \in 1..Instances :
          /\ Behind(left) \in Nat
          /\ Behind(left) + MaxAttempts = Behind(left - 1)
          /\ Behind(left) + MaxAttempts <= Instances * MaxAttempts
          /\ Behind(Instances) = 0
          /\ Instances * MaxAttempts \in Nat
    BY BehindGrows
  <2>e. Instances \in 1..Instances /\ 1 \in 1..Instances /\ MaxAttempts \in Nat
    BY UpstreamAssumption
  <2> HIDE DEF P
  <2>0. ASSUME req'[s] = req[s], received'[s] = received[s]
        PROVE  Budget(s)'
    BY <2>c, <2>0 DEF Budget
  <2>1. ASSUME NEW r \in Requests, Balance(r)
        PROVE  Budget(s)'
    <3>1. CASE r = s
      <4>1. /\ req'[s].phase = "routing" /\ req'[s].left = Instances
            /\ received'[s] = 0
        BY <2>1, <2>a, <2>b, <2>c, <3>1 DEF Balance, Budget, Coroutines
      <4> QED
        BY <2>d, <2>e, <4>1 DEF Budget
    <3>2. CASE r # s
      BY <2>0, <2>1, <2>b, <3>2 DEF Balance
    <3> QED
      BY <3>1, <3>2
  <2>2. ASSUME NEW r \in Requests, NEW i \in Instance, Pinned(r, i)
        PROVE  Budget(s)'
    <3>1. CASE r = s
      <4>1. /\ req'[s].phase = "routing" /\ req'[s].left = 1
            /\ received'[s] = 0
        BY <2>2, <2>a, <2>b, <2>c, <3>1 DEF Pinned, Budget, Coroutines
      <4> QED
        BY <2>d, <2>e, <4>1 DEF Budget
    <3>2. CASE r # s
      BY <2>0, <2>2, <2>b, <3>2 DEF Pinned
    <3> QED
      BY <3>1, <3>2
  <2>3. ASSUME NEW r \in Requests, Ask(r)
        PROVE  Budget(s)'
    <3>1. CASE r = s
      <4>1. /\ req[s].phase = "routing" /\ req[s].left \in 1..Instances
            /\ received[s] <= Behind(req[s].left)
            /\ received[s] <= Instances * MaxAttempts
            /\ received'[s] = received[s]
        BY <2>3, <2>c, <3>1 DEF Ask, Budget
      <4>2. \/ req'[s] = [req[s] EXCEPT !.phase = "wire", !.attempt = 1]
            \/ req'[s] = moves_on(req[s], FALSE)
        BY <2>3, <2>b, <3>1 DEF Ask
      <4>3. CASE req'[s] = [req[s] EXCEPT !.phase = "wire", !.attempt = 1]
        <5>1. /\ req'[s].phase = "wire" /\ req'[s].attempt = 1
              /\ req'[s].left = req[s].left
          BY <2>a, <4>3 DEF Coroutines
        <5> QED
          BY <2>a, <2>d, <4>1, <5>1 DEF Budget
      <4>4. CASE req'[s] = moves_on(req[s], FALSE)
        <5>1. \/ req'[s].phase = "done"
              \/ /\ req'[s].phase = "routing"
                 /\ req'[s].left = req[s].left - 1
                 /\ req[s].left - 1 \in 1..Instances
          BY <2>a, <4>1, <4>4, MovesAlong
        <5> QED
          BY <2>a, <2>d, <2>e, <4>1, <5>1 DEF Budget
      <4> QED
        BY <4>2, <4>3, <4>4
    <3>2. CASE r # s
      BY <2>0, <2>3, <2>b, <3>2 DEF Ask
    <3> QED
      BY <3>1, <3>2
  <2>4. ASSUME NEW r \in Requests, NEW out \in Outcomes, Answer(r, out)
        PROVE  Budget(s)'
    <3>1. CASE r = s
      <4>1. /\ req[s].phase = "wire" /\ req[s].left \in 1..Instances
            /\ req[s].attempt \in 0..MaxAttempts
            /\ received[s] < Behind(req[s].left) + req[s].attempt
            /\ received'[s] \in {received[s], received[s] + 1}
        BY <2>4, <2>a, <2>b, <2>c, <3>1 DEF Answer, Budget, Coroutines
      <4>2. /\ received'[s] <= Behind(req[s].left) + req[s].attempt
            /\ received'[s] <= Behind(req[s].left) + MaxAttempts
            /\ received'[s] <= Instances * MaxAttempts
        BY <2>a, <2>d, <2>e, <4>1
      <4>3. \/ req'[s] = [req[s] EXCEPT !.phase = "backoff"]
            \/ req'[s] = moves_on(req[s], TRUE)
            \/ \E result \in Results : req'[s] = ends(req[s], result)
        BY <2>4, <2>b, <3>1 DEF Answer, Results
      <4>4. CASE req'[s] = [req[s] EXCEPT !.phase = "backoff"]
        <5>1. /\ req'[s].phase = "backoff" /\ req'[s].left = req[s].left
              /\ req'[s].attempt = req[s].attempt
          BY <2>a, <4>4 DEF Coroutines
        <5> QED
          BY <4>1, <4>2, <5>1 DEF Budget
      <4>5. CASE req'[s] = moves_on(req[s], TRUE)
        <5>1. \/ req'[s].phase = "done"
              \/ /\ req'[s].phase = "routing"
                 /\ req'[s].left = req[s].left - 1
                 /\ req[s].left - 1 \in 1..Instances
          BY <2>a, <4>1, <4>5, MovesAlong
        <5> QED
          BY <2>a, <2>d, <4>1, <4>2, <5>1 DEF Budget
      <4>6. ASSUME NEW result \in Results, req'[s] = ends(req[s], result)
            PROVE  Budget(s)'
        <5>1. req'[s].phase = "done"
          BY <2>a, <4>6, Ends
        <5> QED
          BY <4>2, <5>1 DEF Budget
      <4> QED
        BY <4>3, <4>4, <4>5, <4>6
    <3>2. CASE r # s
      BY <2>0, <2>4, <2>b, <3>2 DEF Answer
    <3> QED
      BY <3>1, <3>2
  <2>5. ASSUME NEW r \in Requests, Retry(r)
        PROVE  Budget(s)'
    <3>1. CASE r = s
      <4>1. /\ req[s].phase = "backoff" /\ req'[s].phase = "wire"
            /\ req'[s].left = req[s].left
            /\ req'[s].attempt = req[s].attempt + 1
            /\ req[s].attempt \in Nat
            /\ received'[s] = received[s]
        BY <2>5, <2>a, <2>b, <3>1 DEF Retry, Coroutines
      <4> QED
        BY <2>a, <2>c, <2>d, <4>1 DEF Budget
    <3>2. CASE r # s
      BY <2>0, <2>5, <2>b, <3>2 DEF Retry
    <3> QED
      BY <3>1, <3>2
  <2>6. ASSUME NEW r \in Requests, Cancel(r)
        PROVE  Budget(s)'
    <3>1. CASE r = s
      <4>1. /\ req'[s] = ends(req[s], "cancelled")
            /\ \/ received'[s] = received[s]
               \/ req[s].phase = "wire" /\ received'[s] = received[s] + 1
        BY <2>6, <2>b, <3>1 DEF Cancel
      <4>2. req'[s].phase = "done"
        BY <2>a, <4>1, Ends DEF Results
      <4>3. received'[s] <= Instances * MaxAttempts
        BY <2>a, <2>c, <2>d, <2>e, <4>1 DEF Budget, Coroutines
      <4> QED
        BY <4>2, <4>3 DEF Budget
    <3>2. CASE r # s
      BY <2>0, <2>6, <2>b, <3>2 DEF Cancel
    <3> QED
      BY <3>1, <3>2
  <2>7. CASE Tick
    BY <2>0, <2>7 DEF Tick
  <2>8. CASE UNCHANGED vars
    BY <2>0, <2>8 DEF vars
  <2> QED
    BY <2>1, <2>2, <2>3, <2>4, <2>5, <2>6, <2>7, <2>8 DEF Next, Step
<1>3. P => RepeatsBounded
  BY DEF Budget, RepeatsBounded
<1> QED
  BY <1>1, <1>2, <1>3, SafetyInvHolds, PTL DEF Spec

=============================================================================
