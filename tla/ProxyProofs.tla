---------------------------- MODULE ProxyProofs ----------------------------
(***************************************************************************)
(* Proofs about Proxy, for any number of requests, instances, connections  *)
(* and retries: every connection out of the pool has an owner, a health    *)
(* report is real, and a pin is kept.  And about CircuitBreaker, which     *)
(* stands between the two, for every threshold, timeout and set of callers. *)
(***************************************************************************)
EXTENDS Proxy, CircuitBreaker, TLAPS, FiniteSetTheorems

-----------------------------------------------------------------------------
(* Counting.                                                               *)

\* A set that one element joins.
LEMMA Joins ==
    ASSUME NEW S, IsFiniteSet(S), NEW x, x \notin S, NEW T, T = S \cup {x}
    PROVE  /\ IsFiniteSet(T) /\ Cardinality(S) \in Nat /\ Cardinality(T) \in Nat
           /\ Cardinality(T) = Cardinality(S) + 1
  BY FS_AddElement, FS_CardinalityType

\* A set that one element leaves.
LEMMA Leaves ==
    ASSUME NEW S, IsFiniteSet(S), NEW x \in S, NEW T, T = S \ {x}
    PROVE  /\ IsFiniteSet(T) /\ Cardinality(S) \in Nat /\ Cardinality(T) \in Nat
           /\ Cardinality(T) = Cardinality(S) - 1
  BY FS_RemoveElement, FS_CardinalityType

-----------------------------------------------------------------------------
(* The inductive invariant.  ConnectionsOwned alone is not inductive: that  *)
(* a connection given back is one that was out needs the count, and the     *)
(* count needs the holders to be a finite set, which they are although the  *)
(* set of requests need not be.                                             *)

Places_of_connection == {"wire", "head", "relay"}

Owners(q) == {r \in Requests : q[r].at \in Places_of_connection}
Checking(c) == {i \in Instances : c[i] = "wire"}

\* As many connections are out of the pool as these requests, these checks and
\* this many dropped responses account for.
Balanced(q, c, u, l) ==
    /\ IsFiniteSet(Owners(q)) /\ IsFiniteSet(Checking(c))
    /\ u = Cardinality(Owners(q)) + Cardinality(Checking(c)) + l

\* While a request is under way it goes to the instance it names.
Pinned(q) == \A r \in Requests :
    q[r].at \in {"pool", "wire"} /\ q[r].pin # None => q[r].on = q[r].pin

\* An answer a check has had is still true.
Real == calm => \A i \in Instances : /\ check[i] = "up" => i \in alive
                                     /\ check[i] = "down" => i \notin alive

ProxyInv ==
    /\ TypeOK
    /\ Balanced(req, check, used, lost)
    /\ Pinned(req)
    /\ PinKept
    /\ Real

\* One request moves: whether it comes to hold a connection, gives one back, or
\* leaves one behind, the account stays balanced.
LEMMA RequestMoves ==
    ASSUME NEW q \in [Requests -> Reqs], NEW p \in [Requests -> Reqs], NEW r \in Requests,
           \A s \in Requests \ {r} : p[s] = q[s],
           NEW c, NEW u \in Nat, NEW l \in Nat, Balanced(q, c, u, l)
    PROVE  /\ (p[r].at \in Places_of_connection <=> q[r].at \in Places_of_connection)
                => Balanced(p, c, u, l)
           /\ p[r].at \in Places_of_connection /\ q[r].at \notin Places_of_connection
                => Balanced(p, c, u + 1, l)
           /\ p[r].at \notin Places_of_connection /\ q[r].at \in Places_of_connection
                => u > 0 /\ Balanced(p, c, u - 1, l) /\ Balanced(p, c, u, l + 1)
<1> DEFINE S == Owners(q)
           T == Owners(p)
           C == Checking(c)
<1>1. IsFiniteSet(S) /\ IsFiniteSet(C) /\ u = Cardinality(S) + Cardinality(C) + l
  BY DEF Balanced
<1>2. Cardinality(C) \in Nat /\ Cardinality(S) \in Nat
  BY <1>1, FS_CardinalityType
<1>3. CASE p[r].at \in Places_of_connection <=> q[r].at \in Places_of_connection
  <2>1. T = S
    BY <1>3 DEF Owners
  <2> QED
    BY <1>1, <1>3, <2>1 DEF Balanced
<1>4. CASE p[r].at \in Places_of_connection /\ q[r].at \notin Places_of_connection
  <2>1. T = S \cup {r} /\ r \notin S
    BY <1>4 DEF Owners
  <2> HIDE DEF S, T, C
  <2>2. IsFiniteSet(T) /\ Cardinality(T) \in Nat /\ Cardinality(T) = Cardinality(S) + 1
    BY <1>1, <2>1, Joins
  <2>3. u + 1 = Cardinality(T) + Cardinality(C) + l
    BY <1>1, <1>2, <2>2
  <2> QED
    BY <1>1, <1>4, <2>2, <2>3 DEF Balanced, T, C
<1>5. CASE p[r].at \notin Places_of_connection /\ q[r].at \in Places_of_connection
  <2>1. T = S \ {r} /\ r \in S
    BY <1>5 DEF Owners
  <2> HIDE DEF S, T, C
  <2>2. IsFiniteSet(T) /\ Cardinality(T) \in Nat /\ Cardinality(T) = Cardinality(S) - 1
    BY <1>1, <2>1, Leaves
  <2>3. /\ u > 0
        /\ u - 1 = Cardinality(T) + Cardinality(C) + l
        /\ u = Cardinality(T) + Cardinality(C) + (l + 1)
    BY <1>1, <1>2, <2>2
  <2> QED
    BY <1>1, <1>5, <2>2, <2>3 DEF Balanced, T, C
<1> QED
  BY <1>3, <1>4, <1>5

\* One check moves, likewise.
LEMMA CheckMoves ==
    ASSUME NEW c, NEW d, NEW i \in Instances,
           \A j \in Instances \ {i} : d[j] = c[j],
           NEW q, NEW u \in Nat, NEW l \in Nat, Balanced(q, c, u, l)
    PROVE  /\ (d[i] = "wire" <=> c[i] = "wire") => Balanced(q, d, u, l)
           /\ d[i] = "wire" /\ c[i] # "wire" => Balanced(q, d, u + 1, l)
           /\ d[i] # "wire" /\ c[i] = "wire" => u > 0 /\ Balanced(q, d, u - 1, l)
<1> DEFINE O == Owners(q)
           S == Checking(c)
           T == Checking(d)
<1>1. IsFiniteSet(O) /\ IsFiniteSet(S) /\ u = Cardinality(O) + Cardinality(S) + l
  BY DEF Balanced
<1>2. Cardinality(O) \in Nat /\ Cardinality(S) \in Nat
  BY <1>1, FS_CardinalityType
<1>3. CASE d[i] = "wire" <=> c[i] = "wire"
  <2>1. T = S
    BY <1>3 DEF Checking
  <2> QED
    BY <1>1, <1>3, <2>1 DEF Balanced
<1>4. CASE d[i] = "wire" /\ c[i] # "wire"
  <2>1. T = S \cup {i} /\ i \notin S
    BY <1>4 DEF Checking
  <2> HIDE DEF O, S, T
  <2>2. IsFiniteSet(T) /\ Cardinality(T) \in Nat /\ Cardinality(T) = Cardinality(S) + 1
    BY <1>1, <2>1, Joins
  <2>3. u + 1 = Cardinality(O) + Cardinality(T) + l
    BY <1>1, <1>2, <2>2
  <2> QED
    BY <1>1, <1>4, <2>2, <2>3 DEF Balanced, O, T
<1>5. CASE d[i] # "wire" /\ c[i] = "wire"
  <2>1. T = S \ {i} /\ i \in S
    BY <1>5 DEF Checking
  <2> HIDE DEF O, S, T
  <2>2. IsFiniteSet(T) /\ Cardinality(T) \in Nat /\ Cardinality(T) = Cardinality(S) - 1
    BY <1>1, <2>1, Leaves
  <2>3. u > 0 /\ u - 1 = Cardinality(O) + Cardinality(T) + l
    BY <1>1, <1>2, <2>2
  <2> QED
    BY <1>1, <1>5, <2>2, <2>3 DEF Balanced, O, T
<1> QED
  BY <1>3, <1>4, <1>5

\* What a request sent again, or given up, is.
LEMMA AgainOrGiveUp ==
    ASSUME NEW r \in Requests, req \in [Requests -> Reqs], Pinned(req),
           req[r].at \in {"pool", "wire", "relay", "head"},
           \/ req[r].at \in {"pool", "wire"} /\ Again(r)
           \/ GiveUp(r)
    PROVE  /\ req' \in [Requests -> Reqs]
           /\ req'[r].at \in {"pool", "idle"}
           /\ \A s \in Requests \ {r} : req'[s] = req[s]
           /\ Pinned(req')
<1>1. Idle \in Reqs
  BY ProxyAssumption DEF Idle, Reqs, Places
<1>2. CASE GiveUp(r)
  BY <1>1, <1>2 DEF GiveUp, Idle, Pinned
<1>3. CASE req[r].at \in {"pool", "wire"} /\ Again(r)
  <2>1. PICK i \in MayGoTo(r) :
          req' = [req EXCEPT ![r].at = "pool", ![r].on = i, ![r].again = @ - 1]
    BY <1>3 DEF Again
  <2>2. i \in Instances /\ (req[r].pin # None => i = req[r].pin)
    BY <1>3 DEF MayGoTo, Reqs
  <2>3. req[r].again \in 0..MaxAgain /\ req[r].again > 0
    BY <1>3 DEF Again, Reqs
  <2>4. req[r].again - 1 \in 0..MaxAgain
    BY <2>3, ProxyAssumption
  <2>5. /\ req' \in [Requests -> Reqs]
        /\ req'[r].at = "pool" /\ req'[r].on = i /\ req'[r].pin = req[r].pin
        /\ \A s \in Requests \ {r} : req'[s] = req[s]
    BY <2>1, <2>2, <2>4 DEF Reqs, Places
  <2> QED
    BY <2>2, <2>5 DEF Pinned
<1> QED
  BY <1>2, <1>3

\* A request that takes a step leaves the rest of the invariant as it is.
LEMMA RequestStep ==
    ASSUME ProxyInv, req' \in [Requests -> Reqs], Pinned(req'), PinKept',
           used' \in 0..MaxConnections, lost' \in 0..MaxLost, Balanced(req', check, used', lost'),
           UNCHANGED health
    PROVE  ProxyInv'
  BY DEF ProxyInv, TypeOK, Real, health

\* The invariant holds in every state the proxy, its pool and its health check reach.
THEOREM ProxyInvariant == Spec => []ProxyInv
<1>1. Init => ProxyInv
  <2> SUFFICES ASSUME Init
               PROVE  ProxyInv
    OBVIOUS
  <2>1. TypeOK
    <3>1. Idle \in Reqs
      BY ProxyAssumption DEF Idle, Reqs, Places
    <3> QED
      BY <3>1, ProxyAssumption DEF Init, TypeOK
  <2>2. Owners(req) = {} /\ Checking(check) = {}
    BY DEF Init, Owners, Checking, Idle, Places_of_connection
  <2>3. Balanced(req, check, used, lost)
    BY <2>2, FS_EmptySet DEF Init, Balanced
  <2>4. Pinned(req) /\ PinKept /\ Real
    BY DEF Init, Pinned, PinKept, Real, Idle
  <2> QED
    BY <2>1, <2>3, <2>4 DEF ProxyInv
<1>2. ProxyInv /\ [Next]_vars => ProxyInv'
  <2> SUFFICES ASSUME ProxyInv, [Next]_vars
               PROVE  ProxyInv'
    OBVIOUS
  <2>0. /\ req \in [Requests -> Reqs] /\ Pinned(req)
        /\ used \in Nat /\ used <= MaxConnections /\ lost \in Nat /\ lost <= MaxLost
        /\ MaxConnections \in Nat /\ MaxLost \in Nat
        /\ alive \subseteq Instances /\ calm \in BOOLEAN
        /\ check \in [Instances -> {"none", "pool", "wire", "up", "down"}]
        /\ Balanced(req, check, used, lost)
        /\ Real
    BY ProxyAssumption DEF ProxyInv, TypeOK
  <2>1. ASSUME NEW r \in Requests, NEW pin \in Instances \cup {None}, NEW hs,
               NEW routed \in BOOLEAN, Arrive(r, pin, hs, routed)
        PROVE  ProxyInv'
    <3>1. PICK id : id = IF routed THEN resolve_request_id(hs) ELSE None
      OBVIOUS
    <3>2. id \in {Valid, Fresh, None}
      BY <3>1 DEF resolve_request_id
    <3>3. PICK i \in (IF pin = None THEN Instances ELSE {pin}) :
             req' = [req EXCEPT ![r] = [at |-> "pool", pin |-> pin, on |-> i,
                                        again |-> MaxAgain, id |-> id]]
      BY <2>1, <3>1 DEF Arrive
    <3>4. PICK e : e = [at |-> "pool", pin |-> pin, on |-> i, again |-> MaxAgain, id |-> id]
      OBVIOUS
    <3>5. e \in Reqs /\ e.at = "pool" /\ (e.pin # None => e.on = e.pin)
      BY <3>2, <3>4, ProxyAssumption DEF Reqs, Places
    <3>6. /\ req' \in [Requests -> Reqs] /\ req'[r].at = "pool" /\ Pinned(req')
          /\ \A s \in Requests \ {r} : req'[s] = req[s]
      BY <2>0, <3>3, <3>4, <3>5 DEF Pinned
    <3>7. req[r].at = "idle" /\ used' = used /\ lost' = lost /\ UNCHANGED health
      BY <2>1 DEF Arrive
    <3>8. Balanced(req', check, used', lost')
      BY <2>0, <3>6, <3>7, RequestMoves DEF Places_of_connection
    <3>9. PinKept'
      BY <2>1 DEF Arrive, PinKept
    <3> QED
      BY <2>0, <3>6, <3>7, <3>8, <3>9, RequestStep
  <2>2. ASSUME NEW r \in Requests, NEW hs, Answered(r, hs)
        PROVE  ProxyInv'
    <3>1. PICK e : e = [Idle EXCEPT !.at = "head"]
      OBVIOUS
    <3>2. e \in Reqs /\ e.at = "head"
      BY <3>1, ProxyAssumption DEF Idle, Reqs, Places
    <3>3. /\ req[r].at = "wire" /\ req' = [req EXCEPT ![r] = e]
          /\ used' = used /\ lost' = lost /\ UNCHANGED health
      BY <2>2, <3>1 DEF Answered
    <3>4. /\ req' \in [Requests -> Reqs] /\ req'[r].at = "head" /\ Pinned(req')
          /\ \A s \in Requests \ {r} : req'[s] = req[s]
      BY <2>0, <3>2, <3>3 DEF Pinned
    <3>5. Balanced(req', check, used', lost')
      BY <2>0, <3>3, <3>4, RequestMoves DEF Places_of_connection
    <3>6. PinKept'
      <4>1. PICK out : crossing' = {[way |-> "down", in |-> hs, by |-> req[r].on,
                                     pin |-> req[r].pin, id |-> req[r].id, out |-> out]}
        BY <2>2 DEF Answered
      <4>2. req[r].pin # None => req[r].on = req[r].pin
        BY <2>0, <3>3 DEF Pinned
      <4> QED
        BY <4>1, <4>2 DEF PinKept
    <3> QED
      BY <2>0, <3>3, <3>4, <3>5, <3>6, RequestStep
  <2>3. ASSUME NEW r \in Requests, Sent(r) \/ Begun(r)
        PROVE  ProxyInv'
    <3>1. CASE Sent(r)
      <4>1. /\ req[r].at = "pool" /\ req' = [req EXCEPT ![r].at = "wire"]
            /\ used < MaxConnections /\ used' = used + 1 /\ lost' = lost /\ UNCHANGED health
            /\ PinKept'
        BY <3>1 DEF Sent, take, Quiet, PinKept
      <4>2. /\ req' \in [Requests -> Reqs] /\ req'[r].at = "wire"
            /\ \A s \in Requests \ {r} : req'[s] = req[s]
            /\ req'[r].pin = req[r].pin /\ req'[r].on = req[r].on
        BY <2>0, <4>1 DEF Reqs, Places
      <4>3. Pinned(req')
        BY <2>0, <4>1, <4>2 DEF Pinned
      <4>4. req'[r].at \in Places_of_connection /\ req[r].at \notin Places_of_connection
        BY <4>1, <4>2 DEF Places_of_connection
      <4>5. Balanced(req', check, used + 1, lost)
        BY <2>0, <4>2, <4>4, RequestMoves
      <4>6. used' \in 0..MaxConnections /\ lost' \in 0..MaxLost /\ Balanced(req', check, used', lost')
        BY <2>0, <4>1, <4>5
      <4> QED
        BY <4>1, <4>2, <4>3, <4>6, RequestStep
    <3>2. CASE Begun(r)
      <4>1. /\ req[r].at = "head" /\ req' = [req EXCEPT ![r].at = "relay"]
            /\ used' = used /\ lost' = lost /\ UNCHANGED health
            /\ PinKept'
        BY <3>2 DEF Begun, Quiet, PinKept
      <4>2. /\ req' \in [Requests -> Reqs] /\ req'[r].at = "relay"
            /\ \A s \in Requests \ {r} : req'[s] = req[s]
        BY <2>0, <4>1 DEF Reqs, Places
      <4>3. Pinned(req')
        BY <2>0, <4>2 DEF Pinned
      <4>4. req'[r].at \in Places_of_connection /\ req[r].at \in Places_of_connection
        BY <4>1, <4>2 DEF Places_of_connection
      <4>5. Balanced(req', check, used, lost)
        BY <2>0, <4>2, <4>4, RequestMoves
      <4>6. used' \in 0..MaxConnections /\ lost' \in 0..MaxLost /\ Balanced(req', check, used', lost')
        BY <2>0, <4>1, <4>5
      <4> QED
        BY <4>1, <4>2, <4>3, <4>6, RequestStep
    <3> QED
      BY <2>3, <3>1, <3>2
  <2>4. ASSUME NEW r \in Requests,
               \/ PoolTimeout(r) \/ Fails(r) \/ Retried(r) \/ Whole(r)
               \/ Relayed(r) \/ Dropped(r) \/ Cancelled(r)
        PROVE  ProxyInv'
    <3>1. /\ req[r].at \in {"pool", "wire", "relay", "head"}
          /\ \/ req[r].at \in {"pool", "wire"} /\ Again(r)
             \/ GiveUp(r)
          /\ UNCHANGED health /\ PinKept'
      BY <2>4 DEF PoolTimeout, Fails, Retried, Whole, Relayed, Dropped, Cancelled, Quiet, PinKept
    <3>2. \/ req[r].at = "pool" /\ used' = used /\ lost' = lost
          \/ req[r].at \in Places_of_connection /\ used' = used - 1 /\ lost' = lost
          \/ req[r].at \in Places_of_connection /\ used' = used /\ lost < MaxLost /\ lost' = lost + 1
      BY <2>4 DEF PoolTimeout, Fails, Retried, Whole, Relayed, Dropped, Cancelled, release, close,
                  Places_of_connection
    <3>3. /\ req' \in [Requests -> Reqs] /\ req'[r].at \notin Places_of_connection
          /\ \A s \in Requests \ {r} : req'[s] = req[s]
          /\ Pinned(req')
      BY <2>0, <3>1, AgainOrGiveUp DEF Places_of_connection
    <3>4. /\ used' \in 0..MaxConnections /\ lost' \in 0..MaxLost
          /\ Balanced(req', check, used', lost')
      <4>1. CASE req[r].at = "pool" /\ used' = used /\ lost' = lost
        <5>1. req[r].at \notin Places_of_connection
          BY <4>1 DEF Places_of_connection
        <5> QED
          BY <2>0, <3>3, <4>1, <5>1, RequestMoves
      <4>2. CASE req[r].at \in Places_of_connection /\ used' = used - 1 /\ lost' = lost
        <5>1. used > 0 /\ Balanced(req', check, used - 1, lost)
          BY <2>0, <3>3, <4>2, RequestMoves
        <5> QED
          BY <2>0, <4>2, <5>1
      <4>3. CASE req[r].at \in Places_of_connection /\ used' = used /\ lost < MaxLost /\ lost' = lost + 1
        <5>1. Balanced(req', check, used, lost + 1)
          BY <2>0, <3>3, <4>3, RequestMoves
        <5> QED
          BY <2>0, <4>3, <5>1
      <4> QED
        BY <3>2, <4>1, <4>2, <4>3
    <3> QED
      BY <3>1, <3>3, <3>4, RequestStep
  <2>5. CASE CheckAll
    <3>1. /\ check' = [i \in Instances |-> "pool"] /\ calm' = TRUE /\ PinKept'
          /\ req' = req /\ used' = used /\ alive' = alive /\ lost' = lost
          /\ \A i \in Instances : check[i] # "wire"
      BY <2>5 DEF CheckAll, Finished, Quiet, PinKept
    <3>2. Checking(check') = Checking(check)
      BY <3>1 DEF Checking
    <3>3. Balanced(req', check', used', lost')
      BY <2>0, <3>1, <3>2 DEF Balanced
    <3> QED
      BY <2>0, <3>1, <3>3 DEF ProxyInv, TypeOK, Real
  <2>6. ASSUME NEW i \in Instances, CheckSent(i) \/ CheckAnswered(i) \/ CheckStarved(i)
        PROVE  ProxyInv'
    <3>1. PICK x \in {"wire", "up", "down"} : check' = [check EXCEPT ![i] = x]
      BY <2>6 DEF CheckSent, CheckAnswered, CheckStarved
    <3>2. /\ check' \in [Instances -> {"none", "pool", "wire", "up", "down"}]
          /\ check'[i] = x /\ \A j \in Instances \ {i} : check'[j] = check[j]
      BY <2>0, <3>1
    <3>3. /\ req' = req /\ alive' = alive /\ lost' = lost /\ PinKept' /\ calm' \in BOOLEAN
          /\ calm' => calm
      <4>1. req' = req /\ alive' = alive /\ lost' = lost /\ crossing' = {}
        BY <2>6 DEF CheckSent, CheckAnswered, CheckStarved, Quiet
      <4>2. calm' = calm \/ calm' = FALSE
        BY <2>6 DEF CheckSent, CheckAnswered, CheckStarved
      <4>3. calm \in BOOLEAN
        BY <2>0
      <4>4. calm' \in BOOLEAN /\ (calm' => calm)
        <5>1. CASE calm' = calm
          BY <4>3, <5>1
        <5>2. CASE calm' = FALSE
          <6>1. calm' \in BOOLEAN
            BY <5>2
          <6>2. ~calm'
            BY <5>2
          <6> QED
            BY <6>1, <6>2
        <5> QED
          BY <4>2, <5>1, <5>2
      <4>5. PinKept'
        BY <4>1 DEF PinKept
      <4> QED
        BY <4>1, <4>4, <4>5
    <3>4. \/ check[i] = "pool" /\ x = "wire" /\ used < MaxConnections /\ used' = used + 1
          \/ /\ check[i] = "wire" /\ used' = used - 1
             /\ x = IF i \in alive THEN "up" ELSE "down"
          \/ check[i] = "pool" /\ x = "down" /\ used' = used /\ ~calm'
      BY <2>0, <2>6, <3>1 DEF CheckSent, CheckAnswered, CheckStarved, take, release
    <3>5. used' \in 0..MaxConnections /\ Balanced(req, check', used', lost)
      <4>1. CASE check[i] = "pool" /\ x = "wire" /\ used < MaxConnections /\ used' = used + 1
        <5>1. Balanced(req, check', used + 1, lost)
          BY <2>0, <3>2, <4>1, CheckMoves
        <5> QED
          BY <2>0, <4>1, <5>1
      <4>2. CASE check[i] = "wire" /\ used' = used - 1 /\ x # "wire"
        <5>1. used > 0 /\ Balanced(req, check', used - 1, lost)
          BY <2>0, <3>2, <4>2, CheckMoves
        <5> QED
          BY <2>0, <4>2, <5>1
      <4>3. CASE check[i] = "pool" /\ x = "down" /\ used' = used
        <5>1. Balanced(req, check', used, lost)
          BY <2>0, <3>2, <4>3, CheckMoves
        <5> QED
          BY <2>0, <4>3, <5>1
      <4> QED
        BY <3>4, <4>1, <4>2, <4>3
    <3>6. Real'
      BY <2>0, <3>2, <3>3, <3>4 DEF Real
    <3>7. lost \in 0..MaxLost
      BY <2>0
    <3> QED
      BY <2>0, <3>2, <3>3, <3>5, <3>6, <3>7 DEF ProxyInv, TypeOK
  <2>7. ASSUME NEW i \in Instances, Turns(i)
        PROVE  ProxyInv'
    <3>1. /\ alive' \subseteq Instances /\ calm' \in BOOLEAN
          /\ calm' => \A j \in Instances : check[j] = "none"
          /\ req' = req /\ used' = used /\ check' = check /\ lost' = lost /\ PinKept'
      BY <2>0, <2>7 DEF Turns, Quiet, PinKept
    <3>2. Real'
      BY <3>1 DEF Real
    <3> QED
      BY <3>1, <3>2 DEF ProxyInv, TypeOK
  <2>8. CASE UNCHANGED vars
    BY <2>8 DEF vars, ProxyInv, TypeOK, Real, PinKept
  <2> QED
    BY <2>1, <2>2, <2>3, <2>4, <2>5, <2>6, <2>7, <2>8 DEF Next
<1> QED
  BY <1>1, <1>2, PTL DEF Spec

\* Every connection out of the pool has somebody at it who will give it back, but for those
\* of responses dropped before their body was begun: any number of requests, instances,
\* connections and retries.
THEOREM Owned == Spec => []ConnectionsOwned
<1>1. ProxyInv => ConnectionsOwned
  <2> SUFFICES ASSUME ProxyInv
               PROVE  ConnectionsOwned
    OBVIOUS
  <2>1. Holding = Cardinality(Owners(req)) + Cardinality(Checking(check))
    BY DEF Holding, Owners, Checking, Places_of_connection
  <2>2. used = Cardinality(Owners(req)) + Cardinality(Checking(check)) + lost
    BY DEF ProxyInv, Balanced
  <2> QED
    BY <2>1, <2>2 DEF ConnectionsOwned
<1> QED
  BY <1>1, ProxyInvariant, PTL

\* A health report that nothing disturbed says what is so, however many instances there are.
THEOREM Healthy == Spec => []HealthIsReal
<1>1. ProxyInv => HealthIsReal
  <2> SUFFICES ASSUME ProxyInv, Finished, calm
               PROVE  /\ status(check) = "up" <=> alive = Instances
                      /\ status(check) = "down" <=> alive = {}
    BY DEF HealthIsReal
  <2> DEFINE U == {i \in Instances : check[i] = "up"}
  <2>1. U = alive
    BY DEF ProxyInv, TypeOK, Real, Finished
  <2>2. /\ IsFiniteSet(Instances) /\ Cardinality(Instances) \in Nat
        /\ Cardinality(Instances) > 0
    <3>1. IsFiniteSet(Instances) /\ Cardinality(Instances) \in Nat /\ Instances # {}
      BY ProxyAssumption, FS_CardinalityType
    <3>2. Cardinality(Instances) # 0
      BY <3>1, FS_EmptySet
    <3> QED
      BY <3>1, <3>2
  <2>3. alive \subseteq Instances
    BY DEF ProxyInv, TypeOK
  <2>4. /\ Cardinality(alive) \in Nat
        /\ Cardinality(alive) = Cardinality(Instances) <=> alive = Instances
        /\ Cardinality(alive) = 0 <=> alive = {}
    <3>1. IsFiniteSet(alive) /\ (Cardinality(alive) = Cardinality(Instances) => alive = Instances)
      BY <2>2, <2>3, FS_Subset
    <3>2. Cardinality(alive) \in Nat /\ (Cardinality(alive) = 0 <=> alive = {})
      BY <3>1, FS_CardinalityType, FS_EmptySet
    <3> QED
      BY <3>1, <3>2
  <2>5. status(check) = IF Cardinality(alive) = Cardinality(Instances) THEN "up"
                        ELSE IF Cardinality(alive) > 0 THEN "degraded" ELSE "down"
    BY <2>1 DEF status
  <2> QED
    BY <2>2, <2>4, <2>5
<1> QED
  BY <1>1, ProxyInvariant, PTL

\* Whatever is retried, a request that names an instance is answered by that one.
THEOREM KeepsPin == Spec => []PinKept
<1>1. ProxyInv => PinKept
  BY DEF ProxyInv
<1> QED
  BY <1>1, ProxyInvariant, PTL

-----------------------------------------------------------------------------
(* The circuit breaker.                                                    *)

\* The breaker always holds one of its three states with a failure count
\* below the threshold, and only calls in flight are remembered as probes.
THEOREM BreakerTypeCorrect == BreakerSpec => []BreakerTypeOK
<1>1. BreakerInit => BreakerTypeOK
  BY BreakerAssumption DEF BreakerInit, BreakerTypeOK, NewBreaker, Breakers, CircuitState
<1>2. BreakerTypeOK /\ [BreakerNext]_breakerVars => BreakerTypeOK'
  <2> SUFFICES ASSUME BreakerTypeOK, [BreakerNext]_breakerVars
               PROVE  BreakerTypeOK'
    OBVIOUS
  <2> USE BreakerAssumption DEF BreakerTypeOK, Breakers, CircuitState
  <2>1. ASSUME NEW c \in Callers, Begin(c)
        PROVE  BreakerTypeOK'
    BY <2>1 DEF Begin, try_acquire, Asked
  <2>2. ASSUME NEW c \in Callers, Succeed(c)
        PROVE  BreakerTypeOK'
    <3>1. 0 \in 0..(FailureThreshold - 1)
      OBVIOUS
    <3>2. on_success(breaker) \in Breakers
      <4>1. CASE breaker.state = "half_open"
        BY <3>1, <4>1 DEF on_success
      <4>2. CASE breaker.state # "half_open"
        BY <3>1, <4>2 DEF on_success
      <4> QED
        BY <4>1, <4>2
    <3> QED
      BY <2>2, <3>2 DEF Succeed, Return
  <2>3. ASSUME NEW c \in Callers, Fail(c)
        PROVE  BreakerTypeOK'
    BY <2>3 DEF Fail, Return, on_failure, trip
  <2>4. ASSUME NEW c \in Callers, Cancel(c)
        PROVE  BreakerTypeOK'
    BY <2>4 DEF Cancel, Return, on_abort
  <2>5. CASE Tick
    BY <2>5 DEF Tick, Aged
  <2>6. CASE UNCHANGED breakerVars
    BY <2>6 DEF breakerVars
  <2> QED
    BY <2>1, <2>2, <2>3, <2>4, <2>5, <2>6 DEF BreakerNext, Finish
<1> QED
  BY <1>1, <1>2, PTL DEF BreakerSpec

-----------------------------------------------------------------------------
(* The safety invariants together are inductive.  The slot's holder alone   *)
(* is not: that a return in another state leaves no slot behind needs       *)
(* EpisodeStartsClean.                                                      *)

BreakerInv ==
    /\ BreakerTypeOK
    /\ EpisodeStartsClean
    /\ SlotHasHolder

\* The probe slot never leaks and no episode inherits a slot or failures from
\* the one before, however calls interleave and are cancelled.
THEOREM BreakerSafety == BreakerSpec => [](SlotHasHolder /\ EpisodeStartsClean)
<1>1. BreakerInit => BreakerInv
  BY BreakerAssumption
     DEF BreakerInit, BreakerInv, BreakerTypeOK, EpisodeStartsClean, SlotHasHolder,
         NewBreaker, Breakers, CircuitState
<1>2. BreakerInv /\ BreakerTypeOK' /\ [BreakerNext]_breakerVars => BreakerInv'
  <2> SUFFICES ASSUME BreakerInv, BreakerTypeOK', [BreakerNext]_breakerVars
               PROVE  BreakerInv'
    OBVIOUS
  <2> USE BreakerAssumption
      DEF BreakerInv, BreakerTypeOK, EpisodeStartsClean, SlotHasHolder,
          Breakers, CircuitState
  <2>1. ASSUME NEW c \in Callers, Begin(c)
        PROVE  BreakerInv'
    BY <2>1 DEF Begin, try_acquire, Asked
  <2>2. ASSUME NEW c \in Callers, Succeed(c)
        PROVE  BreakerInv'
    BY <2>2 DEF Succeed, Return, on_success
  <2>3. ASSUME NEW c \in Callers, Fail(c)
        PROVE  BreakerInv'
    BY <2>3 DEF Fail, Return, on_failure, trip
  <2>4. ASSUME NEW c \in Callers, Cancel(c)
        PROVE  BreakerInv'
    BY <2>4 DEF Cancel, Return, on_abort
  <2>5. CASE Tick
    BY <2>5 DEF Tick, Aged
  <2>6. CASE UNCHANGED breakerVars
    BY <2>6 DEF breakerVars
  <2> QED
    BY <2>1, <2>2, <2>3, <2>4, <2>5, <2>6 DEF BreakerNext, Finish
<1>3. BreakerInv => SlotHasHolder /\ EpisodeStartsClean
  BY DEF BreakerInv
<1> QED
  BY <1>1, <1>2, <1>3, BreakerTypeCorrect, PTL DEF BreakerSpec

\* No late answer shortens the quarantine of an open circuit.
THEOREM Quarantine == BreakerSpec => QuarantineServed
<1> DEFINE Served == breaker.state = "open" /\ breaker'.state # "open"
                       => /\ breaker'.state = "half_open"
                          /\ breaker.age = RecoveryTimeout
<1>1. BreakerTypeOK /\ [BreakerNext]_breakerVars => [Served]_breakerVars
  <2> SUFFICES ASSUME BreakerTypeOK, BreakerNext
               PROVE  Served
    OBVIOUS
  <2> USE BreakerAssumption DEF BreakerTypeOK, Breakers, CircuitState
  <2>1. ASSUME NEW c \in Callers, Begin(c)
        PROVE  Served
    BY <2>1 DEF Begin, try_acquire, Asked
  <2>2. ASSUME NEW c \in Callers, Finish(c)
        PROVE  Served
    BY <2>2 DEF Finish, Succeed, Fail, Cancel, Return,
                on_success, on_failure, on_abort
  <2>3. CASE Tick
    BY <2>3 DEF Tick, Aged
  <2> QED
    BY <2>1, <2>2, <2>3 DEF BreakerNext
<1> QED
  BY <1>1, BreakerTypeCorrect, PTL DEF BreakerSpec, QuarantineServed

-----------------------------------------------------------------------------
(* As long as no outsider is cancelled the slot is given up only by a verdict *)
(* or by the probe itself, so a probe in flight keeps it taken.               *)

SingleProbeInv ==
    /\ BreakerInv
    /\ probes # {} => breaker.state = "half_open" /\ (strays = {} => breaker.probe)
    /\ SingleProbe

\* A half-open circuit lets a single probe through at a time, as long as no
\* call from before its episode is cancelled.
THEOREM ProbesSingly == BreakerSpec => []SingleProbe
<1>1. BreakerInit => SingleProbeInv
  BY BreakerAssumption
     DEF BreakerInit, SingleProbeInv, BreakerInv, BreakerTypeOK, EpisodeStartsClean,
         SlotHasHolder, SingleProbe, NewBreaker, Breakers, CircuitState
<1>2. SingleProbeInv /\ BreakerInv' /\ [BreakerNext]_breakerVars => SingleProbeInv'
  <2> SUFFICES ASSUME SingleProbeInv, BreakerInv', [BreakerNext]_breakerVars
               PROVE  SingleProbeInv'
    OBVIOUS
  <2> USE DEF SingleProbeInv, BreakerInv, BreakerTypeOK, EpisodeStartsClean,
              SlotHasHolder, SingleProbe, Breakers, CircuitState
  <2>1. ASSUME NEW c \in Callers, Begin(c)
        PROVE  SingleProbeInv'
    BY <2>1 DEF Begin, try_acquire, Asked
  <2>2. ASSUME NEW c \in Callers, Finish(c)
        PROVE  SingleProbeInv'
    BY <2>2 DEF Finish, Succeed, Fail, Cancel, Return,
                on_success, on_failure, on_abort, trip
  <2>3. CASE Tick
    BY <2>3 DEF Tick, Aged
  <2>4. CASE UNCHANGED breakerVars
    BY <2>4 DEF breakerVars
  <2> QED
    BY <2>1, <2>2, <2>3, <2>4 DEF BreakerNext
<1>3. BreakerSpec => []BreakerInv
  BY BreakerTypeCorrect, BreakerSafety, PTL DEF BreakerInv
<1>4. SingleProbeInv => SingleProbe
  BY DEF SingleProbeInv
<1> QED
  BY <1>1, <1>2, <1>3, <1>4, PTL DEF BreakerSpec

=============================================================================
