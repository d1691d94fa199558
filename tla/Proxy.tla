------------------------------- MODULE Proxy -------------------------------
(***************************************************************************)
(* A proxied request from end to end: the routes, the proxy service, the    *)
(* header policy and the relay of the body, over the one pool of            *)
(* connections that bootstrap.py gives to everything; and the health check, *)
(* which takes its connections from the same pool.                          *)
(*                                                                          *)
(* One service with several instances.  Which errors are retried or moved   *)
(* to another instance is Upstream's subject: here an attempt that fails    *)
(* may be followed by another, of which a request has a budget, and may     *)
(* always be the last, as for a request that is not to be repeated.  An     *)
(* unknown service or instance is refused before anything happens and is no *)
(* step.                                                                    *)
(***************************************************************************)
EXTENDS HeaderPolicy, FiniteSets

CONSTANTS Requests, Instances,
          MaxConnections,   \* settings.max_connections
          MaxAgain,         \* bound on the attempts after the first
          MaxLost           \* bound on responses that are dropped unread

\* A service has at least one instance, or ServiceDefinition is a ValueError.
ASSUME ProxyAssumption == /\ MaxConnections \in Nat \ {0}
                          /\ MaxAgain \in Nat /\ MaxLost \in Nat
                          /\ IsFiniteSet(Instances) /\ Instances # {}

VARIABLES
    req,       \* each request: where it is, its pin, its instance, its budget, its id
    used,      \* connections taken from the pool
    alive,     \* instances that answer 2xx to whatever reaches them
    check,     \* the health check of each instance
    lost,      \* history: responses dropped before their body was begun
    calm,      \* history: no instance changed and no check was starved since the
               \* check began
    crossing   \* history: the headers that crossed in the last step, if any did

vars == <<req, used, alive, check, lost, calm, crossing>>
health == <<alive, check, calm>>

None == "none"

\* waiting for a connection, waiting for the head of the answer, the answer made into a
\* response whose body nobody has begun, and relaying it
Places == {"idle", "pool", "wire", "head", "relay"}

Reqs == [at : Places, pin : Instances \cup {None}, on : Instances \cup {None},
         again : 0..MaxAgain, id : {Valid, Fresh, None}]

Idle == [at |-> "idle", pin |-> None, on |-> None, again |-> 0, id |-> None]

TypeOK ==
    /\ req \in [Requests -> Reqs]
    /\ used \in 0..MaxConnections /\ lost \in 0..MaxLost
    /\ alive \subseteq Instances /\ calm \in BOOLEAN
    /\ check \in [Instances -> {"none", "pool", "wire", "up", "down"}]

Init ==
    /\ req = [r \in Requests |-> Idle]
    /\ used = 0 /\ lost = 0
    /\ alive \in SUBSET Instances /\ calm = TRUE
    /\ check = [i \in Instances |-> "none"]
    /\ crossing = {}

-----------------------------------------------------------------------------
(* Headers a client may send and a service may answer with: of each of the policy's sets of   *)
(* names the members that some rule tells apart ("te" for the hop-by-hop ones beside           *)
(* connection), and "cookie" for every name that no rule mentions.                             *)

FromClient ==
    {Header("connection", <<n>>) : n \in {"close", "cookie", "token", "x-forwarded-for"}}
      \cup {Header(n, <<"x">>) : n \in {"te", "host", "content-length", "cookie", "token",
                                         "x-forwarded-for", "x-forwarded-proto",
                                         "x-forwarded-host", "x-request-id"}}
      \cup {Header("x-request-id", <<Valid>>)}

FromService ==
    {Header("connection", <<n>>) : n \in {"close", "cookie", "x-accel-buffering"}}
      \cup {Header(n, <<"x">>) : n \in {"te", "content-length", "content-encoding", "cookie",
                                         "x-gateway-instance", "x-request-id",
                                         "x-accel-buffering"}}
      \cup {Header("cookie", <<"y">>)}

\* The rules look at headers one by one, but for those a connection header names, the host,
\* which is forwarded under another name, and those of which a second is kept, listed after
\* the first, passed over or replaced together with it.
Names(g, h) == \/ g.name = "connection" /\ h.name \in ToSet(g.values)
               \/ g.name = "host" /\ h.name = "x-forwarded-host"
Repeats(g, h) == g.name = h.name /\ g.name \in {"cookie", "x-forwarded-for", "x-request-id",
                                                "x-gateway-instance", "x-accel-buffering"}
Bear(g, h) == Names(g, h) \/ Names(h, g) \/ Repeats(g, h)

Messages(S) == {<<>>} \cup {<<h>> : h \in S} \cup {p \in S \X S : Bear(p[1], p[2])}

ClientMessages  == Messages(FromClient)
ServiceMessages == Messages(FromService)

\* The orchestrator sends the agent's token.
FromGateway == {<<Header("token", <<"x">>)>>}

ServiceHeaders == <<Header("token", <<Secret>>)>>

-----------------------------------------------------------------------------
Quiet == crossing' = {}

\* Every attempt of a request goes to its pin, or to whichever instance is next.
MayGoTo(r) == IF req[r].pin = None THEN Instances ELSE {req[r].pin}

Again(r) ==
    /\ req[r].again > 0
    /\ \E i \in MayGoTo(r) :
          req' = [req EXCEPT ![r].at = "pool", ![r].on = i, ![r].again = @ - 1]

GiveUp(r) == req' = [req EXCEPT ![r] = Idle]

take == used < MaxConnections /\ used' = used + 1
release == used' = used - 1

\* _discard_stream, the finally of _relay
close == release

-----------------------------------------------------------------------------
(* Mutants. *)

\* _attempts, dropping the response it retries
RetriedUnclosed(r) ==
    /\ req[r].at = "wire"
    /\ Again(r)
    /\ Quiet /\ UNCHANGED <<used, lost, health>>

\* ServiceHealth.status, up when any instance is
UpWhenAny(results) == IF \E i \in Instances : results[i] = "up" THEN "up" ELSE "down"

-----------------------------------------------------------------------------
(* Requests. *)

\* _forward, or a call of the orchestrator's: the route names a service and perhaps an
\* instance, and _outbound is made before the first await.
Arrive(r, pin, headers, routed) ==
    LET id == IF routed THEN resolve_request_id(headers) ELSE None
    IN  /\ req[r].at = "idle"
        /\ \E i \in (IF pin = None THEN Instances ELSE {pin}) :
              req' = [req EXCEPT ![r] = [at |-> "pool", pin |-> pin, on |-> i,
                                         again |-> MaxAgain, id |-> id]]
        /\ crossing' = {[way |-> "up", in |-> headers, by |-> None, pin |-> pin, id |-> id,
                         out |-> for_upstream(headers, routed, ServiceHeaders)]}
        /\ UNCHANGED <<used, lost, health>>

\* The pool has a connection, and the request is sent over it.
Sent(r) ==
    /\ req[r].at = "pool"
    /\ take
    /\ req' = [req EXCEPT ![r].at = "wire"]
    /\ Quiet /\ UNCHANGED <<lost, health>>

\* PoolTimeout: it has had none for timeout_seconds.
PoolTimeout(r) ==
    /\ req[r].at = "pool" /\ used = MaxConnections
    /\ Again(r) \/ GiveUp(r)
    /\ Quiet /\ UNCHANGED <<used, lost, health>>

\* The connection breaks or times out before there is an answer, and httpx takes it back.
Fails(r) ==
    /\ req[r].at = "wire"
    /\ release
    /\ Again(r) \/ GiveUp(r)
    /\ Quiet /\ UNCHANGED <<lost, health>>

\* _attempts: a status worth a retry; the response is discarded and the request sent again.
Retried(r) ==
    /\ req[r].at = "wire"
    /\ close
    /\ Again(r)
    /\ Quiet /\ UNCHANGED <<lost, health>>

\* send: the body is read before it returns, and the connection is free again.
Whole(r) ==
    /\ req[r].at = "wire"
    /\ release
    /\ GiveUp(r)
    /\ Quiet /\ UNCHANGED <<lost, health>>

\* stream: the head is there.  The caller has a response that owns the connection: the
\* route's, which a client gets, or the orchestrator's, which reads it itself.
Answered(r, headers) ==
    LET q == req[r]
    IN  /\ q.at = "wire"
        /\ req' = [req EXCEPT ![r] = [Idle EXCEPT !.at = "head"]]
        /\ crossing' = {[way |-> "down", in |-> headers, by |-> q.on, pin |-> q.pin, id |-> q.id,
                         out |-> IF q.id = None THEN for_client(headers)
                                 ELSE to_client(headers, q.on, q.id)]}
        /\ UNCHANGED <<used, lost, health>>

\* The first chunk is asked for: from here on the relay's finally runs.
Begun(r) ==
    /\ req[r].at = "head"
    /\ req' = [req EXCEPT ![r].at = "relay"]
    /\ Quiet /\ UNCHANGED <<used, lost, health>>

\* The body ends, breaks off, or the client hangs up: the finally, shielded, closes.
Relayed(r) ==
    /\ req[r].at = "relay"
    /\ close
    /\ GiveUp(r)
    /\ Quiet /\ UNCHANGED <<lost, health>>

\* The client is gone before the response has begun its body: a generator that was never
\* started has no finally to run.
Dropped(r) ==
    /\ req[r].at = "head" /\ lost < MaxLost
    /\ lost' = lost + 1
    /\ GiveUp(r)
    /\ Quiet /\ UNCHANGED <<used, health>>

\* The client is gone while the request waits: httpx gives back what it had.
Cancelled(r) ==
    /\ req[r].at \in {"pool", "wire"}
    /\ IF req[r].at = "wire" THEN release ELSE UNCHANGED used
    /\ GiveUp(r)
    /\ Quiet /\ UNCHANGED <<lost, health>>

-----------------------------------------------------------------------------
(* HealthService: every instance at once, over the bare transport. *)

Finished == \A i \in Instances : check[i] \in {"up", "down"}

\* check_all, and gather
CheckAll ==
    /\ Finished \/ \A i \in Instances : check[i] = "none"
    /\ check' = [i \in Instances |-> "pool"]
    /\ calm' = TRUE
    /\ Quiet /\ UNCHANGED <<req, used, alive, lost>>

CheckSent(i) ==
    /\ check[i] = "pool"
    /\ take
    /\ check' = [check EXCEPT ![i] = "wire"]
    /\ Quiet /\ UNCHANGED <<req, alive, lost, calm>>

\* 2xx is up; another status, or an UpstreamError, is down.
CheckAnswered(i) ==
    /\ check[i] = "wire"
    /\ release
    /\ check' = [check EXCEPT ![i] = IF i \in alive THEN "up" ELSE "down"]
    /\ Quiet /\ UNCHANGED <<req, alive, lost, calm>>

\* PoolTimeout is an UpstreamError too.
CheckStarved(i) ==
    /\ check[i] = "pool" /\ used = MaxConnections
    /\ check' = [check EXCEPT ![i] = "down"]
    /\ calm' = FALSE
    /\ Quiet /\ UNCHANGED <<req, used, alive, lost>>

\* ServiceHealth.status
status(results) ==
    LET up == Cardinality({i \in Instances : results[i] = "up"})
    IN  IF up = Cardinality(Instances) THEN "up"
        ELSE IF up > 0 THEN "degraded" ELSE "down"

\* An instance goes down or comes back.
Turns(i) ==
    /\ alive' = IF i \in alive THEN alive \ {i} ELSE alive \cup {i}
    /\ calm' = \A j \in Instances : check[j] = "none"
    /\ Quiet /\ UNCHANGED <<req, used, check, lost>>

Next ==
    \/ \E r \in Requests :
         \/ \E pin \in Instances \cup {None}, hs \in ClientMessages : Arrive(r, pin, hs, TRUE)
         \/ \E hs \in FromGateway : Arrive(r, None, hs, FALSE)
         \/ \E hs \in ServiceMessages : Answered(r, hs)
         \/ Sent(r) \/ PoolTimeout(r) \/ Fails(r) \/ Retried(r) \/ Whole(r)
         \/ Begun(r) \/ Relayed(r) \/ Dropped(r) \/ Cancelled(r)
    \/ CheckAll
    \/ \E i \in Instances : CheckSent(i) \/ CheckAnswered(i) \/ CheckStarved(i) \/ Turns(i)

Spec == Init /\ [][Next]_vars

Alike == Permutations(Requests) \cup Permutations(Instances)

-----------------------------------------------------------------------------
(* Properties. *)

Holding == Cardinality({r \in Requests : req[r].at \in {"wire", "head", "relay"}})
             + Cardinality({i \in Instances : check[i] = "wire"})

\* "a discarded stream still holds a connection from the pool" (orchestration.py:245), "Forgetting
\* leaks a connection from the pool" (models.py:187): through retries, discarded answers,
\* failures and clients that leave, every connection out of the pool has somebody at it who
\* will give it back, but for those of responses that were dropped before their body was
\* begun.
ConnectionsOwned == used = Holding + lost

\* Retries never take a request that names an instance elsewhere (LoadBalancingUpstreamClient
\* sends it to that one alone): the instance that answers it is the one it names.
PinKept == \A c \in crossing : c.way = "down" /\ c.pin # None => c.by = c.pin

\* What crosses is what should, in both directions and whatever either side sends: see
\* CleanUp and CleanDown.  A pinned request is answered by its instance.
CrossesClean ==
    /\ \A c \in crossing :
          /\ c.way = "up"   => CleanUp(c.in, c.id # None, c.out)
          /\ c.way = "down" /\ c.id # None => CleanDown(c.in, c.by, c.id, c.out)
    /\ PinKept

\* "it reports the real state" (routes/health.py): a report says up when every instance is,
\* down when none is and degraded otherwise, unless an instance changed while it was made or
\* the pool had no connection for a check: then an instance that is up is reported down.
HealthIsReal ==
    Finished /\ calm =>
        /\ status(check) = "up" <=> alive = Instances
        /\ status(check) = "down" <=> alive = {}

=============================================================================
