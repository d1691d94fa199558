---------------------------- MODULE HeaderPolicy ----------------------------
(***************************************************************************)
(* Which headers cross the gateway: src/gateway/application/header_policy.py *)
(* and the two places that write headers after it, the response adapters     *)
(* and the request id middleware of src/gateway/api/.                        *)
(*                                                                           *)
(* A header is a lower-case name and the list of its comma-separated values. *)
(***************************************************************************)
EXTENDS Naturals, SequencesExt

-----------------------------------------------------------------------------
(* A mutant. *)

\* _FORWARDING_HEADERS, without the host's
ForgetsForwardedHost == {"x-forwarded-for", "x-forwarded-proto", "x-request-id"}

-----------------------------------------------------------------------------

HOP_BY_HOP_HEADERS == {"connection", "keep-alive", "proxy-authenticate", "proxy-authorization",
                       "te", "trailer", "trailers", "transfer-encoding", "upgrade"}
RECOMPUTED_REQUEST_HEADERS == {"host", "content-length"}
FORWARDING_HEADERS == {"x-forwarded-for", "x-forwarded-proto", "x-forwarded-host", "x-request-id"}
STALE_RESPONSE_HEADERS == {"content-encoding", "content-length"}

Header(name, values) == [name |-> name, values |-> values]

\* What the gateway knows itself.
Peer   == "peer"      \* inbound.client_host
Scheme == "https"     \* inbound.scheme
Secret == "secret"    \* a credential configured for the service
Fresh  == "fresh"     \* uuid4().hex
Valid  == "valid"     \* a request id of the client's that the pattern accepts

names(headers) == {headers[k].name : k \in DOMAIN headers}
Named(headers, name) == SelectSeq(headers, LAMBDA h : h.name = name)

-----------------------------------------------------------------------------
(* More mutants. *)

\* for_upstream, with the service's headers ahead of the filter
KeepsClientCredential(headers, service) ==
    HOP_BY_HOP_HEADERS \cup RECOMPUTED_REQUEST_HEADERS \cup FORWARDING_HEADERS

\* _copy_instance_header, with append
AppendsInstance(headers, name, value) == Append(headers, Header(name, <<value>>))

-----------------------------------------------------------------------------
\* _connection_tokens
connection_tokens(headers) ==
    UNION {ToSet(headers[k].values) : k \in {j \in DOMAIN headers : headers[j].name = "connection"}}

\* _resolve_request_id: the client's first, if it is a safe one.
resolve_request_id(headers) ==
    LET theirs == Named(headers, "x-request-id")
    IN  IF theirs # <<>> /\ theirs[1].values = <<Valid>> THEN Valid ELSE Fresh

\* _forwarding_headers.  A request the gateway makes on its own account has neither a
\* client nor a host nor an id; the host of any other is its first host header.
forwarding_headers(headers, routed) ==
    LET theirs == FlattenSeq([k \in DOMAIN Named(headers, "x-forwarded-for") |->
                                Named(headers, "x-forwarded-for")[k].values])
        chain  == IF routed THEN Append(theirs, Peer) ELSE theirs
        host   == IF routed THEN Named(headers, "host") ELSE <<>>
    IN  <<Header("x-forwarded-proto", <<Scheme>>)>>
        \o (IF chain # <<>> THEN <<Header("x-forwarded-for", chain)>> ELSE <<>>)
        \o (IF host # <<>> THEN <<Header("x-forwarded-host", host[1].values)>> ELSE <<>>)
        \o (IF routed THEN <<Header("x-request-id", <<resolve_request_id(headers)>>)>> ELSE <<>>)

\* What for_upstream drops of the client's.
dropped(headers, service) ==
    HOP_BY_HOP_HEADERS \cup RECOMPUTED_REQUEST_HEADERS \cup FORWARDING_HEADERS
      \cup connection_tokens(headers) \cup names(service)

for_upstream(headers, routed, service) ==
    SelectSeq(headers, LAMBDA h : h.name \notin dropped(headers, service))
      \o forwarding_headers(headers, routed) \o service

for_client(headers) ==
    SelectSeq(headers, LAMBDA h :
        h.name \notin HOP_BY_HOP_HEADERS \cup STALE_RESPONSE_HEADERS \cup connection_tokens(headers))

\* `response.headers[name] = value`: whatever had the name is gone.  (Where the header stands
\* among those of other names is of no account.)
set_header(headers, name, value) ==
    Append(SelectSeq(headers, LAMBDA h : h.name # name), Header(name, <<value>>))

\* to_streaming_response and, when the response starts, the middleware: buffering is turned off
\* before the service's headers are appended, the instance and the request id are set after.
to_client(headers, instance, id) ==
    LET copied == set_header(<<>>, "x-accel-buffering", "no") \o for_client(headers)
    IN  set_header(set_header(copied, "x-gateway-instance", instance), "x-request-id", id)

-----------------------------------------------------------------------------
(* What they are for, said without the filters. *)

Only(headers, name, values) == Named(headers, name) = <<Header(name, values)>>

\* The headers that are meant for whoever reads the message, but for those named.
EndToEnd(headers, others) ==
    SelectSeq(headers, LAMBDA h :
        /\ h.name \notin others \cup {"connection", "te"}
        /\ \A k \in DOMAIN headers :
              headers[k].name = "connection" => h.name \notin ToSet(headers[k].values))

\* From a client to a service: nothing that belongs to the client's connection; the
\* credential once, and it is the gateway's; the chain of forwarders whole, its last member
\* the peer the gateway itself saw; the host the client asked for, once, and not what it
\* says was asked for; an id that is safe to log; and every other header as the client sent
\* it, in its order.
CleanUp(in, routed, out) ==
    LET mine == {"x-forwarded-for", "x-forwarded-proto", "x-forwarded-host", "x-request-id", "token"}
    IN  /\ names(out) \cap {"connection", "te", "host", "content-length"} = {}
        /\ Only(out, "token", <<Secret>>)
        /\ Only(out, "x-forwarded-proto", <<Scheme>>)
        /\ IF routed
           THEN /\ Len(Named(out, "x-forwarded-for")) = 1
                /\ Last(Named(out, "x-forwarded-for")[1].values) = Peer
                /\ IF "host" \in names(in)
                   THEN Only(out, "x-forwarded-host", Named(in, "host")[1].values)
                   ELSE "x-forwarded-host" \notin names(out)
                /\ Only(out, "x-request-id", <<Valid>>) \/ Only(out, "x-request-id", <<Fresh>>)
           ELSE names(out) \cap {"x-forwarded-host", "x-request-id"} = {}
        /\ SelectSeq(out, LAMBDA h : h.name \notin mine)
             = EndToEnd(in, mine \cup {"host", "content-length"})

\* From a service to a client: the same of its connection; one instance named, the one that
\* answered, whatever the service says; one request id, the request's own; buffering turned
\* off first of all; and every other header as the service sent it, repeated ones included.
\* That holds of x-accel-buffering too: a service that sends one is not overruled, and the
\* client gets both.
CleanDown(in, by, id, out) ==
    LET mine == {"x-gateway-instance", "x-request-id"}
    IN  /\ names(out) \cap {"connection", "te", "content-length"} = {}
        /\ Only(out, "x-gateway-instance", <<by>>)
        /\ Only(out, "x-request-id", <<id>>)
        /\ SelectSeq(out, LAMBDA h : h.name \notin mine)
             = <<Header("x-accel-buffering", <<"no">>)>>
               \o EndToEnd(in, mine \cup {"content-length", "content-encoding"})

=============================================================================
