---------------------------- MODULE UpstreamErrors ----------------------------
(***************************************************************************)
(* How one attempt at a binding is judged: from what the endpoint does to  *)
(* the verdict of invoke (internal/cosmos/capability.go:133-181), through  *)
(* DoJSON and IsRouteNotFound of http.go for the LCD, Call of rpc.go for   *)
(* JSON-RPC, and fetchSymbol and mapGRPCError of grpc.go for gRPC.         *)
(*                                                                         *)
(* An attempt starts with a cause, which the client cannot see; the        *)
(* endpoint answers in one of the ways open to that cause; the connection  *)
(* may break, or the deadline pass, while the body of the answer is read;  *)
(* the client judges what it has received alone.  A gRPC method is called  *)
(* only when a descriptor of its service has been fetched and built        *)
(* (DescriptorFiles).                                                      *)
(***************************************************************************)
EXTENDS DescriptorFiles, Integers

CONSTANTS
    Limits,             \* values of max_response_bytes
    MaxInt,             \* the greatest int64
    MaxInt32,           \* the greatest int32, the most a gRPC message may have
    ErrorBodyLimit,     \* errorBodyLimit
    Lengths             \* lengths of bodies that are not empty

\* What config.go accepts for max_response_bytes (102, 155).
ASSUME LengthAssumption ==
    /\ MaxInt \in Nat /\ MaxInt32 \in 1 .. MaxInt /\ ErrorBodyLimit \in Nat \ {0}
    /\ Limits \subseteq 1 .. MaxInt /\ Lengths \subseteq 1 .. MaxInt

VARIABLES
    maxBytes,   \* the limit of the clients
    step,       \* "asked", "fetched", "building", "found", "answered" or "judged"
    cause,      \* what is the matter with the binding
    reply,      \* what reached the client
    verdict     \* what invoke returns

uvars == <<maxBytes, step, cause, reply, verdict, buildVars>>

-----------------------------------------------------------------------------
(* HTTP.  A body is empty, text that does not begin with a brace, or a JSON *)
(* object: an answer, a JSON-RPC envelope or the error of grpc-gateway.     *)

Body(kind, code, message, details, length) ==
    [kind |-> kind, code |-> code, message |-> message, details |-> details, length |-> length]

Object(code, message, details, length) == Body("json", code, message, details, length)

Plain == {Body("empty", 0, "none", 0, 0), Body("text", 0, "none", 0, 1)}

\* Some of the body arrives, and then the reader meets its end, if it is whole,
\* or an error: a broken connection, or the deadline of the request.
Received(body) ==
    {[content |-> body, arrived |-> n, whole |-> FALSE] : n \in 0 .. body.length}
    \cup {[content |-> body, arrived |-> body.length, whole |-> TRUE]}

HTTP(statuses, bodies) ==
    [outcome : {"http"}, status : statuses, body : UNION {Received(b) : b \in bodies}]

NoAnswer(outcome) == {[outcome |-> outcome]}

RoutingMiss == Object(5, "not_found", 0, 1)

HTTPCauses == {"served", "garbled", "rejected", "unrouted", "dropped", "refused",
               "overloaded", "slow", "down"}

\* "refused" is an error of the application, which has the route: its message
\* differs from that of a routing miss or it carries details.  "rejected" is an
\* error in a JSON-RPC envelope, or an envelope without a result.
HTTPReplies(why) ==
    CASE why = "served"   -> HTTP({200}, {Object(0, "result", 0, n) : n \in Lengths})
      [] why = "garbled"  -> HTTP({200}, Plain)
      [] why = "rejected" -> HTTP({200}, {Object(0, m, 0, 1) : m \in {"error", "no_result"}})
      [] why = "unrouted" -> HTTP({404}, Plain \cup {RoutingMiss})
      [] why = "dropped"  -> HTTP({501}, {Object(12, m, 0, 1) : m \in {"not_found", "other"}})
      [] why = "refused"  ->
           HTTP({400, 404, 500},
                {Object(c, m, d, n) : c \in {3, 5, 13}, m \in {"not_found", "other"},
                                      d \in {0, 1}, n \in Lengths}
                \ {Object(5, "not_found", 0, n) : n \in Lengths})
      [] why = "overloaded" -> HTTP({302, 401, 429, 501, 502, 503}, Plain)
      [] why = "slow"     -> NoAnswer("timeout")
      [] why = "down"     -> NoAnswer("unreachable")

\* An object of which only n bytes were read is no JSON if it has more.
Parses(body, n) == body.content.kind = "json" /\ body.content.length <= n

Failed(r) == r.outcome = "http" /\ ~ (200 <= r.status /\ r.status < 300)

\* What is kept of an error body; an error of the reader is dropped.
Kept(body) == IF body.arrived <= ErrorBodyLimit THEN body.arrived ELSE ErrorBodyLimit

\* Variant: code 5 alone tells a routing miss.
IsRouteNotFoundByCode(r) ==
    /\ Failed(r)
    /\ LET error == r.body.content IN
       \/ r.status = 501 /\ Parses(r.body, Kept(r.body)) /\ error.code = 12
       \/ r.status = 404 /\ (Kept(r.body) = 0 \/ error.kind = "text")
       \/ r.status = 404 /\ Parses(r.body, Kept(r.body)) /\ error.code = 5

IsRouteNotFound(r) ==
    /\ Failed(r)
    /\ LET error == r.body.content IN
       \/ r.status = 501 /\ Parses(r.body, Kept(r.body)) /\ error.code = 12
       \/ r.status = 404 /\ (Kept(r.body) = 0 \/ error.kind = "text")
       \/ /\ r.status = 404 /\ Parses(r.body, Kept(r.body))
          /\ error.code = 5 /\ error.message = "not_found" /\ error.details = 0

\* Variant: an answer of exactly the limit is refused.
TooLongFromLimit(n, limit) == n >= limit

TooLong(n, limit) == n > limit

\* The sum of two int64.
Sum(m, n) == IF m + n > MaxInt THEN m + n - 2 * (MaxInt + 1) ELSE m + n

\* One byte more than the limit is asked for, so that more is told from just
\* enough; who asks for less than nothing reads nothing, and meets no error.
Asked == Sum(maxBytes, 1)
BytesRead(body) ==
    IF Asked < 0 THEN 0 ELSE IF body.arrived <= Asked THEN body.arrived ELSE Asked
ReadFails(body) == ~ body.whole /\ body.arrived < Asked

DoJSON(r) ==
    CASE r.outcome = "timeout"     -> "upstream_timeout"
      [] r.outcome = "unreachable" -> "endpoint_unavailable"
      [] Failed(r)                 -> "upstream_error"
      [] OTHER -> IF ReadFails(r.body) THEN "upstream_error"
                  ELSE IF TooLong(BytesRead(r.body), maxBytes) THEN "response_too_large"
                  ELSE IF Parses(r.body, BytesRead(r.body)) THEN "answer" ELSE "upstream_error"

InvokeLCD(r) == IF IsRouteNotFound(r) THEN "missing" ELSE DoJSON(r)

InvokeRPC(r) ==
    IF DoJSON(r) = "answer" /\ r.body.content.message # "result" THEN "upstream_error" ELSE DoJSON(r)

-----------------------------------------------------------------------------
(* gRPC: a status from each version of reflection, the files that describe  *)
(* the service, and a status from the method.                               *)

Failures == {"Canceled", "InvalidArgument", "DeadlineExceeded", "PermissionDenied",
             "ResourceExhausted", "Internal", "Unavailable", "Unauthenticated"}

\* "unencodable": the answer cannot be written as JSON.  "streaming" and
\* "mismatched": the method is a stream, or takes another kind of message.
\* "undeclared": the service is described, without the method.  "misdescribed":
\* its files cannot be linked.
Described == {"served", "unencodable", "unimplemented", "failing", "streaming", "mismatched",
              "undeclared", "misdescribed"}
GRPCCauses == Described \cup {"unknown_service", "reflection_off", "reflection_down"}

Reflections(statuses) == [outcome : {"reflection"}, reflection : statuses]

\* The message has a length on the wire, and another as JSON.
Calls(methods, encodes) ==
    [outcome : {"grpc"}, method : methods, wire : {0} \cup Lengths,
     encodes : encodes, length : Lengths]

NoMessage(statuses) == [outcome : {"grpc"}, method : statuses]

\* The older version of reflection is asked when the newer one does not answer;
\* one of them may be missing or fail while the other answers.
Unanswered == Failures \cup {"Unimplemented"}
Reflected == {<<s, "OK">> : s \in Unanswered \cup {"NotFound"}} \cup {<<"OK", "unasked">>}
Unknown == {<<"NotFound", s>> : s \in Unanswered \cup {"NotFound"}}
           \cup {<<s, "NotFound">> : s \in Unanswered}

ReflectionReplies(why) ==
    CASE why \in Described        -> Reflections(Reflected)
      [] why = "unknown_service"  -> Reflections(Unknown)
      [] why = "reflection_off"   -> Reflections({<<"Unimplemented", "Unimplemented">>})
      [] why = "reflection_down"  -> Reflections((Failures \X Unanswered) \cup ({"Unimplemented"} \X Failures))

MethodReplies(why) ==
    CASE why = "served"        -> Calls({"OK"}, {TRUE})
      [] why = "unencodable"   -> Calls({"OK"}, {FALSE})
      [] why = "unimplemented" -> NoMessage({"Unimplemented"})
      [] why = "failing"       -> NoMessage(Failures \cup {"NotFound"})
      [] why \in {"streaming", "mismatched"} -> NoAnswer("unsent")

FetchSymbol(r) ==
    IF r.reflection[1] = "OK" \/ r.reflection[2] = "OK" THEN "descriptor"
    ELSE IF "NotFound" \in {r.reflection[1], r.reflection[2]} THEN "not_found"
    ELSE "grpc_reflection_unavailable"

\* Variant: a message over the limit is one more error of the endpoint.
MapGRPCErrorCoarse(status) ==
    CASE status = "DeadlineExceeded" -> "upstream_timeout"
      [] status \in {"Unavailable", "Canceled"} -> "endpoint_unavailable"
      [] status \in {"InvalidArgument", "NotFound"} -> "invalid_input"
      [] OTHER -> "upstream_error"

MapGRPCError(status) ==
    CASE status = "DeadlineExceeded" -> "upstream_timeout"
      [] status \in {"Unavailable", "Canceled"} -> "endpoint_unavailable"
      [] status = "ResourceExhausted" -> "response_too_large"
      [] status \in {"InvalidArgument", "NotFound"} -> "invalid_input"
      [] OTHER -> "upstream_error"

\* NewGRPCClient.
MessageLimit == IF maxBytes > MaxInt32 THEN MaxInt32 ELSE maxBytes

\* A message over the limit is refused by the library, with a status; what was
\* received must be within it as JSON too.
StatusOf(r) ==
    IF r.method = "OK" /\ TooLong(r.wire, MessageLimit) THEN "ResourceExhausted" ELSE r.method

Query(r) ==
    IF r.outcome = "unsent" THEN "invalid_input"
    ELSE IF StatusOf(r) # "OK" THEN MapGRPCError(StatusOf(r))
    ELSE IF ~ r.encodes THEN "upstream_error"
    ELSE IF TooLong(r.length, MessageLimit) THEN "response_too_large" ELSE "answer"

InvokeGRPC(r) ==
    IF r.outcome = "grpc" /\ r.method = "Unimplemented" THEN "missing" ELSE Query(r)

-----------------------------------------------------------------------------
Causes == {<<"lcd", c>> : c \in HTTPCauses \ {"rejected"}}
          \cup {<<"rpc", c>> : c \in HTTPCauses \ {"dropped"}}
          \cup {<<"grpc", c>> : c \in GRPCCauses}

UInit ==
    /\ maxBytes \in Limits
    /\ step = "asked" /\ cause \in Causes
    /\ reply = [outcome |-> "none"] /\ verdict = "none"
    /\ BuildInit

Judge(result) ==
    /\ verdict' = result /\ step' = "judged"
    /\ UNCHANGED <<maxBytes, cause, reply>>

Reply ==
    /\ step = "asked" /\ cause[1] # "grpc"
    /\ reply' \in HTTPReplies(cause[2])
    /\ step' = "answered"
    /\ UNCHANGED <<maxBytes, cause, verdict, buildVars>>

Reflect ==
    /\ step = "asked" /\ cause[1] = "grpc"
    /\ reply' \in ReflectionReplies(cause[2])
    /\ step' = "fetched"
    /\ UNCHANGED <<maxBytes, cause, verdict, buildVars>>

\* fetchSymbol; the files are what is left of the answer.
Fetched ==
    /\ step = "fetched"
    /\ \/ /\ FetchSymbol(reply) = "descriptor"
          /\ step' = "building" /\ reply' = [outcome |-> "none"]
          /\ UNCHANGED <<maxBytes, cause, verdict>>
       \/ /\ FetchSymbol(reply) # "descriptor"
          /\ Judge(IF FetchSymbol(reply) = "not_found" THEN "missing" ELSE FetchSymbol(reply))
    /\ UNCHANGED buildVars

Link ==
    /\ step = "building"
    /\ \/ /\ linking = "none"
          /\ \E files \in Descriptions :
                (Linkable(files) <=> cause[2] # "misdescribed") /\ Receive(files)
       \/ BuildNext
    /\ UNCHANGED <<maxBytes, step, cause, reply, verdict>>

\* HasMethod returns; the files are kept elsewhere (DescriptorCache).
HasMethod ==
    /\ step = "building"
    /\ \/ /\ linking = "failed"
          /\ Judge("upstream_error")
       \/ /\ linking = "built" /\ cause[2] = "undeclared"
          /\ Judge("missing")
       \/ /\ linking = "built" /\ cause[2] # "undeclared"
          /\ step' = "found"
          /\ UNCHANGED <<maxBytes, cause, reply, verdict>>
    /\ protos' = NoFiles /\ registry' = {} /\ linking' = "none"
    /\ unvisited' = {} /\ building' = <<>>

Method ==
    /\ step = "found"
    /\ reply' \in MethodReplies(cause[2])
    /\ step' = "answered"
    /\ UNCHANGED <<maxBytes, cause, verdict, buildVars>>

\* capability.go:133-181.
Invoke ==
    /\ step = "answered"
    /\ Judge(CASE cause[1] = "lcd"  -> InvokeLCD(reply)
                [] cause[1] = "rpc"  -> InvokeRPC(reply)
                [] cause[1] = "grpc" -> InvokeGRPC(reply))
    /\ UNCHANGED buildVars

UNext ==
    Reply \/ Reflect \/ Fetched \/ Link \/ HasMethod \/ Method \/ Invoke

USpec == UInit /\ [][UNext]_uvars

-----------------------------------------------------------------------------
Absent == {<<"lcd", "unrouted">>, <<"lcd", "dropped">>, <<"grpc", "unknown_service">>,
           <<"grpc", "unimplemented">>, <<"grpc", "undeclared">>}

Arrived == reply.outcome = "http" => reply.body.whole

\* As long as answers arrive whole, a binding is judged missing exactly when the
\* endpoint does not have it: no timeout, overload, error body over the limit,
\* page of a proxy or error of the application passes for an absent binding, and
\* no absent binding for an error (http.go:54-95, grpc.go:322-364,
\* capability.go:139-172).
MissingIffAbsent == step = "judged" /\ Arrived => (verdict = "missing" <=> cause \in Absent)

\* Only an absent binding is judged missing and passed over, whatever happens to
\* the connection (the comment of http.go:54-55).
OnlyAbsentIsPassedOver == step = "judged" /\ verdict = "missing" => cause \in Absent

\* No answer longer than the configured limit gets through, and none is refused
\* for its length before more than the limit has arrived: over HTTP as soon as it
\* has, whatever then happens to the connection; over gRPC if the message or its
\* JSON, which are of different lengths, is over it.  Two limits are not what they
\* seem: gRPC takes at most MaxInt32 bytes, and with the greatest limit of all
\* nothing gets through over HTTP, because the limit of the reader wraps
\* (http.go:141-148, grpc.go:55-67, 146-155, the help of --max-response-bytes in
\* config.go:73).
LimitIsExact ==
    step = "judged" /\ cause[2] = "served" =>
       IF cause[1] = "grpc"
       THEN LET fits == \A n \in {reply.wire, reply.length} : n <= maxBytes /\ n <= MaxInt32
            IN verdict = IF fits THEN "answer" ELSE "response_too_large"
       ELSE /\ verdict = "answer" <=> /\ reply.body.whole /\ maxBytes # MaxInt
                                      /\ reply.body.content.length <= maxBytes
            /\ verdict = "response_too_large" <=> reply.body.arrived > maxBytes

\* An answer that ends in an error before there is more of it than the limit.
CutShort ==
    reply.outcome = "http" /\ ~ Failed(reply) /\ ~ reply.body.whole /\ reply.body.arrived <= maxBytes

\* A failure keeps its meaning up to the tool, whichever protocol it came by: a
\* timeout, an endpoint that does not answer, an answer over the limit and a
\* query the chain rejects have four different codes (http.go:123-138,
\* grpc.go:382-395).  A deadline that passes while the body is read is no timeout
\* but an error like a broken connection (http.go:143-145), and what the client
\* itself makes of a gRPC method or its answer is one of the two codes of
\* grpc.go:130-150.
FailureKeepsItsCode ==
    step = "judged" =>
       /\ cause[2] = "slow" => verdict = "upstream_timeout"
       /\ cause[2] = "down" => verdict = "endpoint_unavailable"
       /\ cause[2] \in {"reflection_off", "reflection_down"}
             => verdict = "grpc_reflection_unavailable"
       /\ cause[2] = "misdescribed" => verdict = "upstream_error"
       /\ CutShort => verdict = "upstream_error"
       /\ cause[2] \in {"streaming", "mismatched"} => verdict = "invalid_input"
       /\ cause[2] = "unencodable" => verdict \in {"upstream_error", "response_too_large"}
       /\ cause = <<"grpc", "failing">> =>
             /\ reply.method = "DeadlineExceeded" => verdict = "upstream_timeout"
             /\ reply.method \in {"Unavailable", "Canceled"} => verdict = "endpoint_unavailable"
             /\ reply.method = "ResourceExhausted" => verdict = "response_too_large"
             /\ reply.method = "NotFound" => verdict = "invalid_input"

=============================================================================
