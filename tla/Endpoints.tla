------------------------------ MODULE Endpoints ------------------------------
(***************************************************************************)
(* CheckEndpoints of internal/server/server.go, behind the endpoint_status *)
(* tool and the validate command: one goroutine per configured endpoint    *)
(* asks for its status, and the report is made when all are done.          *)
(*                                                                         *)
(* A check of RPC or LCD is one request.  A check of gRPC asks the health  *)
(* service, and only if the node has none the reflection service, in its   *)
(* two versions; one deadline covers all three (grpc.go:78-92, 215-237).   *)
(***************************************************************************)
EXTENDS Naturals

CONSTANT Timeout    \* the timeout of a client, in ticks

ASSUME TimeoutAssumption == Timeout \in Nat \ {0}

Protocols == {"rpc", "lcd", "grpc"}
Requests == {"rpc", "lcd", "health", "v1", "v1alpha"}

VARIABLES
    configured, \* the endpoints that are configured, none before the server is made
    data,       \* the fields of endpointStatusData
    asking,     \* the request a goroutine waits for, "done", or "none" before it starts
    elapsed,    \* the age of the deadline of each goroutine
    answers,    \* how the requests of this check were answered so far
    waited,     \* how long the check takes
    report      \* the map that is returned, and whether all are available

evars == <<configured, data, asking, elapsed, answers, waited, report>>

-----------------------------------------------------------------------------
\* How a request may be answered, if it is answered in time.
Answers(r) == IF r \in {"rpc", "lcd"} THEN {"ok", "failing"} ELSE {"ok", "failing", "unimplemented"}

NoReport == [states |-> [p \in Protocols |-> "none"], all |-> TRUE]

First == [p \in Protocols |-> IF p = "grpc" THEN "health" ELSE p]

EInit ==
    /\ configured = {}
    /\ data = [p \in Protocols |-> "not_configured"]
    /\ asking = [p \in Protocols |-> "none"]
    /\ elapsed = [p \in Protocols |-> 0]
    /\ answers = [r \in Requests |-> "none"]
    /\ waited = 0
    /\ report = NoReport

\* The server is made with the clients of the endpoints of set.
Begin(set) ==
    /\ configured' = set
    /\ UNCHANGED <<data, asking, elapsed, answers, waited, report>>

Running(p) == asking[p] \in Requests

\* The endpoints are started in this order.
Order == <<"rpc", "lcd", "grpc">>

Launched(p) == p \notin configured \/ asking[p] # "none"

Launch(p) ==
    /\ p \in configured /\ asking[p] = "none"
    /\ \A i, j \in DOMAIN Order : Order[j] = p /\ i < j => Launched(Order[i])
    /\ data' = [data EXCEPT ![p] = "checking"]
    /\ asking' = [asking EXCEPT ![p] = First[p]]
    /\ UNCHANGED <<configured, elapsed, answers, waited, report>>

\* stateFor.
Conclude(p, state) ==
    /\ data' = [data EXCEPT ![p] = state]
    /\ asking' = [asking EXCEPT ![p] = "done"]

\* The request that follows, or "none".  Only a node without the health service
\* is asked for reflection; there any failure of v1 leads to v1alpha.
Following(r, answer) ==
    IF r = "health" /\ answer = "unimplemented" THEN "v1"
    ELSE IF r = "v1" THEN "v1alpha" ELSE "none"

\* Variant: each request has a deadline of its own.
AgeAfterRestarting(p) == 0

AgeAfter(p) == elapsed[p]

Answer(p) ==
    /\ Running(p)
    /\ \E r \in Requests : r = asking[p] /\ \E a \in Answers(r) :
           /\ answers' = [answers EXCEPT ![r] = a]
           /\ IF a = "ok" THEN Conclude(p, "available") /\ UNCHANGED elapsed
              ELSE IF Following(r, a) = "none"
              THEN Conclude(p, "unavailable") /\ UNCHANGED elapsed
              ELSE /\ asking' = [asking EXCEPT ![p] = Following(r, a)]
                   /\ elapsed' = [elapsed EXCEPT ![p] = AgeAfter(p)]
                   /\ UNCHANGED data
    /\ UNCHANGED <<configured, waited, report>>

\* Variant: only requests for reflection have a deadline.
ExpireReflection(p) ==
    /\ asking[p] \in {"v1", "v1alpha"} /\ elapsed[p] = Timeout
    /\ Conclude(p, "unavailable")
    /\ UNCHANGED <<configured, elapsed, answers, waited, report>>

\* A request that is not answered in time fails.
Expire(p) ==
    /\ Running(p) /\ elapsed[p] = Timeout
    /\ Conclude(p, "unavailable")
    /\ UNCHANGED <<configured, elapsed, answers, waited, report>>

\* Variant: the report does not wait for the goroutines.
FinishedLaunched == \A p \in Protocols : Launched(p)

\* wg.Wait.
Finished == \A p \in configured : asking[p] = "done"

Report ==
    /\ report = NoReport /\ Finished
    /\ report' = [states |-> data, all |-> \A p \in Protocols : data[p] # "unavailable"]
    /\ UNCHANGED <<configured, data, asking, elapsed, answers, waited>>

\* Deadlines are kept, and what does not wait for an endpoint takes no time.
Tick ==
    /\ report = NoReport /\ \A p \in Protocols : Launched(p)
    /\ ~ Finished /\ \A p \in Protocols : Running(p) => elapsed[p] < Timeout
    /\ elapsed' = [p \in Protocols |-> IF Running(p) THEN elapsed[p] + 1 ELSE elapsed[p]]
    /\ waited' = waited + 1
    /\ UNCHANGED <<configured, data, asking, answers, report>>

Goroutine(p) == Launch(p) \/ Answer(p) \/ Expire(p)

ENext == (\E p \in Protocols : Goroutine(p)) \/ Report \/ Tick

-----------------------------------------------------------------------------
Own(p) == IF p = "grpc" THEN {"health", "v1", "v1alpha"} ELSE {p}

Heard(p) == {answers[r] : r \in Own(p)}

\* The report judges every configured endpoint, and no other, by what that
\* endpoint answered; gRPC passes for available without its health service only
\* if the node has none; and the verdict of validate is that of the states
\* (server.go:354-370, grpc.go:78-92, main.go:80-88).
ReportIsEarned ==
    report # NoReport =>
       /\ \A p \in Protocols \ configured : report.states[p] = "not_configured"
       /\ \A p \in configured :
             report.states[p] = IF "ok" \in Heard(p) THEN "available" ELSE "unavailable"
       /\ "grpc" \in configured /\ report.states["grpc"] = "available" =>
             answers["health"] \in {"ok", "unimplemented"}
       /\ report.all <=> \A p \in configured : report.states[p] = "available"

\* The check takes no longer than the timeout of one client, although it asks
\* several endpoints and up to three services of one of them (grpc.go:79,
\* server.go:337-353).
CheckIsPrompt == waited <= Timeout

-----------------------------------------------------------------------------
(* Why they hold: an invariant of every check. *)

CheckTyped ==
    /\ configured \subseteq Protocols
    /\ data \in [Protocols -> {"not_configured", "checking", "available", "unavailable"}]
    /\ asking \in [Protocols -> Requests \cup {"none", "done"}]
    /\ elapsed \in [Protocols -> 0 .. Timeout]
    /\ answers \in [Requests -> {"none", "ok", "failing", "unimplemented"}]
    /\ waited \in 0 .. Timeout

\* What a goroutine has heard and written at each of its places.
GoroutineFits(p) ==
    /\ asking[p] = "none" => /\ data[p] = "not_configured" /\ elapsed[p] = 0
                             /\ \A r \in Own(p) : answers[r] = "none"
    /\ asking[p] # "none" => p \in configured
    /\ Running(p) => asking[p] \in Own(p) /\ "ok" \notin Heard(p)
    /\ asking[p] = "done" => data[p] = IF "ok" \in Heard(p) THEN "available" ELSE "unavailable"

\* Reflection is asked, and heard, only by a client that knows that there is no
\* health service.
HealthComesFirst ==
    asking["grpc"] \in {"v1", "v1alpha"} \/ "ok" \in {answers["v1"], answers["v1alpha"]}
        => answers["health"] = "unimplemented"

\* All deadlines began together.
ClocksAgree ==
    /\ \A p \in Protocols : Running(p) => elapsed[p] = waited
    /\ (\E p \in Protocols : ~ Launched(p)) => waited = 0

ReportIsFinal ==
    report # NoReport =>
       Finished /\ report = [states |-> data, all |-> \A p \in Protocols : data[p] # "unavailable"]

\* What each goroutine has heard and written fits its place, health comes before
\* reflection, deadlines that began together stay together, and nothing is
\* written after the report (server.go:334-362, grpc.go:78-92).
CheckFits ==
    /\ CheckTyped /\ (\A p \in Protocols : GoroutineFits(p))
    /\ HealthComesFirst /\ ClocksAgree /\ ReportIsFinal

=============================================================================
