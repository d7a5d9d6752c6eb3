------------------------------ MODULE Resolver ------------------------------
(***************************************************************************)
(* The capability resolver of internal/cosmos/capability.go.               *)
(*                                                                         *)
(* A capability (the thing a tool asks for) can be answered by several     *)
(* bindings: a gRPC method, an LCD route or an RPC method.  A call of      *)
(* Resolve tries them one after the other, remembers the binding that      *)
(* answered (cache) and remembers for TTL that no binding exists           *)
(* (unsupported).  Calls run concurrently and share the two maps; every    *)
(* lock region and every answer of an endpoint is one step.                *)
(*                                                                         *)
(* A call has an argument (a denomination, a height).  The maps do not     *)
(* know it, but an LCD route contains it, and may exist for one argument   *)
(* and not for another.                                                    *)
(*                                                                         *)
(* Time is measured in ticks and kept as ages, which saturate: an entry of *)
(* unsupported is its age, elapsed[c] the time call c has run, and         *)
(* absence[b][a] the time for which binding b has now been available for   *)
(* argument a.  The endpoints (served, reflected, trouble) change at any   *)
(* moment.                                                                 *)
(***************************************************************************)
EXTENDS Naturals, Sequences, Functions

CONSTANTS
    Callers,        \* concurrent tool calls
    Capabilities,
    Arguments,
    Bindings,
    Preference,     \* [Capabilities -> Seq(Bindings)], in the order of the handler
    Protocol,       \* [Bindings -> {"rpc", "lcd", "grpc"}]
    Configured,     \* the protocols that have an endpoint (a non-nil client)
    TTL,            \* negativeCacheTTL
    Budget,         \* defaultResolveBudget
    Horizon,        \* ages of availability are not told apart from here on
    None

ASSUME NoneAssumption == /\ None \notin Bindings /\ None \notin Nat
                         /\ None \notin Capabilities \X Arguments
ASSUME TimeAssumption == /\ TTL \in Nat /\ Budget \in Nat /\ Horizon \in Nat
                         /\ TTL + Budget < Horizon
ASSUME ProtocolAssumption == /\ Protocol \in [Bindings -> {"rpc", "lcd", "grpc"}]
                             /\ Configured \subseteq {"rpc", "lcd", "grpc"}
\* A handler names each of its bindings once.
ASSUME PreferenceAssumption ==
    /\ Preference \in [Capabilities -> Seq(Bindings)]
    /\ \A k \in Capabilities : \A i, j \in DOMAIN Preference[k] :
          Preference[k][i] = Preference[k][j] => i = j

VARIABLES
    cache,          \* capability -> the binding that last answered it
    unsupported,    \* capability -> age of its negative entry, or None
    pc,             \* where the call of a caller is, or how its last call ended
    capability,     \* what the caller asked for
    argument,       \* and of what
    lead,           \* the binding cachedFirst moved to the front
    pending,        \* bindings this call has not tried yet
    trying,         \* the binding being tried
    discovery,      \* discoveryErr # nil
    served,         \* binding -> the arguments for which its method or route exists
    reflected,      \* gRPC bindings that HasMethod reports
    trouble,        \* the endpoints may fail for other reasons
    elapsed,
    absence

resolverVars == <<cache, unsupported>>
callVars == <<pc, capability, argument, lead, pending, trying, discovery>>
endpointVars == <<served, reflected, trouble>>
clockVars == <<elapsed, absence>>
vars == <<resolverVars, callVars, endpointVars, clockVars>>

-----------------------------------------------------------------------------
Rest == {"idle", "answered", "denied", "unsupported", "undiscovered", "failed"}
Running == {"check", "expire", "order", "loop", "probe", "query", "forget",
            "store", "remember"}

BindingsOf(k) == Range(Preference[k])

\* An age that only says that the entry has expired.
OldEntry == TTL + 1

\* Variant: an entry never expires.
LiveForever(age) == age \in 0 .. OldEntry

\* An entry of unsupported that has not expired.
Live(age) == age \in 0 .. TTL

Older(age, limit) == IF age < limit THEN age + 1 ELSE limit

\* Whether Resolve could get an answer from b about a just now.
Available(b, a) == /\ Protocol[b] \in Configured
                   /\ a \in served[b]
                   /\ Protocol[b] = "grpc" => b \in reflected

\* A method is found by its name alone, a route by its path.
Serveable == {s \in [Bindings -> SUBSET Arguments] :
                 \A b \in Bindings : Protocol[b] # "lcd" => s[b] \in {{}, Arguments}}

\* The bindings left to the call come in the order of the handler, after the
\* one that was cached.
Comes(k, first, a, b) ==
    \/ a = b
    \/ a = first
    \/ /\ b # first
       /\ \E i, j \in DOMAIN Preference[k] :
             i < j /\ Preference[k][i] = a /\ Preference[k][j] = b

Foremost(c) == {b \in pending[c] :
                   \A d \in pending[c] : Comes(capability[c], lead[c], b, d)}

-----------------------------------------------------------------------------
Init ==
    /\ cache = [k \in Capabilities |-> None]
    /\ unsupported = [k \in Capabilities |-> None]
    /\ pc = [c \in Callers |-> "idle"]
    /\ capability \in [Callers -> Capabilities]
    /\ argument = [c \in Callers |-> None]
    /\ lead = [c \in Callers |-> None]
    /\ pending = [c \in Callers |-> {}]
    /\ trying = [c \in Callers |-> None]
    /\ discovery = [c \in Callers |-> FALSE]
    /\ served \in Serveable
    /\ reflected \in SUBSET {b \in Bindings : Protocol[b] = "grpc"}
    /\ trouble \in BOOLEAN
    /\ elapsed = [c \in Callers |-> 0]
    /\ absence = [b \in Bindings |-> [a \in Arguments |->
                     IF Available(b, a) THEN Horizon ELSE 0]]

Goto(c, label) == pc' = [pc EXCEPT ![c] = label]

\* The call returns: its locals are gone and its clock stops.
Return(c, label) ==
    /\ Goto(c, label)
    /\ argument' = [argument EXCEPT ![c] = None]
    /\ lead' = [lead EXCEPT ![c] = None]
    /\ pending' = [pending EXCEPT ![c] = {}]
    /\ trying' = [trying EXCEPT ![c] = None]
    /\ discovery' = [discovery EXCEPT ![c] = FALSE]
    /\ elapsed' = [elapsed EXCEPT ![c] = 0]
    /\ UNCHANGED <<capability, absence>>

Start(c, k, a) ==
    /\ pc[c] \in Rest
    /\ Goto(c, "check")
    /\ capability' = [capability EXCEPT ![c] = k]
    /\ argument' = [argument EXCEPT ![c] = a]
    /\ UNCHANGED <<resolverVars, lead, pending, trying, discovery, clockVars>>

\* cachedUnsupported up to RUnlock, and what it makes of the entry it read.
CheckUnsupported(c) ==
    LET age == unsupported[capability[c]] IN
    /\ pc[c] = "check"
    /\ UNCHANGED resolverVars
    /\ \/ /\ Live(age)
          /\ Return(c, "denied")
       \/ /\ ~Live(age)
          /\ Goto(c, IF age = None THEN "order" ELSE "expire")
          /\ UNCHANGED <<capability, argument, lead, pending, trying, discovery, clockVars>>

\* The entry was expired when it was read; whatever is there now is deleted.
DropExpired(c) ==
    /\ pc[c] = "expire"
    /\ unsupported' = [unsupported EXCEPT ![capability[c]] = None]
    /\ Goto(c, "order")
    /\ UNCHANGED <<cache, capability, argument, lead, pending, trying, discovery, clockVars>>

\* Variant: only the cached binding is tried when there is one.
CachedOnly(c) ==
    LET k == capability[c] IN
    /\ pc[c] = "order"
    /\ lead' = [lead EXCEPT ![c] = cache[k]]
    /\ pending' = [pending EXCEPT ![c] =
                     IF cache[k] = None THEN BindingsOf(k) ELSE {cache[k]}]
    /\ Goto(c, "loop")
    /\ UNCHANGED <<resolverVars, capability, argument, trying, discovery, clockVars>>

CachedFirst(c) ==
    /\ pc[c] = "order"
    /\ lead' = [lead EXCEPT ![c] = cache[capability[c]]]
    /\ pending' = [pending EXCEPT ![c] = BindingsOf(capability[c])]
    /\ Goto(c, "loop")
    /\ UNCHANGED <<resolverVars, capability, argument, trying, discovery, clockVars>>

\* Variant: a binding that was tried is not taken off the list.
AttemptAgain(c) ==
    /\ pc[c] = "loop"
    /\ \E b \in Foremost(c) :
          /\ trying' = [trying EXCEPT ![c] = b]
          /\ Goto(c, IF Protocol[b] \notin Configured THEN "forget"
                     ELSE IF Protocol[b] = "grpc" THEN "probe" ELSE "query")
    /\ UNCHANGED <<resolverVars, capability, argument, lead, pending, discovery, clockVars>>

\* The head of the loop, and the part of invoke that picks the client.
Attempt(c) ==
    /\ pc[c] = "loop"
    /\ \E b \in Foremost(c) :
          /\ trying' = [trying EXCEPT ![c] = b]
          /\ pending' = [pending EXCEPT ![c] = @ \ {b}]
          /\ Goto(c, IF Protocol[b] \notin Configured THEN "forget"
                     ELSE IF Protocol[b] = "grpc" THEN "probe" ELSE "query")
    /\ UNCHANGED <<resolverVars, capability, argument, lead, discovery, clockVars>>

\* HasMethod of the gRPC client returns: yes or no, an error that says
\* reflection is unavailable (the next binding is tried), or any other error.
Probed(c, has) ==
    /\ pc[c] = "probe"
    /\ Goto(c, IF has THEN "query" ELSE "forget")
    /\ UNCHANGED <<resolverVars, capability, argument, lead, pending, trying, discovery, clockVars>>

Unreflected(c) ==
    /\ pc[c] = "probe"
    /\ Goto(c, "loop")
    /\ trying' = [trying EXCEPT ![c] = None]
    /\ discovery' = [discovery EXCEPT ![c] = TRUE]
    /\ UNCHANGED <<resolverVars, capability, argument, lead, pending, clockVars>>

\* Variant: every error of HasMethod moves on to the next binding.
ProbeFailureSkips(c) ==
    /\ pc[c] = "probe"
    /\ Goto(c, "loop")
    /\ trying' = [trying EXCEPT ![c] = None]
    /\ UNCHANGED <<resolverVars, capability, argument, lead, pending, discovery, clockVars>>

ProbeFailed(c) ==
    /\ pc[c] = "probe"
    /\ Return(c, "failed")
    /\ UNCHANGED resolverVars

Probe(c) ==
    \/ Probed(c, trying[c] \in reflected)
    \/ trouble /\ (Unreflected(c) \/ ProbeFailed(c))

\* Variant: the error of a query is not looked at.
QueryAnyAnswer(c) ==
    LET b == trying[c]
        found == argument[c] \in served[b] IN
    /\ pc[c] = "query"
    /\ UNCHANGED resolverVars
    /\ \/ (found \/ trouble \/ Protocol[b] = "rpc") /\ Goto(c, "store")
       \/ ~found /\ Protocol[b] # "rpc" /\ Goto(c, "forget")
    /\ UNCHANGED <<capability, argument, lead, pending, trying, discovery, clockVars>>

\* The query of the client returns: an answer, the news that the method or
\* route does not exist (which an RPC endpoint cannot give), or an error.
Query(c) ==
    LET b == trying[c]
        found == argument[c] \in served[b] IN
    /\ pc[c] = "query"
    /\ UNCHANGED resolverVars
    /\ \/ /\ \/ found /\ Goto(c, "store")
             \/ ~found /\ Protocol[b] # "rpc" /\ Goto(c, "forget")
          /\ UNCHANGED <<capability, argument, lead, pending, trying, discovery, clockVars>>
       \/ /\ trouble \/ (~found /\ Protocol[b] = "rpc")
          /\ Return(c, "failed")

\* Variant: the remembered binding is dropped whichever binding was missing.
ForgetAll(c) ==
    /\ pc[c] = "forget"
    /\ cache' = [cache EXCEPT ![capability[c]] = None]
    /\ trying' = [trying EXCEPT ![c] = None]
    /\ Goto(c, "loop")
    /\ UNCHANGED <<unsupported, capability, argument, lead, pending, discovery, clockVars>>

Forget(c) ==
    LET k == capability[c] IN
    /\ pc[c] = "forget"
    /\ cache' = [cache EXCEPT ![k] = IF @ = trying[c] THEN None ELSE @]
    /\ trying' = [trying EXCEPT ![c] = None]
    /\ Goto(c, "loop")
    /\ UNCHANGED <<unsupported, capability, argument, lead, pending, discovery, clockVars>>

Store(c) ==
    LET k == capability[c] IN
    /\ pc[c] = "store"
    /\ cache' = [cache EXCEPT ![k] = trying[c]]
    /\ unsupported' = [unsupported EXCEPT ![k] = None]
    /\ Return(c, "answered")

\* Variant: failed reflection counts as a missing binding.
ExhaustedRegardless(c) ==
    /\ pc[c] = "loop"
    /\ pending[c] = {}
    /\ Goto(c, "remember")
    /\ UNCHANGED <<resolverVars, capability, argument, lead, pending, trying, discovery, clockVars>>

\* No binding is left.
Exhausted(c) ==
    /\ pc[c] = "loop"
    /\ pending[c] = {}
    /\ UNCHANGED resolverVars
    /\ \/ /\ discovery[c]
          /\ Return(c, "undiscovered")
       \/ /\ ~discovery[c]
          /\ Goto(c, "remember")
          /\ UNCHANGED <<capability, argument, lead, pending, trying, discovery, clockVars>>

Remember(c) ==
    /\ pc[c] = "remember"
    /\ unsupported' = [unsupported EXCEPT ![capability[c]] = 0]
    /\ UNCHANGED cache
    /\ Return(c, "unsupported")

Resolve(c) ==
    \/ CheckUnsupported(c) \/ DropExpired(c) \/ CachedFirst(c) \/ Attempt(c)
    \/ Probe(c) \/ Query(c) \/ Forget(c) \/ Store(c) \/ Exhausted(c) \/ Remember(c)

-----------------------------------------------------------------------------
\* The endpoints are upgraded, downgraded, fail or recover.
Change ==
    /\ served' \in Serveable
    /\ reflected' \in SUBSET {b \in Bindings : Protocol[b] = "grpc"}
    /\ trouble' \in BOOLEAN
    /\ absence' = [b \in Bindings |-> [a \in Arguments |->
                      IF Available(b, a)' THEN absence[b][a] ELSE 0]]
    /\ UNCHANGED <<resolverVars, callVars, elapsed>>

\* Variant: Resolve runs without a budget.
TickWithoutBudget ==
    /\ elapsed' = [c \in Callers |-> IF pc[c] \in Running THEN elapsed[c] + 1 ELSE 0]
    /\ \A c \in Callers : elapsed[c] <= Budget
    /\ unsupported' = [k \in Capabilities |->
                         IF unsupported[k] = None THEN None
                                                  ELSE Older(unsupported[k], OldEntry)]
    /\ absence' = [b \in Bindings |-> [a \in Arguments |->
                      IF Available(b, a) THEN Older(absence[b][a], Horizon) ELSE 0]]
    /\ UNCHANGED <<cache, callVars, endpointVars>>

\* context.WithTimeout: every endpoint call of Resolve has returned when the
\* budget is spent, and what is left of the call then takes no time.
Tick ==
    /\ \A c \in Callers : pc[c] \in Running => elapsed[c] < Budget
    /\ elapsed' = [c \in Callers |-> IF pc[c] \in Running THEN elapsed[c] + 1 ELSE 0]
    /\ unsupported' = [k \in Capabilities |->
                         IF unsupported[k] = None THEN None
                                                  ELSE Older(unsupported[k], OldEntry)]
    /\ absence' = [b \in Bindings |-> [a \in Arguments |->
                      IF Available(b, a) THEN Older(absence[b][a], Horizon) ELSE 0]]
    /\ UNCHANGED <<cache, callVars, endpointVars>>

Next ==
    \/ \E c \in Callers :
          \/ \E k \in Capabilities, a \in Arguments : Start(c, k, a) /\ UNCHANGED endpointVars
          \/ Resolve(c) /\ UNCHANGED endpointVars
    \/ Change
    \/ Tick

Spec == Init /\ [][Next]_vars

\* A goroutine that can run does, and the clock does not stop.  Nothing makes
\* a client call, or an endpoint change.
Fairness == (\A c \in Callers : WF_vars(Resolve(c) /\ UNCHANGED endpointVars)) /\ WF_vars(Tick)

FairSpec == Spec /\ Fairness

-----------------------------------------------------------------------------
TypeOK ==
    /\ cache \in [Capabilities -> Bindings \cup {None}]
    /\ unsupported \in [Capabilities -> 0 .. OldEntry \cup {None}]
    /\ pc \in [Callers -> Rest \cup Running]
    /\ capability \in [Callers -> Capabilities]
    /\ argument \in [Callers -> Arguments \cup {None}]
    /\ lead \in [Callers -> Bindings \cup {None}]
    /\ pending \in [Callers -> SUBSET Bindings]
    /\ trying \in [Callers -> Bindings \cup {None}]
    /\ discovery \in [Callers -> BOOLEAN]
    /\ served \in [Bindings -> SUBSET Arguments]
    /\ reflected \subseteq Bindings
    /\ trouble \in BOOLEAN
    /\ elapsed \in [Callers -> 0 .. Budget]
    /\ absence \in [Bindings -> [Arguments -> 0 .. Horizon]]

Ends(c, labels) == pc[c] \in Running /\ pc'[c] \in labels

\* A caller is told that a capability is unsupported only if there is an
\* argument, its own or that of an earlier call, for which each of its bindings
\* was unavailable at some moment of the last TTL + Budget, however the calls
\* that probe, remember, forget and expire interleave; no failure of another
\* kind, and no entry written late, extends it (capability.go:66-131).
DenialIsRecent ==
    [][\A c \in Callers : Ends(c, {"denied", "unsupported"})
          => \E a \in Arguments : \A b \in BindingsOf(capability[c]) :
                absence[b][a] <= TTL + Budget]_vars

\* The same of the argument of the call itself: "a confirmed-unsupported
\* capability is remembered", one "that every configured binding recently and
\* definitively failed" (capability.go:11-12 and 113-114).  It would hold if the
\* key of the negative entry contained the argument (capability.go:107).
DenialIsOwn ==
    [][\A c \in Callers : Ends(c, {"denied", "unsupported"})
          => \A b \in BindingsOf(capability[c]) :
                absence[b][argument[c]] <= TTL + Budget]_vars

\* The remembered binding of a capability is dropped only when it was itself
\* unavailable for some argument within the last Budget: a call whose attempt at another binding
\* failed does not take it away, and neither does an endpoint that is merely
\* in trouble (capability.go:84-87 and 212-218).
ForgottenWasMissing ==
    [][\A k \in Capabilities : (cache[k] # None /\ cache'[k] = None)
          => \E a \in Arguments : absence[cache[k]][a] <= Budget]_vars

\* A binding answers and becomes the remembered one only when each binding that
\* comes before it in this call was unavailable, for the argument of the call,
\* while the call ran, or when gRPC reflection failed during the call (capability.go:75-100).
FallbackHasReason ==
    [][\A c \in Callers : Ends(c, {"answered"})
          => \A b \in BindingsOf(capability[c]) \ {trying[c]} :
                Comes(capability[c], lead[c], b, trying[c])
                   => absence[b][argument[c]] <= Budget \/ discovery[c]]_vars

\* A call of Resolve returns: the loop ends and no lock region waits
\* (capability.go:66-111).
Returns(c) == pc[c] \in Running ~> pc[c] \in Rest

\* Once each argument of a capability has a binding that stays available, there
\* is a time after which no call is told that the capability is unsupported: "support added to the
\* chain later is picked up without restarting the server"
\* (capability.go:113-116).
RecoversWithoutRestart ==
    \A k \in Capabilities :
        (\A a \in Arguments : \E b \in BindingsOf(k) : <>[]Available(b, a))
           => <>[][\A c \in Callers : capability[c] = k
                     => ~Ends(c, {"denied", "unsupported"})]_vars

-----------------------------------------------------------------------------
(* The promise to a caller.  A call has its result as soon as an answer is  *)
(* there or no binding is left; what it then writes to the maps is its own  *)
(* business.                                                                *)

Deciding == Running \ {"store", "remember"}

ResultOf(label) ==
    IF label \in {"store", "answered"} THEN "answered"
    ELSE IF label \in {"remember", "unsupported", "denied"} THEN "refused"
    ELSE IF label \in {"undiscovered", "failed"} THEN "failed"
    ELSE "none"

Request == [c \in Callers |-> IF pc[c] \in Deciding
                               THEN <<capability[c], argument[c]>> ELSE None]
Result == [c \in Callers |-> ResultOf(pc[c])]
Blamed == [c \in Callers |-> pc[c] \in Deciding /\ discovery[c]]
Spent == [c \in Callers |-> IF pc[c] \in Deciding THEN elapsed[c] ELSE 0]

Offered == [b \in Bindings |-> IF Protocol[b] \in Configured THEN served[b] ELSE {}]
Found == [b \in Bindings |-> {a \in Arguments : Available(b, a)}]

P == INSTANCE CapabilityPromise WITH
        Routes <- [k \in Capabilities |-> BindingsOf(k)],
        Opaque <- {b \in Bindings : Protocol[b] = "rpc"},
        Staleness <- TTL + Budget,
        request <- Request,
        result <- Result,
        blamed <- Blamed,
        spent <- Spent,
        offered <- Offered,
        found <- Found,
        hidden <- {}

\* Resolve keeps the promise of CapabilityPromise for calls that run together:
\* answers come from endpoints that give them, refusals rest on evidence, and
\* failures have a cause within the call (capability.go:66-111).
KeepsPromise == P!PSpec

-----------------------------------------------------------------------------
(* Why the safety properties hold: an invariant that is inductive with TypeOK. *)

Trying == {"probe", "query", "forget", "store"}

\* The locals of a call at each place of Resolve.
LocalsFit ==
    \A c \in Callers :
       /\ pc[c] \in Running => argument[c] \in Arguments
       /\ IF pc[c] \in Trying THEN trying[c] \in BindingsOf(capability[c])
                              ELSE trying[c] = None
       /\ pc[c] = "probe" => Protocol[trying[c]] = "grpc"
       /\ pc[c] \in Rest \cup {"check", "expire", "order", "remember"}
             => ~discovery[c] /\ pending[c] = {}
       /\ pending[c] \subseteq BindingsOf(capability[c])

UnavailableIsRecorded ==
    \A b \in Bindings, a \in Arguments : ~Available(b, a) => absence[b][a] = 0

\* Every binding the call has left behind was missing during the call, unless
\* reflection failed; so was the one it is about to forget.
Attempted(c) == BindingsOf(capability[c]) \ (pending[c] \cup {trying[c]})

AttemptedWereMissing ==
    \A c \in Callers :
       (pc[c] \in Trying \cup {"loop", "remember"} /\ ~discovery[c])
          => \A b \in Attempted(c) : absence[b][argument[c]] <= elapsed[c]

ForgettingIsMissing ==
    \A c \in Callers : pc[c] = "forget" => absence[trying[c]][argument[c]] <= elapsed[c]

\* The bindings a call has not tried come after the one it is trying.
TriedInOrder ==
    \A c \in Callers : pc[c] \in Trying
       => \A d \in pending[c] : ~Comes(capability[c], lead[c], d, trying[c])

\* An entry that is still in force was earned by all bindings of its capability,
\* for one and the same argument.
EntryIsBacked ==
    \A k \in Capabilities : Live(unsupported[k])
       => \E a \in Arguments : \A b \in BindingsOf(k) :
             absence[b][a] <= unsupported[k] + Budget

Evidence ==
    /\ LocalsFit
    /\ UnavailableIsRecorded
    /\ AttemptedWereMissing
    /\ ForgettingIsMissing
    /\ TriedInOrder
    /\ EntryIsBacked

=============================================================================
