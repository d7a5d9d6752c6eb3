------------------------------ MODULE Discovery ------------------------------
(***************************************************************************)
(* The resolver on top of the gRPC client it is built with: HasMethod is   *)
(* no longer an oracle (the variable reflected of Resolver) but a lookup   *)
(* in the descriptor cache, which may answer from memory.  The two caches  *)
(* forget at times of their own, and bindings share services.              *)
(*                                                                         *)
(* A call of Resolve runs its lookup on its own goroutine, so the lookups  *)
(* of DescriptorCache are the callers of Resolver, and a step that settles *)
(* a lookup is the step with which HasMethod returns to invoke.            *)
(***************************************************************************)
EXTENDS Naturals, Sequences, Functions

CONSTANTS
    Callers, Capabilities, Arguments, Bindings, Preference, Protocol, Configured,
    TTL, Budget, Horizon,           \* of the resolver
    Symbols, ServiceOf,             \* the service of each gRPC binding
    SymbolTTL, Timeout,             \* of the gRPC client
    None

VARIABLES
    cache, unsupported, pc, capability, argument, lead, pending, trying, discovery,
    served, trouble, elapsed, absence,
    descriptors, missing, at, wanted, denied, fetched, waited, presence

Methods == {b \in Bindings : Protocol[b] = "grpc"}

\* The methods the node has; reflection reports the same.
Present == {m \in Methods : served[m] # {}}

R == INSTANCE Resolver WITH reflected <- Present

D == INSTANCE DescriptorCache WITH
        Lookups <- Callers,
        present <- Present,
        unwell <- trouble

\* What the two parts assume of their constants.
ASSUME PartsAssumption ==
    /\ R!NoneAssumption /\ R!TimeAssumption /\ R!ProtocolAssumption /\ R!PreferenceAssumption
    /\ D!SymbolAssumption /\ D!SymbolTimeAssumption /\ D!SymbolNoneAssumption

resolver == <<cache, unsupported, pc, capability, argument, lead, pending,
              trying, discovery, elapsed, absence>>
client == <<descriptors, missing, at, wanted, denied, fetched, waited, presence>>
endpoints == <<served, trouble>>
allVars == <<resolver, client, endpoints>>

-----------------------------------------------------------------------------
Init == R!Init /\ D!DInit

\* Variant: the lookup of the next binding starts while this one is tried.
AskEarly(c) ==
    /\ pc[c] \in {"loop", "probe"}
    /\ \E m \in Methods : D!HasMethod(c, m)
    /\ UNCHANGED <<resolver, presence, endpoints>>

\* invoke calls HasMethod.
Ask(c) ==
    /\ pc[c] = "probe"
    /\ D!HasMethod(c, trying[c])
    /\ UNCHANGED <<resolver, presence, endpoints>>

LookingUp(c) ==
    /\ D!Lookup(c)
    /\ at'[c] \in D!Looking
    /\ UNCHANGED <<resolver, presence, endpoints>>

\* Variant: reflection that fails passes for a missing method.
AnsweredPessimistically(c) ==
    /\ D!Lookup(c)
    /\ \/ at'[c] = "has" /\ R!Probed(c, TRUE)
       \/ at'[c] \in {"lacks", "unreflected"} /\ R!Probed(c, FALSE)
       \/ at'[c] = "broken" /\ R!ProbeFailed(c)
    /\ UNCHANGED <<presence, endpoints>>

\* HasMethod returns.
Answered(c) ==
    /\ D!Lookup(c)
    /\ \/ at'[c] = "has" /\ R!Probed(c, TRUE)
       \/ at'[c] = "lacks" /\ R!Probed(c, FALSE)
       \/ at'[c] = "unreflected" /\ R!Unreflected(c)
       \/ at'[c] = "broken" /\ R!ProbeFailed(c)
    /\ UNCHANGED <<presence, endpoints>>

\* The steps of Resolve that do not involve reflection.
Local(c) ==
    /\ \/ R!CheckUnsupported(c) \/ R!DropExpired(c) \/ R!CachedFirst(c)
       \/ R!Attempt(c) \/ R!Query(c) \/ R!Forget(c) \/ R!Store(c)
       \/ R!Exhausted(c) \/ R!Remember(c)
    /\ UNCHANGED <<client, endpoints>>

Run(c) == Ask(c) \/ LookingUp(c) \/ Answered(c) \/ Local(c)

Call(c) ==
    /\ \E k \in Capabilities, a \in Arguments : R!Start(c, k, a)
    /\ UNCHANGED <<client, endpoints>>

EndpointsChange == R!Change /\ D!NodeChange

Tick == R!Tick /\ D!DTick

Next == (\E c \in Callers : Call(c) \/ Run(c)) \/ EndpointsChange \/ Tick

Spec == Init /\ [][Next]_allVars

FairSpec == Spec /\ (\A c \in Callers : WF_allVars(Run(c))) /\ WF_allVars(Tick)

-----------------------------------------------------------------------------
\* A lookup runs exactly inside the probe of its call.
TypeOK ==
    /\ R!TypeOK
    /\ D!DTypeOK
    /\ \A c \in Callers : at[c] \in D!Looking
          => pc[c] = "probe" /\ wanted[c] = trying[c] /\ waited[c] <= elapsed[c]

\* The longest that a service which is back can go on being refused: its
\* absence was remembered by the client, and that by the resolver.
Staleness == TTL + Budget + SymbolTTL + Timeout

\* Methods whose service is known by a descriptor without them.
Hidden == {m \in Methods : /\ descriptors[ServiceOf[m]] # {}
                           /\ m \notin descriptors[ServiceOf[m]]}

\* The age of what HasMethod says.
Slack == SymbolTTL + Timeout

\* That b was not there is no older, or it is hidden.
Excused(b, a, age) == absence[b][a] <= age \/ b \in Hidden

\* The promise of Resolve, kept with the client as it is.
P == INSTANCE CapabilityPromise WITH
        Routes <- [k \in Capabilities |-> R!BindingsOf(k)],
        Opaque <- {b \in Bindings : Protocol[b] = "rpc"},
        request <- R!Request,
        result <- R!Result,
        blamed <- R!Blamed,
        spent <- R!Spent,
        offered <- R!Offered,
        found <- R!Found,
        hidden <- Hidden

\* With the descriptor cache of the client below it, Resolve keeps the same
\* promise, for evidence as old as both caches allow together: when a caller is
\* refused, each binding was really unavailable within that time, or its service
\* is known by a descriptor without it; and what is hidden in this way stays so
\* (grpc.go:239-320 under capability.go:66-131).
KeepsPromise == P!PSpec

\* A call that was answered by gRPC had the method in a cached descriptor, also
\* when another call replaced or added descriptors in between
\* (capability.go:139-155: HasMethod, then Query, which looks it up again).
QueriedMethodIsKnown ==
    \A c \in Callers : (pc[c] = "query" /\ trying[c] \in Methods)
       => trying[c] \in descriptors[ServiceOf[trying[c]]]

\* The comment of cachedUnsupported: "support added to the chain later is
\* picked up without restarting the server" (capability.go:115-116).
SupportIsPickedUp == R!RecoversWithoutRestart

\* README.md:151: "Temporary endpoint failures, authentication failures, rate
\* limits, and server errors do not trigger a version fallback."  A binding
\* answers only if each one before it was unavailable some time ago.
NoFallbackOnFailure ==
    [][\A c \in Callers : R!Ends(c, {"answered"})
          => \A b \in R!BindingsOf(capability[c]) \ {trying[c]} :
                R!Comes(capability[c], lead[c], b, trying[c])
                   => absence[b][argument[c]] < Horizon]_allVars

\* What holds in its place: a binding answers only when each one before it was
\* unavailable, for the argument of the call, within the lifetimes of what the
\* client remembers, or is hidden by a descriptor without it, or when reflection
\* failed during the call.  A failure of another kind never moves a call on to
\* the next binding (capability.go:75-100 over grpc.go:239-320).
FallbackIsExcused ==
    [][\A c \in Callers : R!Ends(c, {"answered"})
          => \A b \in R!BindingsOf(capability[c]) \ {trying[c]} :
                R!Comes(capability[c], lead[c], b, trying[c])
                   => discovery[c] \/ Excused(b, argument[c], Budget + Slack)]_allVars

\* And the binding that last answered is given up only for such a reason of its
\* own, whatever the calls that run at the same time find missing
\* (capability.go:84-87 and 212-218).
ForgottenIsExcused ==
    [][\A k \in Capabilities : cache[k] # None /\ cache'[k] = None
          => \E a \in Arguments : Excused(cache[k], a, Budget + Slack)]_allVars

-----------------------------------------------------------------------------
(* Why the promise is kept: an invariant that is inductive with the types of *)
(* both parts and with D!Backed.                                             *)

\* A binding cannot have been there for longer than its service.
ServiceComesFirst ==
    \A m \in Methods, a \in Arguments :
       presence[ServiceOf[m]] < D!LongPresent => absence[m][a] <= presence[ServiceOf[m]]

AttemptsAreExcused ==
    \A c \in Callers :
       /\ pc[c] \in R!Trying \cup {"loop", "remember"} /\ ~discovery[c]
             => \A b \in R!Attempted(c) : Excused(b, argument[c], elapsed[c] + Slack)
       /\ pc[c] = "forget" => Excused(trying[c], argument[c], elapsed[c] + Slack)

EntryIsExcused ==
    \A k \in Capabilities : R!Live(unsupported[k])
       => \E a \in Arguments : \A b \in R!BindingsOf(k) :
             Excused(b, a, unsupported[k] + Budget + Slack)

\* Whatever the two memories say of a binding, alone or one on top of the other,
\* was true within their lifetimes taken together, or is hidden for good: for
\* every binding a running call has left behind, and for every binding of a
\* capability with an entry in force (capability.go:66-131, grpc.go:239-320).
Evidence ==
    /\ R!LocalsFit
    /\ R!UnavailableIsRecorded
    /\ ServiceComesFirst
    /\ AttemptsAreExcused
    /\ EntryIsExcused

=============================================================================
