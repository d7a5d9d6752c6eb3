--------------------------- MODULE DescriptorCache ---------------------------
(***************************************************************************)
(* What the gRPC client knows of the services of its node                  *)
(* (internal/cosmos/grpc.go, descriptorsForSymbol and fetchSymbol), as its *)
(* users see it through HasMethod.                                         *)
(*                                                                         *)
(* The descriptors of a service are fetched by server reflection once and  *)
(* kept for the life of the client; that a service does not exist is       *)
(* remembered for SymbolTTL.  Lookups run concurrently; the read of the    *)
(* two maps, each reflection stream and each write is one step.            *)
(*                                                                         *)
(* A descriptor is the set of methods it lists.  A service without methods *)
(* stands for one the node does not have, or that has not been fetched.    *)
(***************************************************************************)
EXTENDS Naturals

CONSTANTS
    Lookups,        \* concurrent users of the client
    Symbols,        \* full names of services
    Methods,
    ServiceOf,      \* [Methods -> Symbols]
    SymbolTTL,      \* symbolNotFoundTTL
    Timeout,        \* the timeout of the client
    None

ASSUME SymbolAssumption == ServiceOf \in [Methods -> Symbols]
ASSUME SymbolTimeAssumption == SymbolTTL \in Nat /\ Timeout \in Nat
ASSUME SymbolNoneAssumption == None \notin Nat

VARIABLES
    descriptors,    \* symbol -> the methods of its cached descriptor, or {}
    missing,        \* symbol -> age of the entry that says it is absent, or None
    at,             \* where a lookup is, or how the last one ended
    wanted,         \* the method it asks for
    denied,         \* one of the reflection services answered NotFound
    fetched,        \* the methods reflection returned
    present,        \* the methods the node serves
    unwell,         \* reflection may fail for other reasons
    waited,         \* age of the lookup
    presence        \* symbol -> the time for which the node has now had it

knowledgeVars == <<descriptors, missing>>
lookupVars == <<at, wanted, denied, fetched>>
nodeVars == <<present, unwell>>
agesVars == <<waited, presence>>
dvars == <<knowledgeVars, lookupVars, nodeVars, agesVars>>

-----------------------------------------------------------------------------
Settled == {"idle", "has", "lacks", "unreflected", "broken"}
Looking == {"read", "v1", "v1alpha", "build", "absent"}

OldAbsence == SymbolTTL + 1
LongPresent == SymbolTTL + Timeout + 1

Aged(age, limit) == IF age < limit THEN age + 1 ELSE limit

\* Variant: an absent service stays absent.
FreshForever(age) == age \in 0 .. OldAbsence

Fresh(age) == age \in 0 .. SymbolTTL

Contents(s, methods) == {m \in methods : ServiceOf[m] = s}

SymbolOf(c) == ServiceOf[wanted[c]]

-----------------------------------------------------------------------------
InitKnowledge ==
    /\ descriptors = [s \in Symbols |-> {}]
    /\ missing = [s \in Symbols |-> None]
    /\ at = [c \in Lookups |-> "idle"]
    /\ wanted = [c \in Lookups |-> None]
    /\ denied = [c \in Lookups |-> FALSE]
    /\ fetched = [c \in Lookups |-> {}]
    /\ waited = [c \in Lookups |-> 0]

DInit ==
    /\ InitKnowledge
    /\ present \in SUBSET Methods
    /\ unwell \in BOOLEAN
    /\ presence = [s \in Symbols |->
                     IF Contents(s, present) = {} THEN 0 ELSE LongPresent]

Move(c, label) == at' = [at EXCEPT ![c] = label]

\* The lookup returns: its locals are gone.
Settle(c, label) ==
    /\ Move(c, label)
    /\ denied' = [denied EXCEPT ![c] = FALSE]
    /\ fetched' = [fetched EXCEPT ![c] = {}]
    /\ waited' = [waited EXCEPT ![c] = 0]
    /\ wanted' = [wanted EXCEPT ![c] = None]

\* What HasMethod makes of a descriptor.
Verdict(c, methods) == IF wanted[c] \in methods THEN "has" ELSE "lacks"

HasMethod(c, m) ==
    /\ at[c] \in Settled
    /\ Move(c, "read")
    /\ wanted' = [wanted EXCEPT ![c] = m]
    /\ UNCHANGED <<knowledgeVars, denied, fetched, waited>>

\* The two maps are read under one read lock; descriptors come first.
ReadMaps(c) ==
    LET s == SymbolOf(c) IN
    /\ at[c] = "read"
    /\ UNCHANGED knowledgeVars
    /\ \/ /\ descriptors[s] # {}
          /\ Settle(c, Verdict(c, descriptors[s]))
       \/ /\ descriptors[s] = {}
          /\ Fresh(missing[s])
          /\ Settle(c, "lacks")
       \/ /\ descriptors[s] = {}
          /\ ~Fresh(missing[s])
          /\ Move(c, "v1")
          /\ UNCHANGED <<wanted, denied, fetched, waited>>

\* The stream of one version of the reflection service ends with the
\* descriptor, with NotFound, or with any other error (a node without this
\* version of reflection, no connection, no permission, a timeout).
Descriptor(c) ==
    LET methods == Contents(SymbolOf(c), present) IN
    /\ methods # {}
    /\ Move(c, "build")
    /\ fetched' = [fetched EXCEPT ![c] = methods]
    /\ UNCHANGED <<wanted, denied, waited>>

ReflectV1(c) ==
    /\ at[c] = "v1"
    /\ UNCHANGED knowledgeVars
    /\ \/ Descriptor(c)
       \/ /\ Contents(SymbolOf(c), present) = {}
          /\ Move(c, "v1alpha")
          /\ denied' = [denied EXCEPT ![c] = TRUE]
          /\ UNCHANGED <<wanted, fetched, waited>>
       \/ /\ unwell
          /\ Move(c, "v1alpha")
          /\ UNCHANGED <<wanted, denied, fetched, waited>>

\* Variant: any failure of both versions means that the service does not exist.
ReflectV1alphaHasty(c) ==
    /\ at[c] = "v1alpha"
    /\ UNCHANGED knowledgeVars
    /\ \/ Descriptor(c)
       \/ /\ Contents(SymbolOf(c), present) = {} \/ unwell
          /\ Move(c, "absent")
          /\ UNCHANGED <<wanted, denied, fetched, waited>>

\* NotFound from either version means that the service does not exist.
ReflectV1alpha(c) ==
    /\ at[c] = "v1alpha"
    /\ UNCHANGED knowledgeVars
    /\ \/ Descriptor(c)
       \/ /\ Contents(SymbolOf(c), present) = {} \/ (unwell /\ denied[c])
          /\ Move(c, "absent")
          /\ UNCHANGED <<wanted, denied, fetched, waited>>
       \/ /\ unwell
          /\ ~denied[c]
          /\ Settle(c, "unreflected")

\* Variant: the last descriptor wins.
BuildReplacing(c) ==
    LET s == SymbolOf(c) IN
    /\ at[c] = "build"
    /\ descriptors' = [descriptors EXCEPT ![s] = fetched[c]]
    /\ missing' = [missing EXCEPT ![s] = None]
    /\ Settle(c, Verdict(c, fetched[c]))

\* The files are parsed and linked, which fails if the node sent nonsense;
\* a descriptor that is already there wins.
Build(c) ==
    LET s == SymbolOf(c)
        kept == IF descriptors[s] # {} THEN descriptors[s] ELSE fetched[c]
    IN
    /\ at[c] = "build"
    /\ \/ /\ descriptors' = [descriptors EXCEPT ![s] = kept]
          /\ missing' = [missing EXCEPT ![s] = None]
          /\ Settle(c, Verdict(c, kept))
       \/ /\ unwell
          /\ UNCHANGED knowledgeVars
          /\ Settle(c, "broken")

\* Variant: the descriptor goes when the service is found to be absent.
RememberAbsentEvicting(c) ==
    /\ at[c] = "absent"
    /\ missing' = [missing EXCEPT ![SymbolOf(c)] = 0]
    /\ descriptors' = [descriptors EXCEPT ![SymbolOf(c)] = {}]
    /\ Settle(c, "lacks")

RememberAbsent(c) ==
    /\ at[c] = "absent"
    /\ missing' = [missing EXCEPT ![SymbolOf(c)] = 0]
    /\ UNCHANGED descriptors
    /\ Settle(c, "lacks")

Lookup(c) == ReadMaps(c) \/ ReflectV1(c) \/ ReflectV1alpha(c) \/ Build(c) \/ RememberAbsent(c)

-----------------------------------------------------------------------------
\* The node is upgraded or downgraded, fails or recovers.
NodeChange ==
    /\ present' \in SUBSET Methods
    /\ unwell' \in BOOLEAN
    /\ presence' = [s \in Symbols |->
                      IF Contents(s, present') = {} THEN 0 ELSE presence[s]]
    /\ UNCHANGED <<knowledgeVars, lookupVars, waited>>

\* Variant: reflection streams have no deadline.
AgeLookupsUnbounded ==
    /\ \A c \in Lookups : waited[c] <= Timeout
    /\ waited' = [c \in Lookups |-> IF at[c] \in Looking THEN waited[c] + 1 ELSE 0]
    /\ missing' = [s \in Symbols |->
                     IF missing[s] = None THEN None ELSE Aged(missing[s], OldAbsence)]
    /\ UNCHANGED descriptors

AgeLookups ==
    /\ \A c \in Lookups : at[c] \in Looking => waited[c] < Timeout
    /\ waited' = [c \in Lookups |-> IF at[c] \in Looking THEN waited[c] + 1 ELSE 0]
    /\ missing' = [s \in Symbols |->
                     IF missing[s] = None THEN None ELSE Aged(missing[s], OldAbsence)]
    /\ UNCHANGED descriptors

\* context.WithTimeout in HasMethod: the streams end when the timeout has passed.
DTick ==
    /\ AgeLookups
    /\ presence' = [s \in Symbols |->
                      IF Contents(s, present) = {} THEN 0 ELSE Aged(presence[s], LongPresent)]
    /\ UNCHANGED <<lookupVars, nodeVars>>

DNext ==
    \/ \E c \in Lookups : /\ (\E m \in Methods : HasMethod(c, m)) \/ Lookup(c)
                          /\ UNCHANGED <<nodeVars, presence>>
    \/ NodeChange
    \/ DTick

DSpec == DInit /\ [][DNext]_dvars

\* Goroutines that can run do, and the clock goes on.
DFairSpec ==
    /\ DSpec
    /\ \A c \in Lookups : WF_dvars(Lookup(c) /\ UNCHANGED <<nodeVars, presence>>)
    /\ WF_dvars(DTick)

-----------------------------------------------------------------------------
DTypeOK ==
    /\ descriptors \in [Symbols -> SUBSET Methods]
    /\ missing \in [Symbols -> 0 .. OldAbsence \cup {None}]
    /\ at \in [Lookups -> Settled \cup Looking]
    /\ wanted \in [Lookups -> Methods \cup {None}]
    /\ denied \in [Lookups -> BOOLEAN]
    /\ fetched \in [Lookups -> SUBSET Methods]
    /\ present \subseteq Methods
    /\ unwell \in BOOLEAN
    /\ waited \in [Lookups -> 0 .. Timeout]
    /\ presence \in [Symbols -> 0 .. LongPresent]

Settles(c, label) == at[c] \in Looking /\ at'[c] = label

\* A lookup says that the node has no such method only if the service is known
\* without it, or was absent at a moment of the last SymbolTTL + Timeout: a
\* failed stream never passes for an absent service, and a late write of the
\* entry never makes it live longer (grpc.go:239-320 and 331-364).
AbsenceIsRecent ==
    [][\A c \in Lookups : Settles(c, "lacks")
          => LET s == SymbolOf(c) IN
             \/ descriptors'[s] # {} /\ wanted[c] \notin descriptors'[s]
             \/ presence[s] <= SymbolTTL + Timeout]_dvars

\* All lookups share one view of a service: its descriptor never changes once
\* it is there, and every lookup that says a method exists says so from it, the
\* ones that fetched another descriptor at the same time included
\* (grpc.go:309-319).
OneDescriptor ==
    [][/\ \A s \in Symbols : descriptors[s] # {} => descriptors'[s] = descriptors[s]
       /\ \A c \in Lookups : Settles(c, "has")
             => wanted[c] \in descriptors'[SymbolOf(c)]]_dvars

\* A service that stays is eventually found by every lookup that reaches
\* reflection: the entry that says it is absent goes away
\* (grpc.go:34-37 and 247-249).
AbsenceExpires ==
    \A s \in Symbols :
        <>[](Contents(s, present) # {} /\ ~unwell)
           => <>[][\A c \in Lookups : Settles(c, "lacks") /\ SymbolOf(c) = s
                      => descriptors'[s] # {}]_dvars

-----------------------------------------------------------------------------
(* Why the safety properties hold: an invariant that is inductive with DTypeOK. *)

\* The locals of a lookup at each of its places.
LookupFits ==
    \A c \in Lookups :
       /\ at[c] \in Looking => wanted[c] \in Methods
       /\ at[c] = "build" => fetched[c] # {}
       /\ denied[c] => at[c] \in {"v1alpha", "build", "absent"}

AbsentNow == \A s \in Symbols : Contents(s, present) = {} => presence[s] = 0

\* A lookup that was told NotFound was told so since it began.
DenialIsBacked ==
    \A c \in Lookups :
       at[c] = "absent" \/ (at[c] = "v1alpha" /\ denied[c])
          => presence[SymbolOf(c)] <= waited[c]

\* An entry in force was earned by the lookup that wrote it.
EntryIsBacked ==
    \A s \in Symbols : Fresh(missing[s]) => presence[s] <= missing[s] + Timeout

\* Every denial in flight and every entry in force rests on an absence of the
\* service that is no older than the lookup, or the entry and its lookup, though
\* the service comes back while streams, writes and expiry interleave
\* (grpc.go:239-261, 331-364).
Backed == LookupFits /\ AbsentNow /\ DenialIsBacked /\ EntryIsBacked

=============================================================================
