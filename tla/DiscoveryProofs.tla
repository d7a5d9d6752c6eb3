---------------------------- MODULE DiscoveryProofs ----------------------------
(* Resolve with the descriptor cache of the client below it: the types, what a *)
(* query may count on, and the promise to the caller, for every value of the   *)
(* constants.  Steps that belong to one part take over what is proved of it.   *)
EXTENDS Discovery, TLAPS

\* The parts of the types that the argument uses.
Shapes ==
    /\ DOMAIN pc = Callers /\ DOMAIN trying = Callers
    /\ capability \in [Callers -> Capabilities]
    /\ pending \in [Callers -> SUBSET Bindings]
    /\ DOMAIN at = Callers /\ DOMAIN wanted = Callers
    /\ DOMAIN descriptors = Symbols

\* A call that probes looks up the method it tries.
ProbeFits ==
    \A c \in Callers : /\ pc[c] = "probe" => trying[c] \in Methods
                       /\ at[c] \in D!Looking => pc[c] = "probe" /\ wanted[c] = trying[c]

Known == Shapes /\ ProbeFits /\ QueriedMethodIsKnown

LEMMA InitKnown == Init => Known
  BY DEF Init, R!Init, D!DInit, D!InitKnowledge, Known, Shapes, ProbeFits, QueriedMethodIsKnown, D!Looking

LEMMA ServiceType == \A m \in Methods : ServiceOf[m] \in Symbols
  BY PartsAssumption DEF D!SymbolAssumption

LEMMA LookupAsks ==
  ASSUME Known, NEW c \in Callers, D!Lookup(c)
  PROVE  /\ at[c] \in D!Looking /\ pc[c] = "probe" /\ wanted[c] = trying[c]
         /\ trying[c] \in Methods /\ D!SymbolOf(c) = ServiceOf[trying[c]] /\ D!SymbolOf(c) \in Symbols
  BY ServiceType DEF D!Lookup, D!ReadMaps, D!ReflectV1, D!ReflectV1alpha, D!Build, D!RememberAbsent,
     D!Looking, Known, ProbeFits, D!SymbolOf

\* A settled lookup has moved on by itself; the others are as they were.
LEMMA LookupMoves ==
  ASSUME Known, NEW c \in Callers, D!Lookup(c)
  PROVE  /\ DOMAIN at' = Callers /\ DOMAIN wanted' = Callers
         /\ \A d \in Callers \ {c} : at'[d] = at[d] /\ wanted'[d] = wanted[d]
         /\ at'[c] \in D!Looking => wanted' = wanted
<1>1. \/ \E label : D!Settle(c, label) /\ label \notin D!Looking
      \/ \E label : D!Move(c, label) /\ UNCHANGED wanted
  BY DEF D!Lookup, D!ReadMaps, D!ReflectV1, D!ReflectV1alpha, D!Descriptor, D!Build, D!RememberAbsent,
     D!Verdict, D!Looking
<1> QED BY <1>1 DEF D!Settle, D!Move, Known, Shapes

\* No descriptor has lost a method, and HasMethod says yes from one.
LEMMA LookupKeeps ==
  ASSUME Known, NEW c \in Callers, D!Lookup(c)
  PROVE  /\ DOMAIN descriptors' = Symbols
         /\ \A s \in Symbols : descriptors[s] \subseteq descriptors'[s]
         /\ at'[c] = "has" => trying[c] \in descriptors'[ServiceOf[trying[c]]]
<1>1. /\ DOMAIN at = Callers /\ DOMAIN descriptors = Symbols /\ trying[c] = wanted[c]
      /\ D!SymbolOf(c) = ServiceOf[trying[c]] /\ D!SymbolOf(c) \in Symbols
  BY LookupAsks DEF Known, Shapes
<1>2. CASE D!ReadMaps(c)
  BY <1>1, <1>2 DEF D!ReadMaps, D!Settle, D!Move, D!Verdict, D!knowledgeVars
<1>3. CASE D!ReflectV1(c) \/ D!ReflectV1alpha(c)
  BY <1>1, <1>3 DEF D!ReflectV1, D!ReflectV1alpha, D!Descriptor, D!Settle, D!Move, D!knowledgeVars
<1>4. CASE D!Build(c)
  BY <1>1, <1>4 DEF D!Build, D!Settle, D!Move, D!Verdict, D!knowledgeVars
<1>5. CASE D!RememberAbsent(c)
  BY <1>1, <1>5 DEF D!RememberAbsent, D!Settle, D!Move
<1> QED BY <1>2, <1>3, <1>4, <1>5 DEF D!Lookup

-----------------------------------------------------------------------------
LEMMA AskKnown ==
  ASSUME Known, NEW c \in Callers, Ask(c)
  PROVE  Known'
<1>1. Shapes'
  BY DEF Known, Shapes, Ask, D!HasMethod, D!Move, D!knowledgeVars, resolver
<1>2. ProbeFits'
  BY DEF Known, Shapes, ProbeFits, Ask, D!HasMethod, D!Move, D!knowledgeVars, D!Looking, resolver
<1>3. QueriedMethodIsKnown'
  BY DEF Known, QueriedMethodIsKnown, Ask, D!HasMethod, D!knowledgeVars, resolver
<1> QED BY <1>1, <1>2, <1>3 DEF Known

LEMMA LookingUpKnown ==
  ASSUME Known, NEW c \in Callers, LookingUp(c)
  PROVE  Known'
<1>1. D!Lookup(c) /\ at'[c] \in D!Looking /\ pc' = pc /\ trying' = trying
      /\ capability' = capability /\ pending' = pending
  BY DEF LookingUp, resolver
<1>2. Shapes'
  BY <1>1, LookupMoves, LookupKeeps DEF Known, Shapes
<1>3. ProbeFits'
  BY <1>1, LookupMoves, LookupAsks DEF Known, ProbeFits
<1>4. QueriedMethodIsKnown'
  BY <1>1, LookupKeeps, ServiceType DEF Known, QueriedMethodIsKnown
<1> QED BY <1>2, <1>3, <1>4 DEF Known

LEMMA AnsweredKnown ==
  ASSUME Known, NEW c \in Callers, Answered(c)
  PROVE  Known'
<1>1. D!Lookup(c) /\ at'[c] \notin D!Looking
  BY DEF Answered, D!Looking
<1>2. /\ DOMAIN pc' = Callers /\ DOMAIN trying' = Callers /\ pc'[c] # "probe"
      /\ \A d \in Callers \ {c} : pc'[d] = pc[d] /\ trying'[d] = trying[d]
      /\ capability' = capability /\ pending' \in [Callers -> SUBSET Bindings]
      /\ pc'[c] = "query" => at'[c] = "has" /\ trying'[c] = trying[c]
  BY DEF Answered, R!Probed, R!Unreflected, R!ProbeFailed, R!Return, R!Goto, Known, Shapes
<1>3. Shapes'
  BY <1>1, <1>2, LookupMoves, LookupKeeps DEF Known, Shapes
<1>4. ProbeFits'
  BY <1>1, <1>2, LookupMoves DEF Known, ProbeFits
<1>5. QueriedMethodIsKnown'
  BY <1>1, <1>2, LookupKeeps, ServiceType DEF Known, QueriedMethodIsKnown
<1> QED BY <1>3, <1>4, <1>5 DEF Known

\* A step of one call that does not involve reflection.
LEMMA OwnStepKnown ==
  ASSUME Known, NEW c \in Callers, UNCHANGED client, pc[c] # "probe",
         DOMAIN pc' = Callers, DOMAIN trying' = Callers,
         \A d \in Callers \ {c} : pc'[d] = pc[d] /\ trying'[d] = trying[d],
         capability' \in [Callers -> Capabilities], pending' \in [Callers -> SUBSET Bindings],
         pc'[c] = "probe" => trying'[c] \in Methods,
         pc'[c] = "query" => trying'[c] \notin Methods
  PROVE  Known'
<1>1. at' = at /\ wanted' = wanted /\ descriptors' = descriptors
  BY DEF client
<1>2. Shapes' /\ ProbeFits' /\ QueriedMethodIsKnown'
  BY <1>1 DEF Known, Shapes, ProbeFits, QueriedMethodIsKnown
<1> QED BY <1>2 DEF Known

LEMMA LocalKnown ==
  ASSUME Known, NEW c \in Callers, Local(c)
  PROVE  Known'
<1> USE DEF Known, Shapes
<1>1. CASE R!CachedFirst(c)
  <2>1. R!BindingsOf(capability[c]) \subseteq Bindings
    <3>1. Preference[capability[c]] \in Seq(Bindings)
      BY PartsAssumption DEF D!SymbolAssumption
    <3>2. \A i \in DOMAIN Preference[capability[c]] : Preference[capability[c]][i] \in Bindings
      BY <3>1
    <3> QED BY <3>2 DEF R!BindingsOf, R!Range
  <2>2. /\ pc[c] # "probe" /\ DOMAIN pc' = Callers /\ trying' = trying /\ capability' = capability
        /\ \A d \in Callers \ {c} : pc'[d] = pc[d]
        /\ pending' \in [Callers -> SUBSET Bindings]
        /\ pc'[c] = "loop"
    BY <1>1, <2>1 DEF R!CachedFirst, R!Goto
  <2> QED BY <2>2, OwnStepKnown DEF Local
<1>2. CASE R!Attempt(c)
  <2>1. PICK b \in R!Foremost(c) :
           /\ trying' = [trying EXCEPT ![c] = b]
           /\ R!Goto(c, IF Protocol[b] \notin Configured THEN "forget"
                        ELSE IF Protocol[b] = "grpc" THEN "probe" ELSE "query")
    BY <1>2 DEF R!Attempt
  <2>2. b \in Bindings
    BY DEF R!Foremost
  <2>3. pc[c] = "loop" /\ capability' = capability /\ pending' \in [Callers -> SUBSET Bindings]
    BY <1>2 DEF R!Attempt
  <2>4. /\ pc'[c] = "probe" => trying'[c] \in Methods
        /\ pc'[c] = "query" => trying'[c] \notin Methods
        /\ DOMAIN pc' = Callers /\ DOMAIN trying' = Callers
        /\ \A d \in Callers \ {c} : pc'[d] = pc[d] /\ trying'[d] = trying[d]
    BY <2>1, <2>2 DEF R!Goto, Methods
  <2> QED BY <2>3, <2>4, OwnStepKnown DEF Local
<1>3. CASE R!CheckUnsupported(c) \/ R!DropExpired(c) \/ R!Query(c) \/ R!Forget(c)
           \/ R!Store(c) \/ R!Exhausted(c) \/ R!Remember(c)
  <2>1. /\ pc[c] # "probe" /\ pc'[c] \notin {"probe", "query"}
        /\ DOMAIN pc' = Callers /\ DOMAIN trying' = Callers
        /\ \A d \in Callers \ {c} : pc'[d] = pc[d] /\ trying'[d] = trying[d]
        /\ capability' = capability /\ pending' \in [Callers -> SUBSET Bindings]
    BY <1>3 DEF R!CheckUnsupported, R!DropExpired, R!Query, R!Forget, R!Store, R!Exhausted, R!Remember,
       R!Return, R!Goto
  <2> QED BY <2>1, OwnStepKnown DEF Local
<1> QED BY <1>1, <1>2, <1>3 DEF Local

LEMMA CallKnown ==
  ASSUME Known, NEW c \in Callers, Call(c)
  PROVE  Known'
<1>1. /\ pc[c] # "probe" /\ pc'[c] = "check" /\ DOMAIN pc' = Callers /\ trying' = trying
      /\ \A d \in Callers \ {c} : pc'[d] = pc[d]
      /\ capability' \in [Callers -> Capabilities] /\ pending' = pending
  BY DEF Call, R!Start, R!Goto, R!Rest, Known, Shapes
<1> QED BY <1>1, OwnStepKnown DEF Call, Known, Shapes

LEMMA NextKnown == Known /\ [Next]_allVars => Known'
<1> SUFFICES ASSUME Known, [Next]_allVars PROVE Known'
  OBVIOUS
<1>1. ASSUME NEW c \in Callers, Call(c) \/ Run(c) PROVE Known'
  BY <1>1, AskKnown, LookingUpKnown, AnsweredKnown, LocalKnown, CallKnown DEF Run
<1>2. CASE EndpointsChange \/ Tick \/ UNCHANGED allVars
  <2>1. /\ pc' = pc /\ trying' = trying /\ capability' = capability /\ pending' = pending
        /\ at' = at /\ wanted' = wanted /\ descriptors' = descriptors
    BY <1>2 DEF EndpointsChange, Tick, R!Change, R!Tick, D!NodeChange, D!DTick, D!AgeLookups, allVars, resolver,
       client, R!callVars, D!lookupVars, D!knowledgeVars
  <2> QED BY <2>1 DEF Known, Shapes, ProbeFits, QueriedMethodIsKnown
<1> QED BY <1>1, <1>2 DEF Next

\* Between HasMethod and Query the descriptor of a method never goes away,
\* whatever other calls fetch and write (capability.go:139-155, grpc.go:309-319).
THEOREM QueriesAreKnown == Spec => []QueriedMethodIsKnown
<1>1. Known => QueriedMethodIsKnown
  BY DEF Known
<1> QED BY <1>1, InitKnown, NextKnown, PTL DEF Spec


-----------------------------------------------------------------------------
(* What is proved of the parts, said of the parts of Discovery.              *)

RP == INSTANCE ResolverProofs WITH reflected <- Present
DP == INSTANCE DescriptorCacheProofs WITH
         Lookups <- Callers, present <- Present, unwell <- trouble

LEMMA SameClient ==
  /\ (D!DInit <=> DP!DInit) /\ ([D!DNext]_(D!dvars) <=> [DP!DNext]_(DP!dvars))
  /\ (D!DTypeOK <=> DP!DTypeOK) /\ (D!DTypeOK' <=> DP!DTypeOK')
  /\ (D!Backed <=> DP!Backed) /\ (D!Backed' <=> DP!Backed')
  /\ DP!SymbolAssumption /\ DP!SymbolTimeAssumption /\ DP!SymbolNoneAssumption
  BY PartsAssumption
     DEF D!OldAbsence, DP!OldAbsence, D!LongPresent, DP!LongPresent, D!Settled, DP!Settled,
         D!Looking, DP!Looking, D!Aged, DP!Aged, D!Fresh, DP!Fresh, D!Contents, DP!Contents,
         D!SymbolOf, DP!SymbolOf, D!InitKnowledge, DP!InitKnowledge, D!DInit, DP!DInit, D!Move, DP!Move,
         D!Settle, DP!Settle, D!Verdict, DP!Verdict, D!HasMethod, DP!HasMethod, D!ReadMaps, DP!ReadMaps,
         D!Descriptor, DP!Descriptor, D!ReflectV1, DP!ReflectV1, D!ReflectV1alpha, DP!ReflectV1alpha,
         D!Build, DP!Build, D!RememberAbsent, DP!RememberAbsent, D!Lookup, DP!Lookup,
         D!NodeChange, DP!NodeChange, D!AgeLookups, DP!AgeLookups, D!DTick, DP!DTick, D!DNext, DP!DNext,
         D!dvars, DP!dvars, D!knowledgeVars, DP!knowledgeVars, D!lookupVars, DP!lookupVars,
         D!nodeVars, DP!nodeVars, D!agesVars, DP!agesVars, D!DTypeOK, DP!DTypeOK,
         D!LookupFits, DP!LookupFits, D!AbsentNow, DP!AbsentNow, D!DenialIsBacked, DP!DenialIsBacked,
         D!EntryIsBacked, DP!EntryIsBacked, D!Backed, DP!Backed, D!SymbolAssumption, DP!SymbolAssumption,
         D!SymbolTimeAssumption, DP!SymbolTimeAssumption,
         D!SymbolNoneAssumption, DP!SymbolNoneAssumption

LEMMA SameResolver ==
  /\ (R!Init <=> RP!Init) /\ ([R!Next]_(R!vars) <=> [RP!Next]_(RP!vars))
  /\ (R!TypeOK <=> RP!TypeOK) /\ (R!TypeOK' <=> RP!TypeOK')
  /\ RP!NoneAssumption /\ RP!TimeAssumption /\ RP!ProtocolAssumption /\ RP!PreferenceAssumption
  BY PartsAssumption
     DEF R!Rest, RP!Rest, R!Running, RP!Running, R!BindingsOf, RP!BindingsOf, R!Range, RP!Range,
         R!OldEntry, RP!OldEntry, R!Live, RP!Live, R!Older, RP!Older, R!Available, RP!Available,
         R!Serveable, RP!Serveable, R!Comes, RP!Comes, R!Foremost, RP!Foremost, R!Init, RP!Init,
         R!Goto, RP!Goto, R!Return, RP!Return, R!Start, RP!Start,
         R!CheckUnsupported, RP!CheckUnsupported, R!DropExpired, RP!DropExpired,
         R!CachedFirst, RP!CachedFirst, R!Attempt, RP!Attempt, R!Probed, RP!Probed,
         R!Unreflected, RP!Unreflected, R!ProbeFailed, RP!ProbeFailed, R!Probe, RP!Probe,
         R!Query, RP!Query, R!Forget, RP!Forget, R!Store, RP!Store, R!Exhausted, RP!Exhausted,
         R!Remember, RP!Remember, R!Resolve, RP!Resolve, R!Change, RP!Change, R!Tick, RP!Tick,
         R!Next, RP!Next, R!vars, RP!vars, R!resolverVars, RP!resolverVars, R!callVars, RP!callVars,
         R!endpointVars, RP!endpointVars, R!clockVars, RP!clockVars, R!TypeOK, RP!TypeOK,
         R!NoneAssumption, RP!NoneAssumption, R!TimeAssumption, RP!TimeAssumption,
         R!ProtocolAssumption, RP!ProtocolAssumption, R!PreferenceAssumption, RP!PreferenceAssumption

LEMMA InitParts == Init => R!TypeOK /\ D!DTypeOK /\ D!Backed
  BY SameClient, SameResolver, DP!InitType, DP!InitBacked, RP!InitType DEF Init

LEMMA ClientKept ==
  D!DTypeOK /\ D!Backed /\ [D!DNext]_(D!dvars) => D!DTypeOK' /\ D!Backed'
  BY SameClient, DP!NextType, DP!NextBacked

LEMMA ResolverKept == R!TypeOK /\ [R!Next]_(R!vars) => R!TypeOK'
  BY SameResolver, RP!NextType

\* Every step of Discovery is one of the client, or none.
LEMMA ClientStep ==
  ASSUME Known, [Next]_allVars
  PROVE  [D!DNext]_(D!dvars)
<1> USE DEF D!dvars, D!knowledgeVars, D!lookupVars, D!nodeVars, D!agesVars
<1>1. ASSUME UNCHANGED endpoints PROVE Present' = Present /\ UNCHANGED D!nodeVars
  BY <1>1 DEF endpoints, Present
<1>2. ASSUME NEW c \in Callers, Ask(c) PROVE D!DNext
  <2>1. trying[c] \in Methods /\ D!HasMethod(c, trying[c]) /\ UNCHANGED <<endpoints, presence>>
    BY <1>2 DEF Ask, Known, ProbeFits
  <2> QED BY <1>1, <2>1 DEF D!DNext
<1>3. ASSUME NEW c \in Callers, LookingUp(c) \/ Answered(c) PROVE D!DNext
  <2>1. D!Lookup(c) /\ UNCHANGED <<endpoints, presence>>
    BY <1>3 DEF LookingUp, Answered
  <2> QED BY <1>1, <2>1 DEF D!DNext
<1>4. CASE UNCHANGED <<client, endpoints>>
  BY <1>1, <1>4 DEF client, endpoints
<1>5. CASE EndpointsChange \/ Tick
  BY <1>5 DEF EndpointsChange, Tick, D!DNext
<1>6. ASSUME NEW c \in Callers, Local(c) \/ Call(c) PROVE UNCHANGED <<client, endpoints>>
  BY <1>6 DEF Local, Call
<1> QED BY <1>2, <1>3, <1>4, <1>5, <1>6 DEF Next, Run, allVars

\* So is it of the resolver, unless a lookup answers.
LEMMA ResolverStep ==
  ASSUME [Next]_allVars, \A c \in Callers : ~ Answered(c)
  PROVE  [R!Next]_(R!vars)
<1> USE DEF R!vars, R!resolverVars, R!callVars, R!endpointVars, R!clockVars
<1>1. ASSUME UNCHANGED endpoints PROVE Present' = Present /\ UNCHANGED R!endpointVars
  BY <1>1 DEF endpoints, Present
<1>2. ASSUME NEW c \in Callers, Local(c) PROVE R!Next
  <2>1. R!Resolve(c) /\ UNCHANGED endpoints
    BY <1>2 DEF Local, R!Resolve
  <2> QED BY <1>1, <2>1 DEF R!Next
<1>3. ASSUME NEW c \in Callers, Call(c) PROVE R!Next
  BY <1>1, <1>3 DEF Call, R!Next
<1>4. CASE UNCHANGED <<resolver, endpoints>>
  BY <1>1, <1>4 DEF resolver, endpoints
<1>5. CASE EndpointsChange \/ Tick
  BY <1>5 DEF EndpointsChange, Tick, R!Next
<1>6. ASSUME NEW c \in Callers, Ask(c) \/ LookingUp(c) PROVE UNCHANGED <<resolver, endpoints>>
  BY <1>6 DEF Ask, LookingUp
<1> QED BY <1>2, <1>3, <1>4, <1>5, <1>6 DEF Next, Run, allVars

\* The step of the resolver with which HasMethod returns.
LEMMA AnsweredStep ==
  ASSUME NEW c \in Callers, Answered(c)
  PROVE  /\ \/ at'[c] = "has" /\ R!Probed(c, TRUE)
            \/ at'[c] = "lacks" /\ R!Probed(c, FALSE)
            \/ at'[c] = "unreflected" /\ R!Unreflected(c)
            \/ at'[c] = "broken" /\ R!ProbeFailed(c)
         /\ D!Lookup(c)
         /\ UNCHANGED <<served, trouble, presence>>
         /\ Present' = Present
  BY DEF Answered, endpoints, Present

LEMMA AnsweredType ==
  ASSUME R!TypeOK, NEW c \in Callers, Answered(c)
  PROVE  R!TypeOK'
<1> USE AnsweredStep, PartsAssumption
    DEF R!TypeOK, R!Goto, R!Running, R!Rest, R!resolverVars, R!clockVars, R!NoneAssumption, R!TimeAssumption
<1>1. CASE R!Probed(c, TRUE) \/ R!Probed(c, FALSE)
  BY <1>1 DEF R!Probed
<1>2. CASE R!Unreflected(c)
  BY <1>2 DEF R!Unreflected
<1>3. CASE R!ProbeFailed(c)
  <2>1. /\ pc' = [pc EXCEPT ![c] = "failed"] /\ argument' = [argument EXCEPT ![c] = None]
        /\ lead' = [lead EXCEPT ![c] = None] /\ pending' = [pending EXCEPT ![c] = {}]
        /\ trying' = [trying EXCEPT ![c] = None] /\ discovery' = [discovery EXCEPT ![c] = FALSE]
        /\ elapsed' = [elapsed EXCEPT ![c] = 0]
        /\ UNCHANGED <<cache, unsupported, capability, absence>>
    BY <1>3 DEF R!ProbeFailed, R!Return
  <2>2. UNCHANGED <<served, trouble>> /\ Present' = Present
    OBVIOUS
  <2>3. pc' \in [Callers -> R!Rest \cup R!Running] /\ discovery' \in [Callers -> BOOLEAN]
        /\ elapsed' \in [Callers -> 0 .. Budget]
    BY <2>1
  <2>4. /\ argument' \in [Callers -> Arguments \cup {None}] /\ lead' \in [Callers -> Bindings \cup {None}]
        /\ pending' \in [Callers -> SUBSET Bindings] /\ trying' \in [Callers -> Bindings \cup {None}]
    BY <2>1
  <2> QED BY <2>1, <2>2, <2>3, <2>4
<1> QED BY <1>1, <1>2, <1>3

\* A lookup starts with its clock at zero, after its call.
ClocksFit ==
    \A c \in Callers : IF at[c] \in D!Looking THEN waited[c] <= elapsed[c] ELSE waited[c] = 0

Types == R!TypeOK /\ D!DTypeOK /\ D!Backed /\ Known

LEMMA NextTypes == Types /\ [Next]_allVars => Types'
<1> SUFFICES ASSUME Types, [Next]_allVars PROVE Types'
  OBVIOUS
<1>1. D!DTypeOK' /\ D!Backed' /\ Known'
  BY ClientStep, ClientKept, NextKnown DEF Types
<1>2. R!TypeOK'
  BY ResolverStep, ResolverKept, AnsweredType DEF Types
<1> QED BY <1>1, <1>2 DEF Types

LEMMA NextClocks ==
  ASSUME Types, ClocksFit, [Next]_allVars
  PROVE  ClocksFit'
<1> USE DEF Types, R!TypeOK, D!DTypeOK, Known, ClocksFit
<1>1. ASSUME NEW c \in Callers, Ask(c) PROVE ClocksFit'
  BY <1>1, PartsAssumption DEF Ask, D!HasMethod, D!Move, D!Settled, D!Looking, resolver, R!TimeAssumption
<1>2. ASSUME NEW c \in Callers, LookingUp(c) PROVE ClocksFit'
  <2>1. waited' = waited
    BY <1>2 DEF LookingUp, D!Lookup, D!ReadMaps, D!ReflectV1, D!ReflectV1alpha, D!Descriptor, D!Build,
       D!RememberAbsent, D!Settle, D!Move, D!Verdict, D!Looking
  <2> QED BY <1>2, <2>1, LookupMoves, LookupAsks DEF LookingUp, resolver
<1>3. ASSUME NEW c \in Callers, Answered(c) PROVE ClocksFit'
  <2>1. at'[c] \notin D!Looking /\ waited' = [waited EXCEPT ![c] = 0]
    BY <1>3 DEF Answered, D!Lookup, D!ReadMaps, D!ReflectV1, D!ReflectV1alpha, D!Descriptor, D!Build,
       D!RememberAbsent, D!Settle, D!Move, D!Verdict, D!Looking
  <2>2. \A d \in Callers \ {c} : elapsed'[d] = elapsed[d]
    BY <1>3, AnsweredStep DEF R!Probed, R!Unreflected, R!ProbeFailed, R!Return, R!clockVars
  <2> QED BY <1>3, <2>1, <2>2, LookupMoves DEF Answered
<1>4. ASSUME NEW c \in Callers, Local(c) \/ Call(c) PROVE ClocksFit'
  <2>1. at' = at /\ waited' = waited
    BY <1>4 DEF Local, Call, client
  <2>2. at[c] \notin D!Looking
    BY <1>4 DEF Local, Call, ProbeFits, R!Rest, R!Start, R!CheckUnsupported, R!DropExpired, R!CachedFirst, R!Attempt,
       R!Query, R!Forget, R!Store, R!Exhausted, R!Remember
  <2>3. \A d \in Callers \ {c} : elapsed'[d] = elapsed[d]
    BY <1>4 DEF Local, Call, R!Start, R!CheckUnsupported, R!DropExpired, R!CachedFirst, R!Attempt,
       R!Query, R!Forget, R!Store, R!Exhausted, R!Remember, R!Return, R!clockVars
  <2> QED BY <2>1, <2>2, <2>3
<1>5. CASE Tick
  <2>1. /\ at' = at /\ waited' = [c \in Callers |-> IF at[c] \in D!Looking THEN waited[c] + 1 ELSE 0]
        /\ elapsed' = [c \in Callers |-> IF pc[c] \in R!Running THEN elapsed[c] + 1 ELSE 0]
    BY <1>5 DEF Tick, R!Tick, D!DTick, D!AgeLookups, D!lookupVars
  <2>2. \A c \in Callers : at[c] \in D!Looking => pc[c] \in R!Running
    BY DEF ProbeFits, R!Running
  <2> QED BY <2>1, <2>2, PartsAssumption DEF R!TimeAssumption, D!SymbolTimeAssumption
<1>6. CASE EndpointsChange \/ UNCHANGED allVars
  BY <1>6 DEF EndpointsChange, R!Change, D!NodeChange, D!lookupVars, allVars, resolver, client
<1> QED BY <1>1, <1>2, <1>3, <1>4, <1>5, <1>6 DEF Next, Run

\* Resolver and client keep their types on top of each other, and a lookup runs
\* inside the probe of its call (capability.go:139-150, grpc.go:74-90).
THEOREM PartsFit == Spec => []TypeOK
<1>1. Init => Types /\ ClocksFit
  BY InitParts, InitKnown DEF Types, ClocksFit, Init, D!DInit, D!InitKnowledge, D!Looking
<1>2. Types /\ ClocksFit => TypeOK
  BY DEF Types, ClocksFit, TypeOK, Known, ProbeFits
<1> QED BY <1>1, <1>2, NextTypes, NextClocks, PTL DEF Spec

-----------------------------------------------------------------------------
(* Resolve keeps its promise on top of the descriptor cache.  First the      *)
(* evidence that makes it so: what the resolver remembers rests on what the  *)
(* client remembers, and that on the node.                                   *)

LEMMA Times ==
  /\ TTL \in Nat /\ Budget \in Nat /\ Horizon \in Nat /\ SymbolTTL \in Nat /\ Timeout \in Nat
  /\ Slack \in Nat /\ D!LongPresent = Slack + 1 /\ None \notin Nat /\ None \notin Bindings
  /\ Staleness = TTL + Budget + Slack /\ R!OldEntry = TTL + 1
  BY PartsAssumption DEF R!TimeAssumption, D!SymbolTimeAssumption, R!NoneAssumption, Slack,
     D!LongPresent, Staleness, R!OldEntry

LEMMA RouteType == \A k \in Capabilities : R!BindingsOf(k) \subseteq Bindings
<1> SUFFICES ASSUME NEW k \in Capabilities PROVE R!BindingsOf(k) \subseteq Bindings
  OBVIOUS
<1>1. Preference[k] \in Seq(Bindings)
  BY PartsAssumption DEF R!PreferenceAssumption
<1>2. \A i \in DOMAIN Preference[k] : Preference[k][i] \in Bindings
  BY <1>1
<1> QED BY <1>2 DEF R!BindingsOf, R!Range

-----------------------------------------------------------------------------
(* What the client forgets and what it does not.                             *)

\* A descriptor that is there stays, so what it hides stays hidden.
LEMMA HiddenGrows ==
  ASSUME Types, [Next]_allVars
  PROVE  Hidden \subseteq Hidden'
<1>1. DP!DTypeOK /\ [DP!DNext]_(DP!dvars)
  BY ClientStep, SameClient DEF Types
<1>2. \A s \in Symbols : descriptors[s] # {} => descriptors'[s] = descriptors[s]
  BY <1>1, SameClient, DP!DescriptorStays
<1> QED BY <1>2, ServiceType DEF Hidden

\* HasMethod says no of a method that is hidden, or whose service was absent.
LEMMA LacksIsExcused ==
  ASSUME Types, ServiceComesFirst, NEW c \in Callers, Answered(c), at'[c] = "lacks",
         NEW a \in Arguments
  PROVE  absence[trying[c]][a] <= Slack \/ trying[c] \in Hidden'
<1> DEFINE m == trying[c]
<1>1. /\ at[c] \in D!Looking /\ wanted[c] = m /\ m \in Methods /\ D!SymbolOf(c) = ServiceOf[m]
      /\ ServiceOf[m] \in Symbols
  BY LookupAsks DEF Answered, Types
<1>2. [DP!DNext]_(DP!dvars) /\ DP!DTypeOK /\ DP!Backed
  BY ClientStep, SameClient DEF Types, Next, Run
<1>3. DP!Settles(c, "lacks") /\ DP!SymbolOf(c) = ServiceOf[m]
  BY <1>1 DEF DP!Settles, DP!Looking, D!Looking, DP!SymbolOf, D!SymbolOf
<1>4. \/ descriptors'[ServiceOf[m]] # {} /\ m \notin descriptors'[ServiceOf[m]]
      \/ presence[ServiceOf[m]] <= SymbolTTL + Timeout
  BY <1>1, <1>2, <1>3, SameClient, DP!DenyingStep
<1>5. CASE presence[ServiceOf[m]] <= SymbolTTL + Timeout
  <2>1. presence[ServiceOf[m]] \in Nat /\ presence[ServiceOf[m]] < D!LongPresent
    BY <1>1, <1>5, Times DEF Types, D!DTypeOK, Slack
  <2>2. absence[m][a] <= presence[ServiceOf[m]] /\ absence[m][a] \in Nat
    BY <1>1, <2>1, Times DEF ServiceComesFirst, Types, R!TypeOK, Methods
  <2> QED BY <1>5, <2>1, <2>2, Times DEF Slack
<1>6. CASE descriptors'[ServiceOf[m]] # {} /\ m \notin descriptors'[ServiceOf[m]]
  BY <1>1, <1>6 DEF Hidden
<1> QED BY <1>4, <1>5, <1>6

-----------------------------------------------------------------------------
(* The evidence, one call and one entry at a time.                           *)

LocalFits(c) ==
    /\ pc[c] \in R!Running => argument[c] \in Arguments
    /\ IF pc[c] \in R!Trying THEN trying[c] \in R!BindingsOf(capability[c]) ELSE trying[c] = None
    /\ pc[c] = "probe" => Protocol[trying[c]] = "grpc"
    /\ pc[c] \in R!Rest \cup {"check", "expire", "order", "remember"}
          => ~discovery[c] /\ pending[c] = {}
    /\ pending[c] \subseteq R!BindingsOf(capability[c])

AttemptFits(c) ==
    /\ pc[c] \in R!Trying \cup {"loop", "remember"} /\ ~discovery[c]
          => \A b \in R!Attempted(c) : Excused(b, argument[c], elapsed[c] + Slack)
    /\ pc[c] = "forget" => Excused(trying[c], argument[c], elapsed[c] + Slack)

EntryFits(k) ==
    R!Live(unsupported[k])
       => \E a \in Arguments : \A b \in R!BindingsOf(k) : Excused(b, a, unsupported[k] + Budget + Slack)

LEMMA EvidenceOfEach ==
  Evidence <=> /\ \A c \in Callers : LocalFits(c) /\ AttemptFits(c)
               /\ \A k \in Capabilities : EntryFits(k)
               /\ R!UnavailableIsRecorded /\ ServiceComesFirst
  BY DEF Evidence, R!LocalsFit, AttemptsAreExcused, EntryIsExcused, LocalFits, AttemptFits, EntryFits

\* The endpoints are as they were, and the client has not forgotten a descriptor.
Quiet == /\ UNCHANGED <<served, trouble, absence, presence>>
         /\ Present' = Present
         /\ Hidden \subseteq Hidden'

LEMMA ExcusedStays ==
  ASSUME NEW b, NEW a, NEW age, NEW age2, Excused(b, a, age), Hidden \subseteq Hidden',
         absence'[b][a] <= absence[b][a] + (age2 - age),
         absence[b][a] \in Int, absence'[b][a] \in Int, age \in Int, age2 \in Int
  PROVE  absence'[b][a] <= age2 \/ b \in Hidden'
  BY DEF Excused

Same(d) == /\ pc'[d] = pc[d] /\ capability'[d] = capability[d] /\ argument'[d] = argument[d]
           /\ pending'[d] = pending[d] /\ trying'[d] = trying[d] /\ discovery'[d] = discovery[d]
           /\ elapsed'[d] = elapsed[d]

\* A call that stands still loses none of its evidence.
LEMMA SameKept ==
  ASSUME Types, Evidence, Quiet, NEW d \in Callers, Same(d)
  PROVE  LocalFits(d)' /\ AttemptFits(d)'
<1>1. LocalFits(d)'
  BY EvidenceOfEach DEF LocalFits, Same
<1>2. AttemptFits(d)'
  <2>1. R!Attempted(d)' = R!Attempted(d)
    BY DEF R!Attempted, Same
  <2> QED BY <2>1, EvidenceOfEach DEF AttemptFits, Same, Quiet, Excused
<1> QED BY <1>1, <1>2

\* A step of one call.
LEMMA QuietStep ==
  ASSUME Types, Evidence, Quiet, NEW c \in Callers, \A d \in Callers \ {c} : Same(d),
         LocalFits(c)', AttemptFits(c)',
         \A k \in Capabilities : unsupported'[k] \in {unsupported[k], None} \/ EntryFits(k)'
  PROVE  Evidence'
<1>1. \A d \in Callers : LocalFits(d)' /\ AttemptFits(d)'
  BY SameKept
<1>2. R!UnavailableIsRecorded' /\ ServiceComesFirst'
  BY EvidenceOfEach DEF R!UnavailableIsRecorded, R!Available, ServiceComesFirst, Quiet
<1>3. ASSUME NEW k \in Capabilities PROVE EntryFits(k)'
  <2>1. CASE unsupported'[k] = unsupported[k]
    BY <2>1, EvidenceOfEach DEF EntryFits, Excused, Quiet
  <2>2. CASE unsupported'[k] = None
    BY <2>2, Times DEF EntryFits, R!Live
  <2> QED BY <2>1, <2>2
<1> QED BY <1>1, <1>2, <1>3 DEF Evidence, R!LocalsFit, AttemptsAreExcused, EntryIsExcused, LocalFits, AttemptFits, EntryFits

\* A call that returns has nothing left to account for.
LEMMA ReturnFits ==
  ASSUME R!TypeOK, Evidence, NEW c \in Callers, NEW label \in R!Rest, R!Return(c, label)
  PROVE  LocalFits(c)' /\ AttemptFits(c)' /\ \A d \in Callers \ {c} : Same(d)
<1>1. /\ pc'[c] = label /\ trying'[c] = None /\ discovery'[c] = FALSE /\ pending'[c] = {}
      /\ label \notin R!Running /\ label \notin R!Trying
      /\ label \notin {"loop", "remember", "forget", "probe"}
  BY DEF R!TypeOK, R!Return, R!Goto, R!Rest, R!Running, R!Trying
<1>2. \A d \in Callers \ {c} : Same(d)
  BY DEF R!TypeOK, R!Return, R!Goto, Same
<1>3. LocalFits(c)'
  BY <1>1 DEF LocalFits
<1>4. AttemptFits(c)'
  BY <1>1 DEF AttemptFits
<1> QED BY <1>2, <1>3, <1>4

-----------------------------------------------------------------------------
(* The steps of a call keep the evidence.                                    *)

\* A step of a call leaves the endpoints alone.
LEMMA CallsAreQuiet ==
  ASSUME Types, [Next]_allVars, NEW c \in Callers, Call(c) \/ Run(c)
  PROVE  Quiet
<1>1. UNCHANGED <<served, trouble, presence>>
  BY DEF Call, Run, Ask, LookingUp, Answered, Local, client, endpoints
<1>2. UNCHANGED absence
  BY DEF Call, Run, Ask, LookingUp, Answered, Local, resolver, R!Start, R!CheckUnsupported, R!DropExpired,
     R!CachedFirst, R!Attempt, R!Query, R!Forget, R!Store, R!Exhausted, R!Remember, R!Probed, R!Unreflected,
     R!ProbeFailed, R!Return, R!clockVars
<1> QED BY <1>1, <1>2, HiddenGrows DEF Quiet, Present

LEMMA AskEvidence ==
  ASSUME Types, Evidence, Quiet, NEW c \in Callers, Ask(c) \/ LookingUp(c)
  PROVE  Evidence'
<1>1. UNCHANGED resolver
  BY DEF Ask, LookingUp
<1>2. UNCHANGED unsupported /\ \A d \in Callers : Same(d)
  BY <1>1 DEF resolver, Same
<1> QED BY <1>2, SameKept, QuietStep

\* HasMethod returns: no is excused by what the client knows.
LEMMA AnsweredEvidence ==
  ASSUME Types, Evidence, Quiet, NEW c \in Callers, Answered(c)
  PROVE  Evidence'
<1> USE DEF Types, R!TypeOK, R!Goto, R!resolverVars, R!clockVars
<1>1. LocalFits(c) /\ AttemptFits(c)
  BY EvidenceOfEach
<1>2. CASE at'[c] = "has" /\ R!Probed(c, TRUE)
  <2>1. /\ pc[c] = "probe" /\ pc'[c] = "query" /\ UNCHANGED unsupported
        /\ UNCHANGED <<capability, argument, pending, trying, discovery, elapsed>>
        /\ \A d \in Callers \ {c} : Same(d)
    BY <1>2 DEF R!Probed, Same
  <2>2. LocalFits(c)'
    BY <1>1, <2>1 DEF LocalFits, R!Rest, R!Running, R!Trying
  <2>3. AttemptFits(c)'
    BY <1>1, <2>1 DEF AttemptFits, R!Attempted, R!Trying, Excused, Quiet
  <2> QED BY <2>1, <2>2, <2>3, QuietStep
<1>3. CASE at'[c] = "lacks" /\ R!Probed(c, FALSE)
  <2>1. /\ pc[c] = "probe" /\ pc'[c] = "forget" /\ UNCHANGED unsupported
        /\ UNCHANGED <<capability, argument, pending, trying, discovery, elapsed>>
        /\ \A d \in Callers \ {c} : Same(d)
    BY <1>3 DEF R!Probed, Same
  <2>2. argument[c] \in Arguments /\ trying[c] \in R!BindingsOf(capability[c])
    BY <1>1, <2>1 DEF LocalFits, R!Running, R!Trying
  <2>3. LocalFits(c)'
    BY <1>1, <2>1 DEF LocalFits, R!Rest, R!Running, R!Trying
  <2>4. absence[trying[c]][argument[c]] <= Slack \/ trying[c] \in Hidden'
    BY <1>3, <2>2, EvidenceOfEach, LacksIsExcused
  <2>5. /\ absence[trying[c]][argument[c]] \in Nat /\ elapsed[c] \in Nat
    BY <2>2, RouteType, Times
  <2>6. Excused(trying[c], argument[c], elapsed[c] + Slack)'
    BY <2>1, <2>4, <2>5, Times DEF Excused, Quiet
  <2>7. AttemptFits(c)'
    BY <1>1, <2>1, <2>6 DEF AttemptFits, R!Attempted, R!Trying, Excused, Quiet
  <2> QED BY <2>1, <2>3, <2>7, QuietStep
<1>4. CASE R!Unreflected(c)
  <2>1. /\ pc[c] = "probe" /\ pc'[c] = "loop" /\ discovery'[c] = TRUE /\ trying'[c] = None
        /\ UNCHANGED <<unsupported, capability, argument, pending, elapsed>>
        /\ \A d \in Callers \ {c} : Same(d)
    BY <1>4 DEF R!Unreflected, Same
  <2>2. LocalFits(c)' /\ AttemptFits(c)'
    BY <1>1, <2>1 DEF LocalFits, AttemptFits, R!Rest, R!Running, R!Trying
  <2> QED BY <2>1, <2>2, QuietStep
<1>5. CASE R!ProbeFailed(c)
  <2>1. R!Return(c, "failed") /\ UNCHANGED unsupported
    BY <1>5 DEF R!ProbeFailed
  <2> QED BY <2>1, ReturnFits, QuietStep DEF R!Rest
<1> QED BY <1>2, <1>3, <1>4, <1>5 DEF Answered

LEMMA CallEvidence ==
  ASSUME Types, Evidence, Quiet, NEW c \in Callers, Call(c)
  PROVE  Evidence'
<1>1. PICK k \in Capabilities, a \in Arguments : R!Start(c, k, a)
  BY DEF Call
<1>2. /\ pc[c] \in R!Rest /\ pc'[c] = "check" /\ argument'[c] = a /\ UNCHANGED unsupported
      /\ UNCHANGED <<pending, trying, discovery, elapsed>>
      /\ \A d \in Callers \ {c} : Same(d)
  BY <1>1 DEF Types, R!TypeOK, R!Start, R!Goto, R!resolverVars, R!clockVars, Same
<1>3. LocalFits(c)' /\ AttemptFits(c)'
  BY <1>2, EvidenceOfEach DEF LocalFits, AttemptFits, R!Rest, R!Running, R!Trying
<1> QED BY <1>2, <1>3, QuietStep

\* A call with nothing left to try has evidence for all bindings of its capability.
LEMMA AllAttempted ==
  ASSUME Types, Evidence, NEW c \in Callers, pc[c] \in {"loop", "remember"}, pending[c] = {}, ~discovery[c]
  PROVE  /\ argument[c] \in Arguments
         /\ \A b \in R!BindingsOf(capability[c]) : Excused(b, argument[c], Budget + Slack)
<1>1. LocalFits(c) /\ AttemptFits(c)
  BY EvidenceOfEach
<1>2. argument[c] \in Arguments /\ trying[c] = None
  BY <1>1 DEF LocalFits, R!Running, R!Trying
<1>3. R!Attempted(c) = R!BindingsOf(capability[c])
  BY <1>2, RouteType, Times DEF R!Attempted, Types, R!TypeOK
<1>4. \A b \in R!BindingsOf(capability[c]) : Excused(b, argument[c], elapsed[c] + Slack)
  BY <1>1, <1>3 DEF AttemptFits
<1>5. \A b \in R!BindingsOf(capability[c]) :
         absence[b][argument[c]] \in Nat /\ elapsed[c] \in Nat /\ elapsed[c] <= Budget
  BY <1>2, RouteType, Times DEF Types, R!TypeOK
<1> QED BY <1>2, <1>4, <1>5, Times DEF Excused

LEMMA LocalEvidence ==
  ASSUME Types, Evidence, Quiet, NEW c \in Callers, Local(c)
  PROVE  Evidence'
<1> USE DEF Types, R!TypeOK, R!Goto, R!resolverVars, R!clockVars
<1>1. LocalFits(c) /\ AttemptFits(c)
  BY EvidenceOfEach
<1>2. CASE R!CheckUnsupported(c)
  <2>1. CASE R!Return(c, "denied")
    BY <1>2, <2>1, ReturnFits, QuietStep DEF R!CheckUnsupported, R!Rest
  <2>2. CASE ~ R!Return(c, "denied")
    <3>1. /\ pc[c] = "check" /\ pc'[c] \in {"order", "expire"}
          /\ UNCHANGED <<unsupported, capability, argument, pending, trying, discovery, elapsed>>
          /\ \A d \in Callers \ {c} : Same(d)
      BY <1>2, <2>2 DEF R!CheckUnsupported, Same
    <3>2. LocalFits(c)' /\ AttemptFits(c)'
      BY <1>1, <3>1 DEF LocalFits, AttemptFits, R!Rest, R!Running, R!Trying
    <3> QED BY <3>1, <3>2, QuietStep
  <2> QED BY <2>1, <2>2
<1>3. CASE R!DropExpired(c)
  <2>1. /\ pc[c] = "expire" /\ pc'[c] = "order"
        /\ UNCHANGED <<capability, argument, pending, trying, discovery, elapsed>>
        /\ \A d \in Callers \ {c} : Same(d)
        /\ \A k \in Capabilities : unsupported'[k] \in {unsupported[k], None}
    BY <1>3 DEF R!DropExpired, Same
  <2>2. LocalFits(c)' /\ AttemptFits(c)'
    BY <1>1, <2>1 DEF LocalFits, AttemptFits, R!Rest, R!Running, R!Trying
  <2> QED BY <2>1, <2>2, QuietStep
<1>4. CASE R!CachedFirst(c)
  <2>1. /\ pc[c] = "order" /\ pc'[c] = "loop" /\ pending'[c] = R!BindingsOf(capability[c])
        /\ UNCHANGED <<unsupported, capability, argument, trying, discovery, elapsed>>
        /\ \A d \in Callers \ {c} : Same(d)
    BY <1>4, RouteType DEF R!CachedFirst, Same
  <2>2. LocalFits(c)' /\ AttemptFits(c)'
    BY <1>1, <2>1 DEF LocalFits, AttemptFits, R!Attempted, R!Rest, R!Running, R!Trying
  <2> QED BY <2>1, <2>2, QuietStep
<1>5. CASE R!Attempt(c)
  <2>1. PICK b \in R!Foremost(c) :
           /\ trying' = [trying EXCEPT ![c] = b]
           /\ pending' = [pending EXCEPT ![c] = @ \ {b}]
           /\ R!Goto(c, IF Protocol[b] \notin Configured THEN "forget"
                        ELSE IF Protocol[b] = "grpc" THEN "probe" ELSE "query")
    BY <1>5 DEF R!Attempt
  <2>2. b \in pending[c] /\ b \in R!BindingsOf(capability[c]) /\ b \in Bindings
    BY <1>1, RouteType DEF R!Foremost, LocalFits
  <2>3. /\ pc[c] = "loop" /\ pc'[c] \in {"forget", "probe", "query"}
        /\ pc'[c] = "forget" => Protocol[b] \notin Configured
        /\ pc'[c] = "probe" => Protocol[b] = "grpc"
        /\ trying'[c] = b /\ pending'[c] = pending[c] \ {b}
        /\ UNCHANGED <<unsupported, capability, argument, discovery, elapsed>>
        /\ \A d \in Callers \ {c} : Same(d)
    BY <1>5, <2>1, <2>2 DEF R!Attempt, Same
  <2>4. argument[c] \in Arguments /\ trying[c] = None
    BY <1>1, <2>3 DEF LocalFits, R!Running, R!Trying
  <2>5. LocalFits(c)'
    BY <1>1, <2>2, <2>3 DEF LocalFits, R!Rest, R!Running, R!Trying
  <2>6. R!Attempted(c)' = R!Attempted(c)
    BY <2>2, <2>3, <2>4, RouteType, Times DEF R!Attempted
  <2>7. pc'[c] = "forget" => absence'[b][argument[c]] <= elapsed[c] + Slack
    BY <2>2, <2>3, <2>4, EvidenceOfEach, Times DEF R!UnavailableIsRecorded, R!Available, Quiet
  <2>8. AttemptFits(c)'
    BY <1>1, <2>3, <2>6, <2>7 DEF AttemptFits, R!Trying, Excused, Quiet
  <2> QED BY <2>3, <2>5, <2>8, QuietStep
<1>6. CASE R!Query(c)
  <2>1. CASE R!Return(c, "failed")
    BY <1>6, <2>1, ReturnFits, QuietStep DEF R!Query, R!Rest
  <2>2. CASE ~ R!Return(c, "failed")
    <3>1. /\ pc[c] = "query"
          /\ \/ pc'[c] = "store"
             \/ pc'[c] = "forget" /\ argument[c] \notin served[trying[c]]
          /\ UNCHANGED <<unsupported, capability, argument, pending, trying, discovery, elapsed>>
          /\ \A d \in Callers \ {c} : Same(d)
      BY <1>6, <2>2 DEF R!Query, Same
    <3>2. argument[c] \in Arguments /\ trying[c] \in Bindings
      BY <1>1, <3>1, RouteType DEF LocalFits, R!Running, R!Trying
    <3>3. pc'[c] = "forget" => absence'[trying[c]][argument[c]] <= elapsed[c] + Slack
      BY <3>1, <3>2, EvidenceOfEach, Times DEF R!UnavailableIsRecorded, R!Available, Quiet
    <3>4. LocalFits(c)'
      BY <1>1, <3>1 DEF LocalFits, R!Rest, R!Running, R!Trying
    <3>5. AttemptFits(c)'
      BY <1>1, <3>1, <3>3 DEF AttemptFits, R!Attempted, R!Trying, Excused, Quiet
    <3> QED BY <3>1, <3>4, <3>5, QuietStep
  <2> QED BY <2>1, <2>2
<1>7. CASE R!Forget(c)
  <2>1. /\ pc[c] = "forget" /\ pc'[c] = "loop" /\ trying'[c] = None
        /\ UNCHANGED <<unsupported, capability, argument, pending, discovery, elapsed>>
        /\ \A d \in Callers \ {c} : Same(d)
    BY <1>7 DEF R!Forget, Same
  <2>2. R!Attempted(c)' \subseteq R!Attempted(c) \cup {trying[c]}
    BY <2>1 DEF R!Attempted
  <2>3. LocalFits(c)'
    BY <1>1, <2>1 DEF LocalFits, R!Rest, R!Running, R!Trying
  <2>4. AttemptFits(c)'
    BY <1>1, <2>1, <2>2 DEF AttemptFits, R!Trying, Excused, Quiet
  <2> QED BY <2>1, <2>3, <2>4, QuietStep
<1>8. CASE R!Store(c)
  <2>1. R!Return(c, "answered") /\ \A k \in Capabilities : unsupported'[k] \in {unsupported[k], None}
    BY <1>8 DEF R!Store
  <2> QED BY <2>1, ReturnFits, QuietStep DEF R!Rest
<1>9. CASE R!Exhausted(c)
  <2>1. CASE R!Return(c, "undiscovered")
    BY <1>9, <2>1, ReturnFits, QuietStep DEF R!Exhausted, R!Rest
  <2>2. CASE ~ R!Return(c, "undiscovered")
    <3>1. /\ pc[c] = "loop" /\ pc'[c] = "remember" /\ pending[c] = {} /\ ~discovery[c]
          /\ UNCHANGED <<unsupported, capability, argument, pending, trying, discovery, elapsed>>
          /\ \A d \in Callers \ {c} : Same(d)
      BY <1>9, <2>2 DEF R!Exhausted, Same
    <3>2. LocalFits(c)'
      BY <1>1, <3>1 DEF LocalFits, R!Rest, R!Running, R!Trying
    <3>3. AttemptFits(c)'
      BY <1>1, <3>1 DEF AttemptFits, R!Attempted, R!Trying, Excused, Quiet
    <3> QED BY <3>1, <3>2, <3>3, QuietStep
  <2> QED BY <2>1, <2>2
<1>10. CASE R!Remember(c)
  <2>1. R!Return(c, "unsupported") /\ unsupported' = [unsupported EXCEPT ![capability[c]] = 0]
    BY <1>10 DEF R!Remember
  <2>2. pc[c] = "remember" /\ pending[c] = {} /\ ~discovery[c]
    BY <1>1, <1>10 DEF R!Remember, LocalFits
  <2>3. ASSUME NEW k \in Capabilities, k = capability[c] PROVE EntryFits(k)'
    <3>1. unsupported'[k] = 0
      BY <2>1, <2>3
    <3>2. PICK a \in Arguments : \A b \in R!BindingsOf(k) : Excused(b, a, Budget + Slack)
      BY <2>2, <2>3, AllAttempted
    <3>3. \A b \in R!BindingsOf(k) : Excused(b, a, Budget + Slack)'
      BY <3>2 DEF Excused, Quiet
    <3>4. \A b \in R!BindingsOf(k) : Excused(b, a, unsupported[k] + Budget + Slack)'
      BY <3>1, <3>3, Times
    <3> QED BY <3>4 DEF EntryFits
  <2>4. \A k \in Capabilities : unsupported'[k] = unsupported[k] \/ k = capability[c]
    BY <2>1
  <2> QED BY <2>1, <2>3, <2>4, ReturnFits, QuietStep DEF R!Rest
<1> QED BY <1>2, <1>3, <1>4, <1>5, <1>6, <1>7, <1>8, <1>9, <1>10 DEF Local

-----------------------------------------------------------------------------
(* The world and the clock keep the evidence.                                *)

\* A method that can be had has a service that is there.
LEMMA ServiceIsThere ==
  ASSUME NEW m \in Methods, NEW a \in Arguments, R!Available(m, a)
  PROVE  D!Contents(ServiceOf[m], Present) # {}
  BY DEF R!Available, Present, D!Contents

LEMMA ServiceWillBeThere ==
  ASSUME NEW m \in Methods, NEW a \in Arguments, R!Available(m, a)'
  PROVE  D!Contents(ServiceOf[m], Present') # {}
  BY DEF R!Available, Present, D!Contents

LEMMA ChangeEvidence ==
  ASSUME Types, Evidence, EndpointsChange
  PROVE  Evidence'
<1>1. /\ UNCHANGED <<cache, unsupported, pc, capability, argument, lead, pending, trying, discovery, elapsed,
                     descriptors>>
      /\ absence' = [b \in Bindings |-> [a \in Arguments |->
                        IF R!Available(b, a)' THEN absence[b][a] ELSE 0]]
      /\ presence' = [s \in Symbols |-> IF D!Contents(s, Present') = {} THEN 0 ELSE presence[s]]
  BY DEF EndpointsChange, R!Change, D!NodeChange, R!resolverVars, R!callVars, D!knowledgeVars
<1>2. \A b \in Bindings, a \in Arguments :
         /\ absence[b][a] \in Nat /\ absence'[b][a] <= absence[b][a] /\ absence'[b][a] \in Nat
         /\ ~ R!Available(b, a)' => absence'[b][a] = 0
  BY <1>1, Times DEF Types, R!TypeOK
<1>3. Hidden' = Hidden
  BY <1>1 DEF Hidden
<1>4. ASSUME NEW c \in Callers PROVE LocalFits(c)' /\ AttemptFits(c)'
  <2>1. LocalFits(c) /\ AttemptFits(c)
    BY EvidenceOfEach
  <2>2. LocalFits(c)'
    BY <1>1, <2>1 DEF LocalFits
  <2>3. R!Attempted(c)' = R!Attempted(c) /\ R!Attempted(c) \subseteq Bindings
    BY <1>1, RouteType DEF R!Attempted, Types, R!TypeOK
  <2>4. elapsed[c] + Slack \in Nat
    BY Times DEF Types, R!TypeOK
  <2>5. pc[c] \in R!Trying \cup {"loop", "remember"} => argument[c] \in Arguments
    BY <2>1 DEF LocalFits, R!Running, R!Trying
  <2>6. pc[c] = "forget" => trying[c] \in Bindings
    BY <2>1, RouteType DEF LocalFits, R!Trying, Types, R!TypeOK
  <2>7. \A b \in Bindings, a \in Arguments :
           Excused(b, a, elapsed[c] + Slack) => absence'[b][a] <= elapsed[c] + Slack \/ b \in Hidden'
    BY <1>2, <1>3, <2>4 DEF Excused
  <2>8. AttemptFits(c)'
    BY <1>1, <2>1, <2>3, <2>5, <2>6, <2>7 DEF AttemptFits, R!Trying, Excused
  <2> QED BY <2>2, <2>8
<1>5. ASSUME NEW k \in Capabilities PROVE EntryFits(k)'
  <2>1. SUFFICES ASSUME R!Live(unsupported[k])
                 PROVE  \E a \in Arguments : \A b \in R!BindingsOf(k) :
                           Excused(b, a, unsupported[k] + Budget + Slack)'
    BY <1>1 DEF EntryFits
  <2>2. PICK a \in Arguments : \A b \in R!BindingsOf(k) : Excused(b, a, unsupported[k] + Budget + Slack)
    BY <2>1, EvidenceOfEach DEF EntryFits
  <2>3. unsupported[k] + Budget + Slack \in Nat
    BY <2>1, Times DEF R!Live
  <2>4. \A b \in R!BindingsOf(k) : absence'[b][a] <= unsupported[k] + Budget + Slack \/ b \in Hidden'
    BY <1>2, <1>3, <2>2, <2>3, RouteType DEF Excused
  <2> QED BY <1>1, <2>4 DEF Excused
<1>6. R!UnavailableIsRecorded'
  BY <1>2 DEF R!UnavailableIsRecorded
<1>7. ServiceComesFirst'
  <2>1. SUFFICES ASSUME NEW m \in Methods, NEW a \in Arguments, presence'[ServiceOf[m]] < D!LongPresent
                 PROVE  absence'[m][a] <= presence'[ServiceOf[m]]
    BY DEF ServiceComesFirst, D!LongPresent
  <2>2. m \in Bindings /\ ServiceOf[m] \in Symbols
    BY ServiceType DEF Methods
  <2>3. presence[ServiceOf[m]] \in Nat
    BY <2>2, Times DEF Types, D!DTypeOK
  <2>4. CASE R!Available(m, a)'
    <3>1. presence'[ServiceOf[m]] = presence[ServiceOf[m]]
      BY <1>1, <2>2, <2>4, ServiceWillBeThere
    <3> QED BY <1>2, <2>1, <2>2, <2>3, <3>1, EvidenceOfEach DEF ServiceComesFirst
  <2>5. CASE ~ R!Available(m, a)'
    BY <1>1, <1>2, <2>2, <2>3, <2>5
  <2> QED BY <2>4, <2>5
<1> QED BY <1>4, <1>5, <1>6, <1>7 DEF Evidence, R!LocalsFit, AttemptsAreExcused, EntryIsExcused,
                                       LocalFits, AttemptFits, EntryFits

LEMMA TickEvidence ==
  ASSUME Types, Evidence, Tick
  PROVE  Evidence'
<1>1. /\ UNCHANGED <<cache, pc, capability, argument, lead, pending, trying, discovery, descriptors,
                     served, trouble>>
      /\ elapsed' = [c \in Callers |-> IF pc[c] \in R!Running THEN elapsed[c] + 1 ELSE 0]
      /\ unsupported' = [k \in Capabilities |->
                           IF unsupported[k] = None THEN None ELSE R!Older(unsupported[k], R!OldEntry)]
      /\ absence' = [b \in Bindings |-> [a \in Arguments |->
                        IF R!Available(b, a) THEN R!Older(absence[b][a], Horizon) ELSE 0]]
      /\ presence' = [s \in Symbols |-> IF D!Contents(s, Present) = {} THEN 0
                                        ELSE D!Aged(presence[s], D!LongPresent)]
  BY DEF Tick, R!Tick, D!DTick, D!AgeLookups, R!callVars, R!endpointVars
<1>2. \A b \in Bindings, a \in Arguments :
         /\ absence[b][a] \in Nat /\ absence'[b][a] <= absence[b][a] + 1 /\ absence'[b][a] \in Nat
         /\ ~ R!Available(b, a) => absence'[b][a] = 0
  BY <1>1, Times DEF Types, R!TypeOK, R!Older
<1>3. Hidden' = Hidden /\ Present' = Present
  BY <1>1 DEF Hidden, Present
<1>4. ASSUME NEW b \in Bindings, NEW a \in Arguments, NEW age \in Nat, NEW older \in Nat, older = age + 1,
             Excused(b, a, age)
      PROVE  absence'[b][a] <= older \/ b \in Hidden'
  BY <1>2, <1>3, <1>4 DEF Excused
<1>5. ASSUME NEW c \in Callers PROVE LocalFits(c)' /\ AttemptFits(c)'
  <2>1. LocalFits(c) /\ AttemptFits(c)
    BY EvidenceOfEach
  <2>2. LocalFits(c)'
    BY <1>1, <2>1 DEF LocalFits
  <2>3. R!Attempted(c)' = R!Attempted(c) /\ R!Attempted(c) \subseteq Bindings
    BY <1>1, RouteType DEF R!Attempted, Types, R!TypeOK
  <2>4. pc[c] \in R!Trying \cup {"loop", "remember"} =>
           /\ argument[c] \in Arguments
           /\ elapsed[c] + Slack \in Nat /\ elapsed'[c] + Slack = (elapsed[c] + Slack) + 1
           /\ elapsed'[c] + Slack \in Nat
    BY <1>1, <2>1, Times DEF LocalFits, R!Running, R!Trying, Types, R!TypeOK
  <2>5. pc[c] = "forget" => trying[c] \in Bindings
    BY <2>1, RouteType DEF LocalFits, R!Trying, Types, R!TypeOK
  <2>6. AttemptFits(c)'
    <3>1. ASSUME pc[c] \in R!Trying \cup {"loop", "remember"}, NEW b \in Bindings,
                 Excused(b, argument[c], elapsed[c] + Slack)
          PROVE  absence'[b][argument'[c]] <= elapsed'[c] + Slack \/ b \in Hidden'
      BY <1>1, <1>4, <2>4, <3>1
    <3> QED BY <1>1, <2>1, <2>3, <2>5, <3>1 DEF AttemptFits, Excused, R!Trying
  <2> QED BY <2>2, <2>6
<1>6. ASSUME NEW k \in Capabilities PROVE EntryFits(k)'
  <2>1. SUFFICES ASSUME R!Live(unsupported'[k])
                 PROVE  \E a \in Arguments : \A b \in R!BindingsOf(k) :
                           absence'[b][a] <= unsupported'[k] + Budget + Slack \/ b \in Hidden'
    BY DEF EntryFits, Excused, R!Live
  <2>2. R!Live(unsupported[k]) /\ unsupported'[k] = unsupported[k] + 1 /\ unsupported[k] \in Nat
    BY <1>1, <2>1, Times DEF R!Live, R!Older, Types, R!TypeOK
  <2>3. PICK a \in Arguments : \A b \in R!BindingsOf(k) : Excused(b, a, unsupported[k] + Budget + Slack)
    BY <2>2, EvidenceOfEach DEF EntryFits
  <2>4. /\ unsupported[k] + Budget + Slack \in Nat /\ unsupported'[k] + Budget + Slack \in Nat
        /\ unsupported'[k] + Budget + Slack = (unsupported[k] + Budget + Slack) + 1
    BY <2>2, Times
  <2> QED BY <1>4, <2>3, <2>4, RouteType
<1>7. R!UnavailableIsRecorded'
  BY <1>1, <1>2, <1>3 DEF R!UnavailableIsRecorded, R!Available
<1>8. ServiceComesFirst'
  <2>1. SUFFICES ASSUME NEW m \in Methods, NEW a \in Arguments, presence'[ServiceOf[m]] < D!LongPresent
                 PROVE  absence'[m][a] <= presence'[ServiceOf[m]]
    BY DEF ServiceComesFirst, D!LongPresent
  <2>2. m \in Bindings /\ ServiceOf[m] \in Symbols
    BY ServiceType DEF Methods
  <2>3. presence[ServiceOf[m]] \in Nat
    BY <2>2, Times DEF Types, D!DTypeOK
  <2>4. CASE R!Available(m, a)
    <3>1. presence'[ServiceOf[m]] = D!Aged(presence[ServiceOf[m]], D!LongPresent)
      BY <1>1, <2>2, <2>4, ServiceIsThere
    <3>2. presence[ServiceOf[m]] < D!LongPresent /\ presence'[ServiceOf[m]] = presence[ServiceOf[m]] + 1
      BY <2>1, <2>3, <3>1, Times DEF D!Aged
    <3> QED BY <1>2, <2>2, <2>3, <3>2, EvidenceOfEach DEF ServiceComesFirst
  <2>5. CASE ~ R!Available(m, a)
    BY <1>1, <1>2, <2>2, <2>3, <2>5, Times DEF D!Aged
  <2> QED BY <2>4, <2>5
<1> QED BY <1>5, <1>6, <1>7, <1>8 DEF Evidence, R!LocalsFit, AttemptsAreExcused, EntryIsExcused,
                                       LocalFits, AttemptFits, EntryFits

LEMMA InitEvidence == Init => Evidence
<1> SUFFICES ASSUME Init PROVE Evidence
  OBVIOUS
<1> USE DEF Init, R!Init, D!DInit, D!InitKnowledge
<1>1. R!LocalsFit /\ AttemptsAreExcused
  BY DEF R!LocalsFit, AttemptsAreExcused, R!Running, R!Trying, R!Rest
<1>2. R!UnavailableIsRecorded
  BY DEF R!UnavailableIsRecorded
<1>3. EntryIsExcused
  BY Times DEF EntryIsExcused, R!Live
<1>4. ServiceComesFirst
  <2>1. SUFFICES ASSUME NEW m \in Methods, NEW a \in Arguments, presence[ServiceOf[m]] < D!LongPresent
                 PROVE  absence[m][a] <= presence[ServiceOf[m]]
    BY DEF ServiceComesFirst
  <2>2. m \in Bindings /\ ServiceOf[m] \in Symbols
    BY ServiceType DEF Methods
  <2>3. D!Contents(ServiceOf[m], Present) = {} /\ presence[ServiceOf[m]] = 0
    BY <2>1, <2>2, Times
  <2>4. ~ R!Available(m, a)
    BY <2>3, ServiceIsThere
  <2> QED BY <2>2, <2>3, <2>4
<1> QED BY <1>1, <1>2, <1>3, <1>4 DEF Evidence

LEMMA TypedEvidence == Spec => [](Types /\ Evidence)
<1>1. Init => Types /\ Evidence
  BY InitParts, InitKnown, InitEvidence DEF Types
<1>2. ASSUME Types, Evidence, [Next]_allVars PROVE Evidence'
  <2>1. ASSUME NEW c \in Callers, Call(c) \/ Run(c) PROVE Evidence'
    BY <1>2, <2>1, CallsAreQuiet, AskEvidence, AnsweredEvidence, CallEvidence, LocalEvidence DEF Run
  <2>2. CASE UNCHANGED allVars
    BY <1>2, <2>2 DEF allVars, resolver, client, endpoints, Evidence, R!LocalsFit, R!UnavailableIsRecorded,
       R!Available, Present, ServiceComesFirst, AttemptsAreExcused, R!Attempted, EntryIsExcused, Excused, Hidden
  <2> QED BY <1>2, <2>1, <2>2, ChangeEvidence, TickEvidence DEF Next
<1> QED BY <1>1, <1>2, NextTypes, PTL DEF Spec

\* What both memories say, alone and on top of each other, was true within their
\* lifetimes together, or is hidden for good (capability.go:66-131, grpc.go:239-320).
THEOREM EvidenceIsKept == Spec => []Evidence
  BY TypedEvidence, PTL

-----------------------------------------------------------------------------
(* The promise.  A step of a call touches the promise to its own caller only. *)

OnlyOf(c) ==
    /\ UNCHANGED <<served, trouble, absence>>
    /\ \A d \in Callers \ {c} :
          /\ pc'[d] = pc[d] /\ capability'[d] = capability[d] /\ argument'[d] = argument[d]
          /\ discovery'[d] = discovery[d] /\ elapsed'[d] = elapsed[d]

LEMMA Views ==
  ASSUME NEW c \in Callers, OnlyOf(c)
  PROVE  /\ R!Request' = [R!Request EXCEPT ![c] = R!Request'[c]]
         /\ R!Result' = [R!Result EXCEPT ![c] = R!Result'[c]]
         /\ R!Blamed' = [R!Blamed EXCEPT ![c] = R!Blamed'[c]]
         /\ R!Spent' = [R!Spent EXCEPT ![c] = R!Spent'[c]]
         /\ R!Offered' = R!Offered /\ R!Found' = R!Found /\ UNCHANGED <<trouble, absence>>
<1>1. /\ R!Request' = [R!Request EXCEPT ![c] = R!Request'[c]]
      /\ R!Spent' = [R!Spent EXCEPT ![c] = R!Spent'[c]]
  BY DEF OnlyOf, R!Request, R!Spent
<1>2. R!Result' = [R!Result EXCEPT ![c] = R!Result'[c]]
  BY DEF OnlyOf, R!Result
<1>3. R!Blamed' = [R!Blamed EXCEPT ![c] = R!Blamed'[c]]
  BY DEF OnlyOf, R!Blamed
<1>4. R!Offered' = R!Offered /\ R!Found' = R!Found /\ UNCHANGED <<trouble, absence>>
  BY DEF OnlyOf, R!Offered, R!Found, R!Available, Present
<1> QED BY <1>1, <1>2, <1>3, <1>4

\* Inside the loop, and after the result is known, a step shows the caller nothing;
\* the client may have learned of hidden methods meanwhile.
LEMMA Stutters ==
  ASSUME NEW c \in Callers, OnlyOf(c), Hidden \subseteq Hidden',
         \/ /\ pc[c] \in R!Deciding /\ pc'[c] \in R!Deciding
            /\ UNCHANGED <<capability, argument, discovery, elapsed>>
         \/ /\ pc[c] \notin R!Deciding /\ pc'[c] \notin R!Deciding
            /\ R!ResultOf(pc'[c]) = R!ResultOf(pc[c])
  PROVE  P!Learn
<1>1. /\ R!Request'[c] = R!Request[c] /\ R!Result'[c] = R!Result[c]
      /\ R!Blamed'[c] = R!Blamed[c] /\ R!Spent'[c] = R!Spent[c]
  BY DEF R!Request, R!Result, R!Blamed, R!Spent, R!Deciding, R!Running, R!ResultOf
<1>2. /\ R!Request = [d \in Callers |-> R!Request[d]] /\ R!Result = [d \in Callers |-> R!Result[d]]
      /\ R!Blamed = [d \in Callers |-> R!Blamed[d]] /\ R!Spent = [d \in Callers |-> R!Spent[d]]
  BY DEF R!Request, R!Result, R!Blamed, R!Spent
<1>3. /\ R!Request' = R!Request /\ R!Result' = R!Result /\ R!Blamed' = R!Blamed /\ R!Spent' = R!Spent
      /\ R!Offered' = R!Offered /\ R!Found' = R!Found /\ UNCHANGED <<trouble, absence>>
  BY <1>1, <1>2, Views
<1> QED BY <1>3 DEF P!Learn, P!callerVars

\* A call that is decided has ended in the promise.
LEMMA Ending ==
  ASSUME Types, Evidence, NEW c \in Callers, OnlyOf(c), Hidden' = Hidden,
         pc[c] \in R!Deciding, pc'[c] \notin R!Deciding
  PROVE  /\ P!End(c, R!ResultOf(pc'[c]))
         /\ R!Request[c] = <<capability[c], argument[c]>>
         /\ capability[c] \in Capabilities /\ argument[c] \in Arguments
<1>1. /\ R!Request[c] = <<capability[c], argument[c]>> /\ R!Request'[c] = None
      /\ R!Result'[c] = R!ResultOf(pc'[c]) /\ R!Blamed'[c] = FALSE /\ R!Spent'[c] = 0
  BY DEF R!Request, R!Result, R!Blamed, R!Spent
<1>2. capability[c] \in Capabilities /\ argument[c] \in Arguments
  BY DEF Types, R!TypeOK, Evidence, R!LocalsFit, R!Deciding
<1>3. R!Request[c] # None
  BY <1>1, <1>2, PartsAssumption DEF R!NoneAssumption
<1> QED BY <1>1, <1>2, <1>3, Views DEF P!End, P!worldVars

(* The clock of a call runs only while it does, and it asks only clients     *)
(* that are there.                                                           *)

CallFits ==
    \A c \in Callers :
       /\ pc[c] \in R!Rest => elapsed[c] = 0
       /\ pc[c] \in {"probe", "query"} => Protocol[trying[c]] \in Configured

LEMMA CallsFit == Spec => []CallFits
<1>1. Init => CallFits
  BY DEF Init, R!Init, CallFits
<1>2. ASSUME Types, CallFits, [Next]_allVars PROVE CallFits'
  <2> USE DEF Types, R!TypeOK, CallFits, R!Rest, R!Running
  <2>1. ASSUME NEW c \in Callers, Local(c) \/ Answered(c) PROVE CallFits'
    BY <1>2, <2>1 DEF Local, Answered, R!CheckUnsupported, R!DropExpired, R!CachedFirst, R!Attempt,
       R!Probed, R!Unreflected, R!ProbeFailed, R!Query, R!Forget, R!Store, R!Exhausted, R!Remember,
       R!Return, R!Goto, R!clockVars
  <2>2. ASSUME NEW c \in Callers, Call(c) PROVE CallFits'
    BY <1>2, <2>2 DEF Call, R!Start, R!Goto, R!clockVars
  <2>3. ASSUME NEW c \in Callers, Ask(c) \/ LookingUp(c) PROVE CallFits'
    BY <1>2, <2>3 DEF Ask, LookingUp, resolver
  <2>4. CASE EndpointsChange \/ Tick \/ UNCHANGED allVars
    BY <1>2, <2>4 DEF EndpointsChange, Tick, R!Change, R!Tick, allVars, resolver, R!callVars
  <2> QED BY <1>2, <2>1, <2>2, <2>3, <2>4 DEF Next, Run
<1> QED BY <1>1, <1>2, TypedEvidence, PTL DEF Spec

LEMMA InitPromise == Init => P!PInit
<1> SUFFICES ASSUME Init PROVE P!PInit
  OBVIOUS
<1>1. \A c \in Callers : pc[c] = "idle" /\ pc[c] \notin R!Deciding
  BY DEF Init, R!Init, R!Deciding, R!Running
<1>2. /\ R!Request = [c \in Callers |-> None] /\ R!Spent = [c \in Callers |-> 0]
      /\ R!Blamed = [c \in Callers |-> FALSE]
  BY <1>1 DEF R!Request, R!Spent, R!Blamed
<1>3. R!Result = [c \in Callers |-> "none"]
  BY <1>1 DEF R!Result, R!ResultOf
<1>4. \A b \in Bindings, a \in Arguments :
         absence[b][a] = IF a \in R!Found[b] THEN Horizon ELSE 0
  BY DEF Init, R!Init, R!Found
<1>5. Hidden = {}
  BY ServiceType DEF Init, D!DInit, D!InitKnowledge, Hidden
<1> QED BY <1>2, <1>3, <1>4, <1>5 DEF P!PInit

(* One step is one step of the promise, or none.                             *)

LEMMA CallPromise ==
  ASSUME Types, Evidence, CallFits, NEW c \in Callers, Call(c)
  PROVE  \E k \in Capabilities, a \in Arguments : P!Ask(c, k, a)
<1>1. PICK k \in Capabilities, a \in Arguments : R!Start(c, k, a)
  BY DEF Call
<1> USE DEF Types, R!TypeOK
<1>2. UNCHANGED <<served, trouble, descriptors>> /\ Hidden' = Hidden
  BY DEF Call, client, endpoints, Hidden
<1>3. OnlyOf(c)
  BY <1>1, <1>2 DEF OnlyOf, R!Start, R!Goto, R!clockVars
<1>4. /\ pc[c] \in R!Rest /\ pc'[c] = "check" /\ capability'[c] = k /\ argument'[c] = a
      /\ discovery' = discovery /\ elapsed' = elapsed /\ elapsed[c] = 0
  BY <1>1 DEF R!Start, R!Goto, R!clockVars, CallFits
<1>5. pc[c] \notin R!Deciding /\ pc'[c] \in R!Deciding /\ ~discovery[c]
  BY <1>4 DEF R!Deciding, R!Running, R!Rest, Evidence, R!LocalsFit
<1>6. /\ R!Request[c] = None /\ R!Request'[c] = <<k, a>>
      /\ R!Blamed'[c] = R!Blamed[c] /\ R!Spent'[c] = R!Spent[c]
  BY <1>4, <1>5 DEF R!Request, R!Blamed, R!Spent
<1>7. R!Result'[c] = "none"
  BY <1>4 DEF R!Result, R!ResultOf
<1>8. R!Blamed = [d \in Callers |-> R!Blamed[d]] /\ R!Spent = [d \in Callers |-> R!Spent[d]]
  BY DEF R!Blamed, R!Spent
<1>9. R!Blamed' = R!Blamed /\ R!Spent' = R!Spent
  BY <1>3, <1>6, <1>8, Views
<1>10. P!Ask(c, k, a)
  BY <1>2, <1>3, <1>6, <1>7, <1>9, Views DEF P!Ask, P!worldVars
<1> QED BY <1>10

\* The evidence of an entry, and of a call that has tried every binding, refuses.
LEMMA RefusePromise ==
  ASSUME Types, Evidence, NEW c \in Callers, OnlyOf(c), Hidden' = Hidden, pc[c] \in R!Deciding,
         \/ pc'[c] = "denied" /\ R!Live(unsupported[capability[c]])
         \/ pc'[c] = "remember" /\ pc[c] = "loop" /\ pending[c] = {} /\ ~discovery[c]
  PROVE  P!Refuse(c)
<1>1. /\ P!End(c, R!ResultOf(pc'[c])) /\ R!Request[c] = <<capability[c], argument[c]>>
      /\ capability[c] \in Capabilities
  BY Ending DEF R!Deciding, R!Running
<1>2. R!ResultOf(pc'[c]) = "refused"
  BY DEF R!ResultOf
<1>3. \A b \in Bindings, a \in Arguments : absence[b][a] \in Nat
  BY Times DEF Types, R!TypeOK
<1>4. \E a \in Arguments : \A b \in R!BindingsOf(capability[c]) :
         absence[b][a] <= Staleness \/ b \in Hidden
  <2>1. CASE R!Live(unsupported[capability[c]])
    <3>1. PICK a \in Arguments : \A b \in R!BindingsOf(capability[c]) :
             Excused(b, a, unsupported[capability[c]] + Budget + Slack)
      BY <1>1, <2>1 DEF Evidence, EntryIsExcused
    <3>2. unsupported[capability[c]] \in Nat /\ unsupported[capability[c]] <= TTL
      BY <2>1, Times DEF R!Live
    <3> QED BY <1>1, <1>3, <3>1, <3>2, RouteType, Times DEF Excused
  <2>2. CASE pc[c] = "loop" /\ pending[c] = {} /\ ~discovery[c]
    BY <1>1, <1>3, <2>2, AllAttempted, RouteType, Times DEF Excused
  <2> QED BY <2>1, <2>2
<1> QED BY <1>1, <1>2, <1>4 DEF P!Refuse

LEMMA AnswerPromise ==
  ASSUME Types, Evidence, NEW c \in Callers, OnlyOf(c), Hidden' = Hidden, pc[c] = "query", pc'[c] = "store",
         argument[c] \in served[trying[c]], Protocol[trying[c]] \in Configured
  PROVE  P!Answer(c)
<1>1. P!End(c, "answered") /\ R!Request[c] = <<capability[c], argument[c]>>
  BY Ending DEF R!Deciding, R!Running, R!ResultOf
<1>2. trying[c] \in R!BindingsOf(capability[c]) /\ capability[c] \in Capabilities
  BY DEF Types, R!TypeOK, Evidence, R!LocalsFit, R!Trying
<1>3. argument[c] \in R!Offered[trying[c]]
  BY <1>2, RouteType DEF R!Offered
<1> QED BY <1>1, <1>2, <1>3 DEF P!Answer

LEMMA FailPromise ==
  ASSUME Types, Evidence, NEW c \in Callers, OnlyOf(c), Hidden' = Hidden, pc[c] \in R!Deciding,
         pc'[c] \in {"failed", "undiscovered"},
         \/ trouble \/ discovery[c]
         \/ /\ pc[c] = "query" /\ argument[c] \notin served[trying[c]]
            /\ Protocol[trying[c]] = "rpc"
  PROVE  P!Fail(c)
<1>1. /\ P!End(c, "failed") /\ R!Request[c] = <<capability[c], argument[c]>>
      /\ capability[c] \in Capabilities
  BY Ending DEF R!Deciding, R!Running, R!ResultOf
<1>2. CASE trouble \/ discovery[c]
  BY <1>1, <1>2 DEF P!Fail, R!Blamed
<1>3. CASE /\ pc[c] = "query" /\ argument[c] \notin served[trying[c]]
           /\ Protocol[trying[c]] = "rpc"
  <2>1. trying[c] \in R!BindingsOf(capability[c])
    BY <1>3 DEF Evidence, R!LocalsFit, R!Trying
  <2>2. /\ trying[c] \in {b \in Bindings : Protocol[b] = "rpc"}
        /\ argument[c] \notin R!Offered[trying[c]]
    BY <1>1, <1>3, <2>1, RouteType DEF R!Offered
  <2> QED BY <1>1, <2>1, <2>2 DEF P!Fail
<1> QED BY <1>2, <1>3

\* A lookup learns of hidden methods, if of anything.
LEMMA AskPromise ==
  ASSUME Types, [Next]_allVars, NEW c \in Callers, Ask(c) \/ LookingUp(c)
  PROVE  P!Learn
<1>1. UNCHANGED resolver /\ UNCHANGED endpoints
  BY DEF Ask, LookingUp
<1>2. /\ R!Request' = R!Request /\ R!Result' = R!Result /\ R!Blamed' = R!Blamed /\ R!Spent' = R!Spent
      /\ R!Offered' = R!Offered /\ R!Found' = R!Found /\ UNCHANGED <<trouble, absence>>
  BY <1>1 DEF resolver, endpoints, R!Request, R!Result, R!Blamed, R!Spent, R!Offered, R!Found, R!Available, Present
<1> QED BY <1>2, HiddenGrows DEF P!Learn, P!callerVars

\* HasMethod fails only while an endpoint is in trouble, and then learns nothing.
LEMMA FailedLookup ==
  ASSUME Types, NEW c \in Callers, D!Lookup(c), at'[c] \in {"unreflected", "broken"}
  PROVE  trouble /\ Hidden' = Hidden
<1>1. trouble /\ descriptors' = descriptors
  BY DEF Types, D!DTypeOK, D!Lookup, D!ReadMaps, D!ReflectV1, D!ReflectV1alpha, D!Descriptor, D!Build,
     D!RememberAbsent, D!Settle, D!Move, D!Verdict, D!knowledgeVars
<1> QED BY <1>1 DEF Hidden

LEMMA AnsweredPromise ==
  ASSUME Types, Evidence, CallFits, [Next]_allVars, NEW c \in Callers, Answered(c)
  PROVE  P!Learn \/ P!Fail(c) \/ P!Blame(c)
<1> USE DEF Types, R!TypeOK
<1>1. OnlyOf(c) /\ D!Lookup(c)
  BY DEF OnlyOf, Answered, endpoints, R!Probed, R!Unreflected, R!ProbeFailed, R!Return, R!Goto, R!clockVars
<1>2. CASE R!Probed(c, TRUE) \/ R!Probed(c, FALSE)
  <2>1. /\ pc[c] \in R!Deciding /\ pc'[c] \in R!Deciding
        /\ UNCHANGED <<capability, argument, discovery, elapsed>>
    BY <1>2 DEF R!Probed, R!Goto, R!Deciding, R!Running, R!clockVars
  <2> QED BY <1>1, <2>1, HiddenGrows, Stutters
<1>3. CASE at'[c] = "unreflected" /\ R!Unreflected(c)
  <2>1. /\ pc[c] \in R!Deciding /\ pc'[c] \in R!Deciding /\ discovery'[c] = TRUE
        /\ UNCHANGED <<capability, argument, elapsed>>
    BY <1>3 DEF R!Unreflected, R!Goto, R!Deciding, R!Running, R!clockVars
  <2>2. /\ R!Request'[c] = R!Request[c] /\ R!Request[c] = <<capability[c], argument[c]>>
        /\ R!Result'[c] = R!Result[c] /\ R!Spent'[c] = R!Spent[c] /\ R!Blamed'[c] = TRUE
    BY <2>1 DEF R!Request, R!Result, R!Spent, R!Blamed, R!ResultOf, R!Deciding, R!Running
  <2>3. /\ R!Request = [d \in Callers |-> R!Request[d]] /\ R!Result = [d \in Callers |-> R!Result[d]]
        /\ R!Spent = [d \in Callers |-> R!Spent[d]]
    BY DEF R!Request, R!Result, R!Spent
  <2>4. R!Request' = R!Request /\ R!Result' = R!Result /\ R!Spent' = R!Spent
    <3>1. /\ R!Request' = [R!Request EXCEPT ![c] = R!Request'[c]]
          /\ R!Result' = [R!Result EXCEPT ![c] = R!Result'[c]]
          /\ R!Spent' = [R!Spent EXCEPT ![c] = R!Spent'[c]]
      BY <1>1, Views
    <3>2. /\ R!Request'[c] = R!Request[c] /\ R!Result'[c] = R!Result[c] /\ R!Spent'[c] = R!Spent[c]
      BY <2>2
    <3>3. R!Request' = R!Request
      BY <2>3, <3>1, <3>2
    <3>4. R!Result' = R!Result
      BY <2>3, <3>1, <3>2
    <3>5. R!Spent' = R!Spent
      BY <2>3, <3>1, <3>2
    <3> QED BY <3>3, <3>4, <3>5
  <2>5. R!Request[c] # None
    BY <2>1, <2>2, PartsAssumption DEF R!NoneAssumption, Evidence, R!LocalsFit, R!Deciding
  <2> QED BY <1>1, <1>3, <2>2, <2>4, <2>5, FailedLookup, Views DEF P!Blame, P!worldVars
<1>4. CASE at'[c] = "broken" /\ R!ProbeFailed(c)
  <2>1. pc[c] \in R!Deciding /\ pc'[c] = "failed"
    BY <1>4 DEF R!ProbeFailed, R!Return, R!Goto, R!Deciding, R!Running
  <2> QED BY <1>1, <1>4, <2>1, FailedLookup, FailPromise
<1> QED BY <1>2, <1>3, <1>4 DEF Answered

LEMMA LocalPromise ==
  ASSUME Types, Evidence, CallFits, [Next]_allVars, NEW c \in Callers, Local(c)
  PROVE  P!Learn \/ P!Answer(c) \/ P!Refuse(c) \/ P!Fail(c)
<1> DEFINE Silent == /\ pc[c] \in R!Deciding /\ pc'[c] \in R!Deciding
                     /\ UNCHANGED <<capability, argument, discovery, elapsed>>
<1> USE DEF Types, R!TypeOK
<1>1. Hidden' = Hidden /\ UNCHANGED endpoints
  BY DEF Local, client, Hidden
<1>2. OnlyOf(c)
  BY <1>1 DEF OnlyOf, Local, endpoints, R!CheckUnsupported, R!DropExpired, R!CachedFirst, R!Attempt, R!Query,
     R!Forget, R!Store, R!Exhausted, R!Remember, R!Return, R!Goto, R!clockVars
<1>3. CASE R!CheckUnsupported(c)
  <2>1. CASE R!Live(unsupported[capability[c]])
    BY <1>1, <1>2, <1>3, <2>1, RefusePromise DEF R!CheckUnsupported, R!Return, R!Goto, R!Deciding, R!Running
  <2>2. CASE ~ R!Live(unsupported[capability[c]])
    <3>1. Silent
      BY <1>3, <2>2 DEF R!CheckUnsupported, R!Goto, R!Deciding, R!Running, R!clockVars
    <3> QED BY <1>1, <1>2, <3>1, Stutters
  <2> QED BY <2>1, <2>2
<1>4. CASE R!DropExpired(c) \/ R!CachedFirst(c) \/ R!Attempt(c) \/ R!Forget(c)
  <2>1. Silent
    BY <1>4 DEF R!DropExpired, R!CachedFirst, R!Attempt, R!Forget, R!Goto, R!Deciding, R!Running, R!clockVars
  <2> QED BY <1>1, <1>2, <2>1, Stutters
<1>5. CASE R!Query(c)
  <2>1. CASE /\ R!Return(c, "failed")
             /\ trouble \/ (argument[c] \notin served[trying[c]] /\ Protocol[trying[c]] = "rpc")
    BY <1>1, <1>2, <1>5, <2>1, FailPromise DEF R!Query, R!Return, R!Goto, R!Deciding, R!Running
  <2>2. CASE argument[c] \in served[trying[c]] /\ R!Goto(c, "store")
    BY <1>1, <1>2, <1>5, <2>2, AnswerPromise DEF R!Query, R!Goto, CallFits
  <2>3. CASE R!Goto(c, "forget") /\ UNCHANGED <<capability, argument, discovery, elapsed>>
    <3>1. Silent
      BY <1>5, <2>3 DEF R!Query, R!Goto, R!Deciding, R!Running
    <3> QED BY <1>1, <1>2, <3>1, Stutters
  <2> QED BY <1>5, <2>1, <2>2, <2>3 DEF R!Query, R!clockVars
<1>6. CASE R!Store(c) \/ R!Remember(c)
  <2>1. /\ pc[c] \notin R!Deciding /\ pc'[c] \notin R!Deciding
        /\ R!ResultOf(pc'[c]) = R!ResultOf(pc[c])
    BY <1>6 DEF R!Store, R!Remember, R!Return, R!Goto, R!Deciding, R!Running, R!ResultOf
  <2> QED BY <1>1, <1>2, <2>1, Stutters
<1>7. CASE R!Exhausted(c)
  <2>1. CASE discovery[c]
    BY <1>1, <1>2, <1>7, <2>1, FailPromise DEF R!Exhausted, R!Return, R!Goto, R!Deciding, R!Running
  <2>2. CASE ~discovery[c]
    BY <1>1, <1>2, <1>7, <2>2, RefusePromise DEF R!Exhausted, R!Goto, R!Deciding, R!Running
  <2> QED BY <2>1, <2>2
<1> QED BY <1>3, <1>4, <1>5, <1>6, <1>7 DEF Local

LEMMA TickPromise == ASSUME Types, Evidence, Tick PROVE P!Pass
<1>1. R!Tick /\ UNCHANGED <<pc, capability, argument, discovery, served, trouble, descriptors>>
  BY DEF Tick, R!Tick, D!DTick, D!AgeLookups, R!callVars, R!endpointVars
<1>2. /\ R!Request' = R!Request /\ R!Result' = R!Result /\ R!Blamed' = R!Blamed
      /\ R!Offered' = R!Offered /\ R!Found' = R!Found /\ Hidden' = Hidden
  BY <1>1 DEF R!Request, R!Result, R!Blamed, R!Offered, R!Found, R!Available, Present, Hidden
<1>3. \A c \in Callers : /\ R!Request[c] # None <=> pc[c] \in R!Deciding
                         /\ pc[c] \in R!Deciding => pc[c] \in R!Running /\ R!Spent[c] = elapsed[c]
  BY PartsAssumption DEF R!NoneAssumption, Types, R!TypeOK, Evidence, R!LocalsFit, R!Request, R!Spent, R!Deciding
<1>4. R!Spent' = [c \in Callers |-> IF R!Request[c] # None THEN R!Spent[c] + 1 ELSE 0]
  BY <1>1, <1>3 DEF R!Tick, R!Spent
<1>5. \A b \in Bindings, a \in Arguments :
         absence'[b][a] = IF a \notin R!Found[b] THEN 0
                          ELSE IF absence[b][a] < Horizon THEN absence[b][a] + 1 ELSE Horizon
  BY <1>1 DEF R!Tick, R!Older, R!Found
<1>6. \A c \in Callers : R!Request[c] # None => R!Spent[c] < Budget
  BY <1>1, <1>3 DEF R!Tick
<1> QED BY <1>1, <1>2, <1>4, <1>5, <1>6 DEF P!Pass

LEMMA ChangePromise == ASSUME EndpointsChange PROVE P!WorldChange
<1>1. /\ R!Request' = R!Request /\ R!Result' = R!Result /\ R!Blamed' = R!Blamed /\ R!Spent' = R!Spent
      /\ Hidden' = Hidden
  BY DEF EndpointsChange, R!Change, R!callVars, D!NodeChange, D!knowledgeVars,
         R!Request, R!Result, R!Blamed, R!Spent, Hidden
<1>2. \A b \in Bindings, a \in Arguments :
         absence'[b][a] = IF a \in R!Found'[b] THEN absence[b][a] ELSE 0
  BY DEF EndpointsChange, R!Change, R!Found
<1> QED BY <1>1, <1>2 DEF P!WorldChange, P!callerVars

\* With the descriptor cache below it Resolve still keeps the promise, for any
\* number of callers, capabilities, bindings, arguments and services, whatever
\* the endpoints do: a refusal is no staler than both caches allow together
\* (capability.go:66-131, grpc.go:239-320).
THEOREM PromiseKept == Spec => KeepsPromise
<1>1. ASSUME Types, Evidence, CallFits, [Next]_allVars PROVE [P!PNext]_(P!pvars)
  <2>1. ASSUME NEW c \in Callers, Call(c) PROVE P!PNext
    BY <1>1, <2>1, CallPromise DEF P!PNext
  <2>2. ASSUME NEW c \in Callers, Run(c) PROVE P!PNext
    BY <1>1, <2>2, AskPromise, AnsweredPromise, LocalPromise DEF Run, P!PNext
  <2>3. CASE EndpointsChange
    BY <2>3, ChangePromise DEF P!PNext
  <2>4. CASE Tick
    BY <1>1, <2>4, TickPromise DEF P!PNext
  <2>5. CASE UNCHANGED allVars
    <3>1. UNCHANGED <<pc, capability, argument, discovery, elapsed, served, trouble, absence, descriptors>>
      BY <2>5 DEF allVars, resolver, client, endpoints
    <3>2. R!Request' = R!Request /\ R!Result' = R!Result /\ R!Blamed' = R!Blamed /\ R!Spent' = R!Spent
      BY <3>1 DEF R!Request, R!Result, R!Blamed, R!Spent
    <3>3. R!Offered' = R!Offered /\ R!Found' = R!Found /\ Hidden' = Hidden
      BY <3>1 DEF R!Offered, R!Found, R!Available, Present, Hidden
    <3> QED BY <3>1, <3>2, <3>3 DEF P!pvars, P!callerVars, P!worldVars
  <2> QED BY <1>1, <2>1, <2>2, <2>3, <2>4, <2>5 DEF Next
<1> QED BY <1>1, InitPromise, TypedEvidence, CallsFit, PTL DEF Spec, KeepsPromise, P!PSpec

-----------------------------------------------------------------------------
(* The client in the composition is that of DescriptorCache.                 *)

\* Below the resolver, under whatever calls it makes, the client behaves as it
\* does alone (grpc.go:74-90, 239-320).
THEOREM ClientIsDescriptorCache == Spec => D!DSpec
<1>1. Types /\ [Next]_allVars => [D!DNext]_(D!dvars)
  BY ClientStep DEF Types
<1>2. Init => D!DInit
  BY DEF Init
<1> QED BY <1>1, <1>2, TypedEvidence, PTL DEF Spec, D!DSpec

\* So a call of Resolve shares its descriptors with all others, and is told that
\* a method is missing only for the reasons of the client (grpc.go:309-319, 331-364).
THEOREM LookupsAgree == Spec => D!OneDescriptor /\ D!AbsenceIsRecent
<1>1. ASSUME Types, [D!DNext]_(D!dvars), NEW s \in Symbols, descriptors[s] # {}
      PROVE  descriptors'[s] = descriptors[s]
  BY <1>1, SameClient, DP!DescriptorStays DEF Types
<1>2. ASSUME Types, [D!DNext]_(D!dvars), NEW c \in Callers, D!Settles(c, "has")
      PROVE  wanted[c] \in descriptors'[D!SymbolOf(c)]
  <2>1. DP!DTypeOK /\ DP!Backed /\ [DP!DNext]_(DP!dvars) /\ DP!Settles(c, "has")
    BY <1>2, SameClient DEF Types, D!Settles, DP!Settles, D!Looking, DP!Looking
  <2>2. wanted[c] \in descriptors'[DP!SymbolOf(c)]
    BY <2>1, SameClient, DP!AffirmingStep
  <2> QED BY <2>2 DEF D!SymbolOf, DP!SymbolOf
<1>3. ASSUME Types, [D!DNext]_(D!dvars), NEW c \in Callers, D!Settles(c, "lacks")
      PROVE  LET s == D!SymbolOf(c) IN
             \/ descriptors'[s] # {} /\ wanted[c] \notin descriptors'[s]
             \/ presence[s] <= SymbolTTL + Timeout
  <2>1. DP!DTypeOK /\ DP!Backed /\ [DP!DNext]_(DP!dvars) /\ DP!Settles(c, "lacks")
    BY <1>3, SameClient DEF Types, D!Settles, DP!Settles, D!Looking, DP!Looking
  <2>2. DP!SymbolOf(c) = D!SymbolOf(c)
    BY DEF D!SymbolOf, DP!SymbolOf
  <2> QED BY <2>1, <2>2, SameClient, DP!DenyingStep
<1>4. Types /\ [D!DNext]_(D!dvars)
        => [/\ \A s \in Symbols : descriptors[s] # {} => descriptors'[s] = descriptors[s]
            /\ \A c \in Callers : D!Settles(c, "has")
                  => wanted[c] \in descriptors'[D!SymbolOf(c)]]_(D!dvars)
  BY <1>1, <1>2
<1>5. Types /\ [D!DNext]_(D!dvars)
        => [\A c \in Callers : D!Settles(c, "lacks")
              => LET s == D!SymbolOf(c) IN
                 \/ descriptors'[s] # {} /\ wanted[c] \notin descriptors'[s]
                 \/ presence[s] <= SymbolTTL + Timeout]_(D!dvars)
  BY <1>3
<1> QED BY <1>4, <1>5, ClientIsDescriptorCache, TypedEvidence, PTL
    DEF D!DSpec, D!OneDescriptor, D!AbsenceIsRecent

-----------------------------------------------------------------------------
(* Why a call falls back, and why a binding is forgotten.                    *)

LEMMA OrderIsStrict ==
  ASSUME NEW k \in Capabilities, NEW first, NEW a, NEW b,
         R!Comes(k, first, a, b), R!Comes(k, first, b, a)
  PROVE  a = b
<1>1. RP!Comes(k, first, a, b) /\ RP!Comes(k, first, b, a)
  BY DEF R!Comes, RP!Comes
<1> QED BY <1>1, SameResolver, RP!ComesAntisymmetric

\* The order of a call is as it was.
SameOrder(d) ==
    /\ capability'[d] = capability[d] /\ lead'[d] = lead[d]
    /\ pending'[d] = pending[d] /\ trying'[d] = trying[d]

\* A step of one call that tries no new binding.
LEMMA OrderStays ==
  ASSUME R!TriedInOrder, NEW c \in Callers, \A d \in Callers \ {c} : pc'[d] = pc[d] /\ SameOrder(d),
         pc'[c] \notin R!Trying \/ (pc[c] \in R!Trying /\ SameOrder(c))
  PROVE  R!TriedInOrder'
  BY DEF R!TriedInOrder, SameOrder, R!Comes

LEMMA OrderKept ==
  ASSUME Types, R!TriedInOrder, [Next]_allVars
  PROVE  R!TriedInOrder'
<1> USE DEF Types, R!TypeOK, R!Goto
<1>1. CASE UNCHANGED <<pc, capability, lead, pending, trying>>
  BY <1>1 DEF R!TriedInOrder, R!Comes
<1>2. ASSUME NEW c \in Callers, Ask(c) \/ LookingUp(c) PROVE R!TriedInOrder'
  BY <1>1, <1>2 DEF Ask, LookingUp, resolver
<1>3. ASSUME NEW c \in Callers, Answered(c) PROVE R!TriedInOrder'
  <2>1. CASE R!Probed(c, TRUE) \/ R!Probed(c, FALSE)
    BY <2>1, OrderStays DEF R!Probed, R!Trying, SameOrder
  <2>2. CASE R!Unreflected(c)
    BY <2>2, OrderStays DEF R!Unreflected, R!Trying, SameOrder
  <2>3. CASE R!ProbeFailed(c)
    BY <2>3, OrderStays DEF R!ProbeFailed, R!Return, R!Trying, SameOrder
  <2> QED BY <1>3, <2>1, <2>2, <2>3, AnsweredStep
<1>4. ASSUME NEW c \in Callers, Local(c) PROVE R!TriedInOrder'
  <2>1. CASE R!Attempt(c)
    <3>1. PICK b \in R!Foremost(c) :
             /\ trying' = [trying EXCEPT ![c] = b]
             /\ pending' = [pending EXCEPT ![c] = @ \ {b}]
      BY <2>1 DEF R!Attempt
    <3>2. capability[c] \in Capabilities /\ \A d \in pending[c] : R!Comes(capability[c], lead[c], b, d)
      BY DEF R!Foremost
    <3>3. \A d \in pending'[c] : ~ R!Comes(capability[c], lead[c], d, b)
      BY <3>1, <3>2, OrderIsStrict
    <3>4. UNCHANGED <<capability, lead>> /\ \A d \in Callers \ {c} : pc'[d] = pc[d] /\ SameOrder(d)
      BY <2>1, <3>1 DEF R!Attempt, SameOrder
    <3> QED BY <3>1, <3>3, <3>4 DEF R!TriedInOrder, SameOrder, R!Comes
  <2>2. CASE R!Query(c)
    BY <2>2, OrderStays DEF R!Query, R!Return, R!Trying, SameOrder
  <2>3. CASE R!CheckUnsupported(c) \/ R!DropExpired(c) \/ R!CachedFirst(c)
    BY <2>3, OrderStays DEF R!CheckUnsupported, R!DropExpired, R!CachedFirst, R!Return, R!Trying, SameOrder
  <2>4. CASE R!Forget(c) \/ R!Store(c) \/ R!Exhausted(c) \/ R!Remember(c)
    BY <2>4, OrderStays DEF R!Forget, R!Store, R!Exhausted, R!Remember, R!Return, R!Trying, SameOrder
  <2> QED BY <1>4, <2>1, <2>2, <2>3, <2>4 DEF Local
<1>5. ASSUME NEW c \in Callers, Call(c) PROVE R!TriedInOrder'
  BY <1>5, OrderStays DEF Call, R!Start, R!Trying, SameOrder
<1>6. CASE EndpointsChange \/ Tick \/ UNCHANGED allVars
  BY <1>1, <1>6 DEF EndpointsChange, Tick, R!Change, R!Tick, R!callVars, allVars, resolver
<1> QED BY <1>2, <1>3, <1>4, <1>5, <1>6 DEF Next, Run

LEMMA InOrder == Spec => []R!TriedInOrder
<1>1. Init => R!TriedInOrder
  BY DEF Init, R!Init, R!TriedInOrder, R!Trying
<1> QED BY <1>1, OrderKept, TypedEvidence, PTL DEF Spec

\* Only storing an answer ends a call with one.
LEMMA AnsweringStep ==
  ASSUME Types, [Next]_allVars, NEW c \in Callers, R!Ends(c, {"answered"})
  PROVE  pc[c] = "store"
<1>1. pc[c] \in R!Running /\ pc'[c] = "answered" /\ pc[c] # "answered"
  BY DEF R!Ends, R!Running
<1> USE <1>1 DEF Types, R!TypeOK, R!Goto
<1>2. ASSUME NEW d \in Callers, d # c, Call(d) \/ Run(d) PROVE pc'[c] = pc[c]
  BY <1>2 DEF Call, Run, Ask, LookingUp, Answered, Local, resolver, R!Start, R!CheckUnsupported, R!DropExpired,
     R!CachedFirst, R!Attempt, R!Probed, R!Unreflected, R!ProbeFailed, R!Query, R!Forget, R!Store, R!Exhausted,
     R!Remember, R!Return
<1>3. CASE Run(c)
  BY <1>3 DEF Run, Ask, LookingUp, Answered, Local, resolver, R!CheckUnsupported, R!DropExpired,
     R!CachedFirst, R!Attempt, R!Probed, R!Unreflected, R!ProbeFailed, R!Query, R!Forget, R!Store, R!Exhausted,
     R!Remember, R!Return
<1>4. CASE Call(c)
  BY <1>4 DEF Call, R!Start
<1>5. CASE EndpointsChange \/ Tick \/ UNCHANGED allVars
  BY <1>5 DEF EndpointsChange, Tick, R!Change, R!Tick, R!callVars, allVars, resolver
<1> QED BY <1>2, <1>3, <1>4, <1>5 DEF Next

\* A binding answers only when each one before it was unavailable lately, is
\* hidden for good, or could not be asked for as reflection failed
\* (capability.go:75-100 over grpc.go:239-320).
THEOREM FallbacksAreExcused == Spec => FallbackIsExcused
<1>1. ASSUME Types, Evidence, R!TriedInOrder, [Next]_allVars, NEW c \in Callers, R!Ends(c, {"answered"}),
             NEW b \in R!BindingsOf(capability[c]) \ {trying[c]},
             R!Comes(capability[c], lead[c], b, trying[c]), ~ discovery[c]
      PROVE  Excused(b, argument[c], Budget + Slack)
  <2>1. pc[c] = "store" /\ argument[c] \in Arguments /\ capability[c] \in Capabilities
    BY <1>1, AnsweringStep DEF Evidence, R!LocalsFit, R!Running, Types, R!TypeOK
  <2>2. b \in R!Attempted(c)
    BY <1>1, <2>1 DEF R!Attempted, R!TriedInOrder, R!Trying
  <2>3. Excused(b, argument[c], elapsed[c] + Slack)
    BY <1>1, <2>1, <2>2 DEF Evidence, AttemptsAreExcused, R!Trying
  <2>4. b \in Bindings /\ elapsed[c] \in 0 .. Budget /\ absence[b][argument[c]] \in Nat
    BY <1>1, <2>1, RouteType, Times DEF Types, R!TypeOK
  <2> QED BY <2>3, <2>4, Times DEF Excused
<1>2. Types /\ Evidence /\ R!TriedInOrder /\ [Next]_allVars
        => [\A c \in Callers : R!Ends(c, {"answered"})
              => \A b \in R!BindingsOf(capability[c]) \ {trying[c]} :
                    R!Comes(capability[c], lead[c], b, trying[c])
                       => discovery[c] \/ Excused(b, argument[c], Budget + Slack)]_allVars
  BY <1>1
<1> QED BY <1>2, TypedEvidence, InOrder, PTL DEF Spec, FallbackIsExcused

\* The remembered binding is given up only for such a reason of its own
\* (capability.go:84-87 and 212-218).
THEOREM ForgottenAreExcused == Spec => ForgottenIsExcused
<1>1. ASSUME Types, Evidence, [Next]_allVars, NEW k \in Capabilities, cache[k] # None, cache'[k] = None
      PROVE  \E a \in Arguments : Excused(cache[k], a, Budget + Slack)
  <2>1. PICK c \in Callers : R!Forget(c) \/ R!Store(c)
    BY <1>1 DEF Next, Call, Run, Ask, LookingUp, Answered, Local, resolver, allVars, EndpointsChange, Tick,
       R!Start, R!CheckUnsupported, R!DropExpired, R!CachedFirst, R!Attempt, R!Probed, R!Unreflected,
       R!ProbeFailed, R!Query, R!Exhausted, R!Remember, R!Change, R!Tick, R!resolverVars
  <2>2. CASE R!Store(c)
    <3>1. trying[c] \in Bindings
      BY <1>1, <2>2, RouteType DEF R!Store, Evidence, R!LocalsFit, R!Trying, Types, R!TypeOK
    <3> QED BY <1>1, <2>2, <3>1, Times DEF R!Store, Types, R!TypeOK
  <2>3. CASE R!Forget(c)
    <3>1. pc[c] = "forget" /\ cache[k] = trying[c] /\ argument[c] \in Arguments
      BY <1>1, <2>3 DEF R!Forget, Types, R!TypeOK, Evidence, R!LocalsFit, R!Running
    <3>2. Excused(trying[c], argument[c], elapsed[c] + Slack)
      BY <1>1, <3>1 DEF Evidence, AttemptsAreExcused
    <3>3. trying[c] \in Bindings /\ elapsed[c] \in 0 .. Budget /\ absence[trying[c]][argument[c]] \in Nat
      BY <1>1, <3>1, Times DEF Types, R!TypeOK
    <3>4. Excused(trying[c], argument[c], Budget + Slack)
      BY <3>2, <3>3, Times DEF Excused
    <3> QED BY <3>1, <3>4
  <2> QED BY <2>1, <2>2, <2>3
<1>2. Types /\ Evidence /\ [Next]_allVars
        => [\A k \in Capabilities : cache[k] # None /\ cache'[k] = None
              => \E a \in Arguments : Excused(cache[k], a, Budget + Slack)]_allVars
  BY <1>1
<1> QED BY <1>2, TypedEvidence, PTL DEF Spec, ForgottenIsExcused

=============================================================================
