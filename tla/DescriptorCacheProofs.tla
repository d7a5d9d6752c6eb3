------------------------ MODULE DescriptorCacheProofs ------------------------
(* The safety properties of DescriptorCache, for every value of its constants. *)
EXTENDS DescriptorCache, TLAPS

LEMMA InitType == DInit => DTypeOK
  BY SymbolTimeAssumption DEF DInit, InitKnowledge, DTypeOK, Settled, LongPresent, Contents

\* What a returning lookup leaves behind has the right types.
LEMMA SettleType ==
  ASSUME DTypeOK, NEW c \in Lookups, NEW label \in Settled, Settle(c, label)
  PROVE  /\ at' \in [Lookups -> Settled \cup Looking]
         /\ wanted' \in [Lookups -> Methods \cup {None}]
         /\ denied' \in [Lookups -> BOOLEAN]
         /\ fetched' \in [Lookups -> SUBSET Methods]
         /\ waited' \in [Lookups -> 0 .. Timeout]
  BY SymbolTimeAssumption DEF DTypeOK, Settle, Move

LEMMA DescriptorType ==
  ASSUME DTypeOK, NEW c \in Lookups, Descriptor(c)
  PROVE  /\ at' \in [Lookups -> Settled \cup Looking]
         /\ fetched' \in [Lookups -> SUBSET Methods]
         /\ UNCHANGED <<wanted, denied, waited>>
  BY DEF DTypeOK, Descriptor, Move, Looking, Contents

LEMMA NextType == DTypeOK /\ [DNext]_dvars => DTypeOK'
<1> SUFFICES ASSUME DTypeOK, [DNext]_dvars PROVE DTypeOK'
  OBVIOUS
<1> USE SymbolTimeAssumption, SymbolNoneAssumption
<1>1. ASSUME NEW c \in Lookups, NEW m \in Methods, HasMethod(c, m), UNCHANGED <<nodeVars, presence>>
      PROVE  DTypeOK'
  BY <1>1 DEF DTypeOK, HasMethod, Move, Looking, knowledgeVars, nodeVars
<1>2. ASSUME NEW c \in Lookups, Lookup(c), UNCHANGED <<nodeVars, presence>> PROVE DTypeOK'
  <2>1. CASE ReadMaps(c)
    <3>1. CASE \E label \in {"has", "lacks"} : Settle(c, label)
      BY <1>2, <2>1, <3>1, SettleType DEF DTypeOK, ReadMaps, Settled, knowledgeVars, nodeVars
    <3>2. CASE Move(c, "v1") /\ UNCHANGED <<wanted, denied, fetched, waited>>
      BY <1>2, <2>1, <3>2 DEF DTypeOK, ReadMaps, Move, Looking, knowledgeVars, nodeVars
    <3> QED BY <2>1, <3>1, <3>2 DEF ReadMaps, Verdict
  <2>2. CASE ReflectV1(c)
    <3>1. CASE Descriptor(c)
      BY <1>2, <2>2, <3>1, DescriptorType DEF DTypeOK, ReflectV1, knowledgeVars, nodeVars
    <3>2. CASE ~Descriptor(c)
      BY <1>2, <2>2, <3>2 DEF DTypeOK, ReflectV1, Move, Looking, knowledgeVars, nodeVars
    <3> QED BY <3>1, <3>2
  <2>3. CASE ReflectV1alpha(c)
    <3>1. CASE Descriptor(c)
      BY <1>2, <2>3, <3>1, DescriptorType DEF DTypeOK, ReflectV1alpha, knowledgeVars, nodeVars
    <3>2. CASE Settle(c, "unreflected")
      BY <1>2, <2>3, <3>2, SettleType DEF DTypeOK, ReflectV1alpha, Settled, knowledgeVars, nodeVars
    <3>3. CASE Move(c, "absent") /\ UNCHANGED <<wanted, denied, fetched, waited>>
      BY <1>2, <2>3, <3>3 DEF DTypeOK, ReflectV1alpha, Move, Looking, knowledgeVars, nodeVars
    <3> QED BY <2>3, <3>1, <3>2, <3>3 DEF ReflectV1alpha
  <2>4. CASE Build(c)
    <3>1. \E label \in Settled : Settle(c, label)
      BY <2>4 DEF Build, Verdict, Settled
    <3>2. descriptors' \in [Symbols -> SUBSET Methods] /\ missing' \in [Symbols -> 0 .. OldAbsence \cup {None}]
      BY <2>4 DEF DTypeOK, Build, knowledgeVars
    <3> QED BY <1>2, <3>1, <3>2, SettleType DEF DTypeOK, nodeVars
  <2>5. CASE RememberAbsent(c)
    <3>1. Settle(c, "lacks") /\ "lacks" \in Settled /\ UNCHANGED descriptors
      BY <2>5 DEF RememberAbsent, Settled
    <3>2. missing' \in [Symbols -> 0 .. OldAbsence \cup {None}]
      <4>1. 0 \in 0 .. OldAbsence
        BY DEF OldAbsence
      <4> QED BY <2>5, <4>1 DEF DTypeOK, RememberAbsent
    <3>3. /\ at' \in [Lookups -> Settled \cup Looking] /\ wanted' \in [Lookups -> Methods \cup {None}]
          /\ denied' \in [Lookups -> BOOLEAN] /\ fetched' \in [Lookups -> SUBSET Methods]
          /\ waited' \in [Lookups -> 0 .. Timeout]
      BY <3>1, SettleType
    <3> QED BY <1>2, <3>1, <3>2, <3>3 DEF DTypeOK, nodeVars
  <2> QED BY <1>2, <2>1, <2>2, <2>3, <2>4, <2>5 DEF Lookup
<1>3. CASE NodeChange
  BY <1>3 DEF DTypeOK, NodeChange, LongPresent, knowledgeVars, lookupVars
<1>4. CASE DTick
  <2>1. waited' \in [Lookups -> 0 .. Timeout]
    BY <1>4 DEF DTypeOK, DTick, AgeLookups
  <2>2. missing' \in [Symbols -> 0 .. OldAbsence \cup {None}]
    BY <1>4 DEF DTypeOK, DTick, AgeLookups, Aged, OldAbsence
  <2>3. presence' \in [Symbols -> 0 .. LongPresent]
    BY <1>4 DEF DTypeOK, DTick, Aged, LongPresent
  <2> QED BY <1>4, <2>1, <2>2, <2>3 DEF DTypeOK, DTick, AgeLookups, lookupVars, nodeVars
<1>5. CASE UNCHANGED dvars
  BY <1>5 DEF DTypeOK, dvars, knowledgeVars, lookupVars, nodeVars, agesVars
<1> QED BY <1>1, <1>2, <1>3, <1>4, <1>5 DEF DNext

\* The maps, lookups and clocks of the gRPC client keep their types
\* (grpc.go:34-37, 239-320).
THEOREM KnowledgeTyped == DSpec => []DTypeOK
<1>1. DInit => DTypeOK
  BY InitType
<1>2. DTypeOK /\ [DNext]_dvars => DTypeOK'
  BY NextType
<1> QED BY <1>1, <1>2, PTL DEF DSpec

-----------------------------------------------------------------------------
LEMMA InitBacked == DInit => Backed
  BY SymbolNoneAssumption DEF DInit, InitKnowledge, Backed, LookupFits, AbsentNow, DenialIsBacked,
     EntryIsBacked, Looking, Fresh, LongPresent, Contents

LEMMA SymbolOfType == \A c \in Lookups : wanted[c] \in Methods => SymbolOf(c) \in Symbols
  BY SymbolAssumption DEF SymbolOf

\* A lookup that returns leaves nothing to account for, and disturbs no other.
LEMMA SettleBacked ==
  ASSUME DTypeOK, Backed, NEW c \in Lookups, NEW label \in Settled, Settle(c, label),
         UNCHANGED <<present, presence>>
  PROVE  LookupFits' /\ AbsentNow' /\ DenialIsBacked'
<1> at' = [at EXCEPT ![c] = label] /\ label \notin Looking /\ label \notin {"absent", "v1alpha", "build"}
  BY DEF Settle, Move, Settled, Looking
<1>1. LookupFits'
  BY DEF DTypeOK, Backed, LookupFits, Settle, Looking
<1>2. AbsentNow'
  BY DEF Backed, AbsentNow
<1>3. DenialIsBacked'
  BY DEF DTypeOK, Backed, DenialIsBacked, Settle, SymbolOf
<1> QED BY <1>1, <1>2, <1>3

\* So does one that goes on, if it can account for what it has been told.
LEMMA MoveBacked ==
  ASSUME DTypeOK, Backed, NEW c \in Lookups, NEW label \in Looking, Move(c, label),
         at[c] \in Looking, UNCHANGED <<wanted, waited, present, presence, missing>>,
         \A d \in Lookups \ {c} : denied'[d] = denied[d] /\ fetched'[d] = fetched[d],
         label = "build" => fetched'[c] # {},
         denied'[c] => label \in {"v1alpha", "build", "absent"},
         label = "absent" \/ (label = "v1alpha" /\ denied'[c]) => presence[SymbolOf(c)] <= waited[c]
  PROVE  Backed'
<1> at' = [at EXCEPT ![c] = label]
  BY DEF Move
<1>1. LookupFits'
  BY DEF DTypeOK, Backed, LookupFits, Looking
<1>2. AbsentNow'
  BY DEF Backed, AbsentNow
<1>3. DenialIsBacked'
  BY DEF DTypeOK, Backed, DenialIsBacked, SymbolOf
<1>4. EntryIsBacked'
  BY DEF Backed, EntryIsBacked
<1> QED BY <1>1, <1>2, <1>3, <1>4 DEF Backed

LEMMA NextBacked == DTypeOK /\ Backed /\ [DNext]_dvars => Backed'
<1> SUFFICES ASSUME DTypeOK, Backed, [DNext]_dvars PROVE Backed'
  OBVIOUS
<1> USE SymbolTimeAssumption, SymbolNoneAssumption
<1>1. ASSUME NEW c \in Lookups, NEW m \in Methods, HasMethod(c, m), UNCHANGED <<nodeVars, presence>>
      PROVE  Backed'
  <2> USE <1>1 DEF HasMethod, Move, knowledgeVars, nodeVars
  <2>1. LookupFits'
    BY DEF DTypeOK, Backed, LookupFits, Looking, Settled
  <2>2. AbsentNow'
    BY DEF Backed, AbsentNow
  <2>3. DenialIsBacked'
    BY DEF DTypeOK, Backed, DenialIsBacked, SymbolOf
  <2>4. EntryIsBacked'
    BY DEF Backed, EntryIsBacked
  <2> QED BY <2>1, <2>2, <2>3, <2>4 DEF Backed
<1>2. ASSUME NEW c \in Lookups, Lookup(c), UNCHANGED <<nodeVars, presence>> PROVE Backed'
  <2> UNCHANGED <<present, presence>>
    BY <1>2 DEF nodeVars
  <2>1. CASE ReadMaps(c)
    <3>1. CASE \E label \in {"has", "lacks"} : Settle(c, label)
      <4>1. LookupFits' /\ AbsentNow' /\ DenialIsBacked'
        BY <3>1, SettleBacked DEF Settled
      <4>2. EntryIsBacked'
        BY <2>1 DEF ReadMaps, Backed, EntryIsBacked, knowledgeVars
      <4> QED BY <4>1, <4>2 DEF Backed
    <3>2. CASE Move(c, "v1") /\ UNCHANGED <<wanted, denied, fetched, waited>>
      BY <2>1, <3>2, MoveBacked DEF ReadMaps, Backed, LookupFits, Looking, knowledgeVars
    <3> QED BY <2>1, <3>1, <3>2 DEF ReadMaps, Verdict
  <2>2. CASE ReflectV1(c)
    <3> at[c] = "v1" /\ at[c] \in Looking /\ UNCHANGED missing
      BY <2>2 DEF ReflectV1, Looking, knowledgeVars
    <3>1. CASE Descriptor(c)
      BY <3>1, MoveBacked DEF DTypeOK, Descriptor, Looking
    <3>2. CASE /\ Contents(SymbolOf(c), present) = {} /\ Move(c, "v1alpha")
               /\ denied' = [denied EXCEPT ![c] = TRUE] /\ UNCHANGED <<wanted, fetched, waited>>
      <4>1. presence[SymbolOf(c)] = 0 /\ 0 <= waited[c]
        BY <3>2, SymbolOfType DEF DTypeOK, Backed, LookupFits, AbsentNow
      <4> QED BY <3>2, <4>1, MoveBacked DEF DTypeOK, Looking
    <3>3. CASE Move(c, "v1alpha") /\ UNCHANGED <<wanted, denied, fetched, waited>>
      BY <3>3, MoveBacked DEF Backed, LookupFits, Looking
    <3> QED BY <2>2, <3>1, <3>2, <3>3 DEF ReflectV1
  <2>3. CASE ReflectV1alpha(c)
    <3> at[c] = "v1alpha" /\ at[c] \in Looking /\ UNCHANGED knowledgeVars
      BY <2>3 DEF ReflectV1alpha, Looking
    <3>1. CASE Descriptor(c)
      BY <3>1, MoveBacked DEF DTypeOK, Descriptor, Looking, knowledgeVars
    <3>2. CASE /\ Contents(SymbolOf(c), present) = {} \/ denied[c]
               /\ Move(c, "absent") /\ UNCHANGED <<wanted, denied, fetched, waited>>
      <4>1. presence[SymbolOf(c)] <= waited[c]
        BY <3>2, SymbolOfType DEF DTypeOK, Backed, LookupFits, AbsentNow, DenialIsBacked
      <4> QED BY <3>2, <4>1, MoveBacked DEF Looking, knowledgeVars
    <3>3. CASE Settle(c, "unreflected")
      <4>1. LookupFits' /\ AbsentNow' /\ DenialIsBacked'
        BY <3>3, SettleBacked DEF Settled
      <4> QED BY <4>1 DEF Backed, EntryIsBacked, knowledgeVars
    <3> QED BY <2>3, <3>1, <3>2, <3>3 DEF ReflectV1alpha
  <2>4. CASE Build(c)
    <3>1. \E label \in Settled : Settle(c, label)
      BY <2>4 DEF Build, Verdict, Settled
    <3>2. \A s \in Symbols : missing'[s] = missing[s] \/ missing'[s] = None
      BY <2>4 DEF DTypeOK, Build, knowledgeVars
    <3>3. EntryIsBacked'
      BY <3>2 DEF Backed, EntryIsBacked, Fresh
    <3> QED BY <3>1, <3>3, SettleBacked DEF Backed
  <2>5. CASE RememberAbsent(c)
    <3>1. Settle(c, "lacks") /\ "lacks" \in Settled
      BY <2>5 DEF RememberAbsent, Settled
    <3>2. presence[SymbolOf(c)] <= Timeout
      BY <2>5, SymbolOfType DEF RememberAbsent, DTypeOK, Backed, LookupFits, DenialIsBacked, Looking
    <3>3. EntryIsBacked'
      BY <2>5, <3>2 DEF RememberAbsent, DTypeOK, Backed, EntryIsBacked
    <3> QED BY <3>1, <3>3, SettleBacked DEF Backed
  <2> QED BY <1>2, <2>1, <2>2, <2>3, <2>4, <2>5 DEF Lookup
<1>3. CASE NodeChange
  <2> \A s \in Symbols : presence'[s] <= presence[s] /\ (Contents(s, present') = {} => presence'[s] = 0)
    BY <1>3 DEF NodeChange, DTypeOK
  <2> UNCHANGED <<missing, at, wanted, denied, fetched, waited>>
    BY <1>3 DEF NodeChange, knowledgeVars, lookupVars
  <2>1. LookupFits'
    BY DEF Backed, LookupFits
  <2>2. AbsentNow'
    BY DEF AbsentNow, Contents
  <2>3. DenialIsBacked'
    BY <1>3, SymbolOfType, NextType DEF DTypeOK, Backed, LookupFits, DenialIsBacked, SymbolOf, Looking
  <2>4. EntryIsBacked'
    BY <1>3, NextType DEF DTypeOK, Backed, EntryIsBacked, Fresh
  <2> QED BY <2>1, <2>2, <2>3, <2>4 DEF Backed
<1>4. CASE DTick
  <2>1. LookupFits'
    BY <1>4 DEF DTick, lookupVars, Backed, LookupFits
  <2>2. AbsentNow'
    BY <1>4 DEF DTick, nodeVars, AbsentNow, Contents
  <2>3. \A s \in Symbols : presence'[s] <= presence[s] + 1
    BY <1>4 DEF DTick, DTypeOK, Aged, LongPresent
  <2>4. DenialIsBacked'
    <3> SUFFICES ASSUME NEW c \in Lookups, at[c] = "absent" \/ (at[c] = "v1alpha" /\ denied[c])
                 PROVE  presence'[SymbolOf(c)] <= waited'[c]
      BY <1>4 DEF DTick, lookupVars, DenialIsBacked, SymbolOf
    <3>1. SymbolOf(c) \in Symbols /\ presence[SymbolOf(c)] <= waited[c]
      BY SymbolOfType DEF Backed, LookupFits, DenialIsBacked, Looking
    <3>2. waited'[c] = waited[c] + 1
      BY <1>4 DEF DTick, AgeLookups, Looking
    <3> QED BY <2>3, <3>1, <3>2, NextType DEF DTypeOK
  <2>5. EntryIsBacked'
    <3> SUFFICES ASSUME NEW s \in Symbols, Fresh(missing'[s]) PROVE presence'[s] <= missing'[s] + Timeout
      BY DEF EntryIsBacked, Fresh
    <3>1. Fresh(missing[s]) /\ missing'[s] = missing[s] + 1
      BY <1>4 DEF DTick, AgeLookups, DTypeOK, Fresh, Aged, OldAbsence
    <3>2. presence[s] <= missing[s] + Timeout
      BY <3>1 DEF Backed, EntryIsBacked
    <3> QED BY <2>3, <3>1, <3>2, NextType DEF DTypeOK, Fresh
  <2> QED BY <2>1, <2>2, <2>4, <2>5 DEF Backed
<1>5. CASE UNCHANGED dvars
  BY <1>5 DEF dvars, knowledgeVars, lookupVars, nodeVars, agesVars, Backed, LookupFits, AbsentNow,
     DenialIsBacked, EntryIsBacked, SymbolOf
<1> QED BY <1>1, <1>2, <1>3, <1>4, <1>5 DEF DNext

\* Every denial in flight and every entry in force rests on an absence no older
\* than the lookup, or the entry and its lookup (grpc.go:239-261, 331-364).
THEOREM AbsencesAreBacked == DSpec => [](DTypeOK /\ Backed)
<1>1. DInit => DTypeOK /\ Backed
  BY InitType, InitBacked
<1>2. DTypeOK /\ Backed /\ [DNext]_dvars => (DTypeOK /\ Backed)'
  BY NextType, NextBacked
<1> QED BY <1>1, <1>2, PTL DEF DSpec

-----------------------------------------------------------------------------
\* Only a step of the lookup itself settles it.
LEMMA SettlingStep ==
  ASSUME DTypeOK, [DNext]_dvars, NEW c \in Lookups, at[c] \in Looking, at'[c] \in Settled
  PROVE  Lookup(c) /\ UNCHANGED <<nodeVars, presence>>
<1> Looking \cap Settled = {}
  BY DEF Looking, Settled
<1>1. ASSUME NEW d \in Lookups, NEW m \in Methods, HasMethod(d, m) PROVE FALSE
  BY <1>1 DEF HasMethod, Move, DTypeOK, Looking, Settled
<1>2. ASSUME NEW d \in Lookups, Lookup(d), d # c PROVE FALSE
  <2>1. at'[c] = at[c]
    BY <1>2 DEF DTypeOK, Lookup, ReadMaps, ReflectV1, ReflectV1alpha, Descriptor, Build, RememberAbsent,
       Settle, Move
  <2> QED BY <2>1
<1>3. ~ UNCHANGED at
  OBVIOUS
<1> QED BY <1>1, <1>2, <1>3 DEF DNext, NodeChange, DTick, dvars, lookupVars

\* What a lookup that denies a method knows.
LEMMA DenyingStep ==
  ASSUME DTypeOK, Backed, [DNext]_dvars, NEW c \in Lookups, Settles(c, "lacks")
  PROVE  \/ descriptors'[SymbolOf(c)] # {} /\ wanted[c] \notin descriptors'[SymbolOf(c)]
         \/ presence[SymbolOf(c)] <= SymbolTTL + Timeout
<1> DEFINE s == SymbolOf(c)
<1> USE SymbolTimeAssumption, SymbolNoneAssumption
<1>1. Lookup(c) /\ at[c] \in Looking /\ at'[c] = "lacks"
  BY SettlingStep DEF Settles, Settled
<1>2. s \in Symbols
  BY <1>1, SymbolOfType DEF Backed, LookupFits
<1>3. CASE ReadMaps(c)
  <2>1. CASE descriptors[s] # {}
    BY <1>1, <1>3, <2>1 DEF ReadMaps, Settle, Move, Verdict, DTypeOK, knowledgeVars
  <2>2. CASE Fresh(missing[s])
    <3>1. presence[s] <= missing[s] + Timeout
      BY <1>2, <2>2 DEF Backed, EntryIsBacked
    <3> QED BY <1>2, <2>2, <3>1 DEF Fresh, DTypeOK
  <2>3. CASE descriptors[s] = {} /\ ~ Fresh(missing[s])
    BY <1>1, <1>3, <2>3 DEF ReadMaps, Move, DTypeOK
  <2> QED BY <2>1, <2>2, <2>3
<1>4. CASE ReflectV1(c)
  BY <1>1, <1>4 DEF ReflectV1, Descriptor, Move, DTypeOK
<1>5. CASE ReflectV1alpha(c)
  BY <1>1, <1>5 DEF ReflectV1alpha, Descriptor, Settle, Move, DTypeOK
<1>6. CASE Build(c)
  <2> DEFINE kept == IF descriptors[s] # {} THEN descriptors[s] ELSE fetched[c]
  <2>1. kept # {}
    BY <1>6 DEF Build, Backed, LookupFits
  <2>2. descriptors' = [descriptors EXCEPT ![s] = kept] /\ wanted[c] \notin kept
    BY <1>1, <1>6 DEF Build, Settle, Move, Verdict, DTypeOK
  <2> QED BY <1>2, <2>1, <2>2 DEF DTypeOK
<1>7. CASE RememberAbsent(c)
  <2>1. presence[s] <= waited[c]
    BY <1>7 DEF RememberAbsent, Backed, DenialIsBacked
  <2> QED BY <1>2, <2>1 DEF DTypeOK
<1> QED BY <1>1, <1>3, <1>4, <1>5, <1>6, <1>7 DEF Lookup

\* A lookup says that the node has no such method only if the service is known
\* without it or was absent at a moment of the last SymbolTTL + Timeout
\* (grpc.go:239-320 and 331-364).
THEOREM AbsencesAreRecent == DSpec => AbsenceIsRecent
<1>1. DTypeOK /\ Backed /\ [DNext]_dvars
        => [\A c \in Lookups : Settles(c, "lacks")
              => LET s == SymbolOf(c) IN
                 \/ descriptors'[s] # {} /\ wanted[c] \notin descriptors'[s]
                 \/ presence[s] <= SymbolTTL + Timeout]_dvars
  BY DenyingStep
<1> QED BY <1>1, AbsencesAreBacked, PTL DEF DSpec, AbsenceIsRecent

LEMMA DescriptorStays ==
  ASSUME DTypeOK, [DNext]_dvars, NEW s \in Symbols, descriptors[s] # {}
  PROVE  descriptors'[s] = descriptors[s]
<1>1. ASSUME NEW c \in Lookups, Lookup(c) PROVE descriptors'[s] = descriptors[s]
  <2>1. CASE Build(c)
    BY <2>1 DEF Build, DTypeOK, knowledgeVars
  <2> QED BY <1>1, <2>1 DEF Lookup, ReadMaps, ReflectV1, ReflectV1alpha, RememberAbsent, knowledgeVars
<1> QED BY <1>1 DEF DNext, HasMethod, NodeChange, DTick, AgeLookups, dvars, knowledgeVars

\* A lookup that says a method exists says so from the shared descriptor.
LEMMA AffirmingStep ==
  ASSUME DTypeOK, Backed, [DNext]_dvars, NEW c \in Lookups, Settles(c, "has")
  PROVE  wanted[c] \in descriptors'[SymbolOf(c)]
<1>1. Lookup(c) /\ at[c] \in Looking /\ at'[c] = "has"
  BY SettlingStep DEF Settles, Settled
<1>2. SymbolOf(c) \in Symbols
  BY <1>1, SymbolOfType DEF Backed, LookupFits
<1>3. CASE ReadMaps(c)
  BY <1>1, <1>3 DEF ReadMaps, Settle, Move, Verdict, DTypeOK, knowledgeVars
<1>4. CASE ReflectV1(c) \/ ReflectV1alpha(c) \/ RememberAbsent(c)
  BY <1>1, <1>4 DEF ReflectV1, ReflectV1alpha, RememberAbsent, Descriptor, Settle, Move, DTypeOK
<1>5. CASE Build(c)
  <2> DEFINE kept == IF descriptors[SymbolOf(c)] # {} THEN descriptors[SymbolOf(c)] ELSE fetched[c]
  <2>1. descriptors' = [descriptors EXCEPT ![SymbolOf(c)] = kept] /\ wanted[c] \in kept
    BY <1>1, <1>5 DEF Build, Settle, Move, Verdict, DTypeOK
  <2> QED BY <1>2, <2>1 DEF DTypeOK
<1> QED BY <1>1, <1>3, <1>4, <1>5 DEF Lookup

\* The descriptor of a service never changes once it is there, and a lookup that
\* says a method exists says so from it (grpc.go:309-319).
THEOREM DescriptorsAreShared == DSpec => OneDescriptor
<1>1. DTypeOK /\ Backed /\ [DNext]_dvars
        => [/\ \A s \in Symbols : descriptors[s] # {} => descriptors'[s] = descriptors[s]
            /\ \A c \in Lookups : Settles(c, "has")
                  => wanted[c] \in descriptors'[SymbolOf(c)]]_dvars
  BY DescriptorStays, AffirmingStep
<1> QED BY <1>1, AbsencesAreBacked, PTL DEF DSpec, OneDescriptor

=============================================================================
