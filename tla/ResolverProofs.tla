--------------------------- MODULE ResolverProofs ---------------------------
(* The safety properties of Resolver, and that it keeps the promise to its  *)
(* callers, for every value of its constants.                               *)
EXTENDS Resolver, TLAPS

LEMMA InitType == Init => TypeOK
  BY NoneAssumption, TimeAssumption DEF Init, TypeOK, Rest, OldEntry, Available, Serveable

\* What a returning call leaves behind has the right types.
LEMMA ReturnType ==
  ASSUME TypeOK, NEW c \in Callers, NEW label \in Rest, Return(c, label)
  PROVE  /\ pc' \in [Callers -> Rest \cup Running]
         /\ capability' \in [Callers -> Capabilities]
         /\ argument' \in [Callers -> Arguments \cup {None}]
         /\ lead' \in [Callers -> Bindings \cup {None}]
         /\ pending' \in [Callers -> SUBSET Bindings]
         /\ trying' \in [Callers -> Bindings \cup {None}]
         /\ discovery' \in [Callers -> BOOLEAN]
         /\ elapsed' \in [Callers -> 0 .. Budget]
         /\ absence' \in [Bindings -> [Arguments -> 0 .. Horizon]]
  BY TimeAssumption DEF TypeOK, Return, Goto

LEMMA BindingsOfType == \A k \in Capabilities : BindingsOf(k) \subseteq Bindings
  BY PreferenceAssumption DEF BindingsOf, Range

LEMMA NextType == TypeOK /\ [Next]_vars => TypeOK'
<1> SUFFICES ASSUME TypeOK, [Next]_vars PROVE TypeOK'
  OBVIOUS
<1> USE NoneAssumption, TimeAssumption
<1>1. ASSUME NEW c \in Callers, NEW k \in Capabilities, NEW a \in Arguments,
             Start(c, k, a), UNCHANGED endpointVars
      PROVE  TypeOK'
  BY <1>1 DEF TypeOK, Start, Goto, Rest, Running, resolverVars, clockVars, endpointVars
<1>2. ASSUME NEW c \in Callers, Resolve(c), UNCHANGED endpointVars PROVE TypeOK'
  <2>1. CASE CheckUnsupported(c)
    <3>1. CASE Return(c, "denied")
      BY <1>2, <2>1, <3>1, ReturnType DEF TypeOK, CheckUnsupported, Rest, resolverVars, endpointVars
    <3>2. CASE ~Return(c, "denied")
      BY <1>2, <2>1, <3>2 DEF TypeOK, CheckUnsupported, Goto, Running, resolverVars, clockVars, endpointVars
    <3> QED BY <3>1, <3>2
  <2>2. CASE DropExpired(c)
    BY <1>2, <2>2 DEF TypeOK, DropExpired, Goto, Running, clockVars, endpointVars
  <2>3. CASE CachedFirst(c)
    BY <1>2, <2>3, BindingsOfType DEF TypeOK, CachedFirst, Goto, Running, resolverVars, clockVars, endpointVars
  <2>4. CASE Attempt(c)
    BY <1>2, <2>4 DEF TypeOK, Attempt, Foremost, Goto, Running, resolverVars, clockVars, endpointVars
  <2>5. CASE Probe(c)
    <3>1. CASE Probed(c, trying[c] \in reflected)
      BY <1>2, <3>1 DEF TypeOK, Probed, Goto, Running, resolverVars, clockVars, endpointVars
    <3>2. CASE Unreflected(c)
      BY <1>2, <3>2 DEF TypeOK, Unreflected, Goto, Running, resolverVars, clockVars, endpointVars
    <3>3. CASE ProbeFailed(c)
      BY <1>2, <3>3, ReturnType DEF TypeOK, ProbeFailed, Rest, resolverVars, endpointVars
    <3> QED BY <2>5, <3>1, <3>2, <3>3 DEF Probe
  <2>6. CASE Query(c)
    <3>1. CASE Return(c, "failed")
      BY <1>2, <2>6, <3>1, ReturnType DEF TypeOK, Query, Rest, resolverVars, endpointVars
    <3>2. CASE ~Return(c, "failed")
      BY <1>2, <2>6, <3>2 DEF TypeOK, Query, Goto, Running, resolverVars, clockVars, endpointVars
    <3> QED BY <3>1, <3>2
  <2>7. CASE Forget(c)
    BY <1>2, <2>7 DEF TypeOK, Forget, Goto, Running, clockVars, endpointVars
  <2>8. CASE Store(c)
    BY <1>2, <2>8, ReturnType DEF TypeOK, Store, Rest, endpointVars
  <2>9. CASE Exhausted(c)
    <3>1. CASE discovery[c]
      BY <1>2, <2>9, <3>1, ReturnType DEF TypeOK, Exhausted, Rest, resolverVars, endpointVars
    <3>2. CASE ~discovery[c]
      BY <1>2, <2>9, <3>2 DEF TypeOK, Exhausted, Goto, Running, resolverVars, clockVars, endpointVars
    <3> QED BY <3>1, <3>2
  <2>10. CASE Remember(c)
    BY <1>2, <2>10, ReturnType DEF TypeOK, Remember, Rest, OldEntry, endpointVars
  <2> QED BY <1>2, <2>1, <2>2, <2>3, <2>4, <2>5, <2>6, <2>7, <2>8, <2>9, <2>10 DEF Resolve
<1>3. CASE Change
  BY <1>3 DEF TypeOK, Change, Serveable, resolverVars, callVars
<1>4. CASE Tick
  BY <1>4 DEF TypeOK, Tick, Older, OldEntry, Running, callVars, endpointVars
<1>5. CASE UNCHANGED vars
  BY <1>5 DEF TypeOK, vars, resolverVars, callVars, endpointVars, clockVars
<1> QED BY <1>1, <1>2, <1>3, <1>4, <1>5 DEF Next

\* The type invariant of the resolver's maps, calls and clocks.
THEOREM TypeCorrect == Spec => []TypeOK
  BY InitType, NextType, PTL DEF Spec
-----------------------------------------------------------------------------
(* The order in which a call tries its bindings is strict. *)

LEMMA ComesAntisymmetric ==
  ASSUME NEW k \in Capabilities, NEW first, NEW a, NEW b,
         Comes(k, first, a, b), Comes(k, first, b, a)
  PROVE  a = b
<1>1. CASE a = first \/ b = first
  BY <1>1 DEF Comes
<1>2. CASE a # first /\ b # first /\ a # b
  <2>1. PICK i \in DOMAIN Preference[k], j \in DOMAIN Preference[k] :
           i < j /\ Preference[k][i] = a /\ Preference[k][j] = b
    BY <1>2 DEF Comes
  <2>2. PICK m \in DOMAIN Preference[k], n \in DOMAIN Preference[k] :
           m < n /\ Preference[k][m] = b /\ Preference[k][n] = a
    BY <1>2 DEF Comes
  <2>3. i = n /\ j = m
    BY <2>1, <2>2, PreferenceAssumption
  <2>4. Preference[k] \in Seq(Bindings)
    BY PreferenceAssumption
  <2>5. DOMAIN Preference[k] = 1 .. Len(Preference[k]) /\ Len(Preference[k]) \in Nat
    BY <2>4
  <2> QED BY <2>1, <2>2, <2>3, <2>5
<1> QED BY <1>1, <1>2

(* Evidence is inductive.  UNCHANGED endpointVars holds of every step of a  *)
(* call, so what is available changes only in Change and Tick.              *)

LEMMA InitEvidence == Init => Evidence
  BY NoneAssumption, TimeAssumption
     DEF Init, Evidence, LocalsFit, UnavailableIsRecorded, AttemptedWereMissing,
         ForgettingIsMissing, TriedInOrder, EntryIsBacked, Rest, Running, Trying, Live, Serveable

\* A call that returns has nothing left to account for, and disturbs no other.
LEMMA ReturnEvidence ==
  ASSUME TypeOK, Evidence, NEW c \in Callers, NEW label \in Rest, Return(c, label),
         UNCHANGED endpointVars
  PROVE  /\ LocalsFit' /\ UnavailableIsRecorded' /\ AttemptedWereMissing'
         /\ ForgettingIsMissing' /\ TriedInOrder'
         /\ UNCHANGED unsupported => EntryIsBacked'
<1>1. /\ pc' = [pc EXCEPT ![c] = label] /\ label \notin Running \cup Trying
      /\ label \notin {"check", "expire", "order", "loop", "remember"}
  BY DEF Return, Goto, Rest, Running, Trying
<1> USE <1>1 DEF TypeOK, Return, endpointVars
<1>2. LocalsFit'
  BY NoneAssumption DEF Evidence, LocalsFit, Rest
<1>3. UnavailableIsRecorded'
  BY DEF Evidence, UnavailableIsRecorded, Available
<1>4. AttemptedWereMissing'
  BY DEF Evidence, AttemptedWereMissing, Attempted, BindingsOf, Trying
<1>5. ForgettingIsMissing'
  BY DEF Evidence, ForgettingIsMissing, Rest
<1>6. TriedInOrder'
  BY DEF Evidence, TriedInOrder, Comes, Trying
<1>7. UNCHANGED unsupported => EntryIsBacked'
  BY DEF Evidence, EntryIsBacked
<1> QED BY <1>2, <1>3, <1>4, <1>5, <1>6, <1>7

LEMMA NextEvidence == TypeOK /\ Evidence /\ [Next]_vars => Evidence'
<1> SUFFICES ASSUME TypeOK, Evidence, [Next]_vars PROVE Evidence'
  OBVIOUS
<1> TypeOK'
  BY NextType
<1> USE NoneAssumption, TimeAssumption, BindingsOfType
    DEF TypeOK, Evidence, LocalsFit, UnavailableIsRecorded, AttemptedWereMissing,
        Attempted, ForgettingIsMissing, TriedInOrder, EntryIsBacked, Available,
        Live, OldEntry, Rest, Running, Trying
<1>1. ASSUME NEW c \in Callers, NEW k \in Capabilities, NEW a \in Arguments,
             Start(c, k, a), UNCHANGED endpointVars
      PROVE  Evidence'
  BY <1>1 DEF Start, Goto, resolverVars, clockVars, endpointVars
<1>2. ASSUME NEW c \in Callers, CheckUnsupported(c), UNCHANGED endpointVars
      PROVE  Evidence'
  <2>1. CASE Return(c, "denied")
    BY <1>2, <2>1, ReturnEvidence DEF CheckUnsupported, resolverVars
  <2>2. CASE ~Return(c, "denied")
    BY <1>2, <2>2 DEF CheckUnsupported, Goto, resolverVars, clockVars, endpointVars
  <2> QED BY <2>1, <2>2
<1>3. ASSUME NEW c \in Callers, DropExpired(c), UNCHANGED endpointVars
      PROVE  Evidence'
  BY <1>3 DEF DropExpired, Goto, clockVars, endpointVars
<1>4. ASSUME NEW c \in Callers, CachedFirst(c), UNCHANGED endpointVars
      PROVE  Evidence'
  <2> USE <1>4 DEF CachedFirst, Goto, resolverVars, clockVars, endpointVars
  <2>1. LocalsFit'
    OBVIOUS
  <2>2. AttemptedWereMissing'
    OBVIOUS
  <2>3. ForgettingIsMissing' /\ TriedInOrder'
    OBVIOUS
  <2>4. UnavailableIsRecorded' /\ EntryIsBacked'
    OBVIOUS
  <2> QED BY <2>1, <2>2, <2>3, <2>4
<1>5. ASSUME NEW c \in Callers, Attempt(c), UNCHANGED endpointVars
      PROVE  Evidence'
  <2>1. PICK b \in Foremost(c) :
           /\ trying' = [trying EXCEPT ![c] = b]
           /\ pending' = [pending EXCEPT ![c] = @ \ {b}]
           /\ Goto(c, IF Protocol[b] \notin Configured THEN "forget"
                      ELSE IF Protocol[b] = "grpc" THEN "probe" ELSE "query")
    BY <1>5 DEF Attempt
  <2>2. /\ b \in pending[c] /\ b \in Bindings
        /\ \A d \in pending[c] : Comes(capability[c], lead[c], b, d)
    BY DEF Foremost
  <2>3. /\ pc[c] = "loop"
        /\ pc' = [pc EXCEPT ![c] = pc'[c]]
        /\ pc'[c] \in {"forget", "probe", "query"}
        /\ pc'[c] = "forget" => Protocol[b] \notin Configured
        /\ pc'[c] = "probe" => Protocol[b] = "grpc"
        /\ UNCHANGED <<cache, unsupported, capability, argument, lead, discovery, elapsed,
                       absence>>
        /\ UNCHANGED <<served, reflected, trouble>>
    BY <1>5, <2>1 DEF Attempt, Goto, resolverVars, clockVars, endpointVars
  <2>4. LocalsFit'
    BY <2>1, <2>2, <2>3
  <2>5. AttemptedWereMissing'
    BY <2>1, <2>2, <2>3
  <2>6. ForgettingIsMissing'
    BY <2>1, <2>2, <2>3
  <2>7. TriedInOrder'
    BY <2>1, <2>2, <2>3, ComesAntisymmetric
  <2>8. UnavailableIsRecorded' /\ EntryIsBacked'
    BY <2>3
  <2> QED BY <2>4, <2>5, <2>6, <2>7, <2>8
<1>6. ASSUME NEW c \in Callers, Probed(c, trying[c] \in reflected), UNCHANGED endpointVars
      PROVE  Evidence'
  BY <1>6 DEF Probed, Goto, resolverVars, clockVars, endpointVars
<1>7. ASSUME NEW c \in Callers, Unreflected(c), UNCHANGED endpointVars
      PROVE  Evidence'
  BY <1>7 DEF Unreflected, Goto, resolverVars, clockVars, endpointVars
<1>8. ASSUME NEW c \in Callers, ProbeFailed(c), UNCHANGED endpointVars
      PROVE  Evidence'
  BY <1>8, ReturnEvidence DEF ProbeFailed, resolverVars
<1>9. ASSUME NEW c \in Callers, Query(c), UNCHANGED endpointVars
      PROVE  Evidence'
  <2>1. CASE Return(c, "failed")
    BY <1>9, <2>1, ReturnEvidence DEF Query, resolverVars
  <2>2. CASE ~Return(c, "failed")
    <3>1. /\ pc[c] = "query"
          /\ \/ argument[c] \in served[trying[c]] /\ Goto(c, "store")
             \/ argument[c] \notin served[trying[c]] /\ Goto(c, "forget")
          /\ UNCHANGED <<resolverVars, capability, argument, lead, pending, trying, discovery,
                         clockVars>>
      BY <1>9, <2>2 DEF Query
    <3> QED BY <1>9, <3>1 DEF Goto, resolverVars, clockVars, endpointVars
  <2> QED BY <2>1, <2>2
<1>10. ASSUME NEW c \in Callers, Forget(c), UNCHANGED endpointVars
       PROVE  Evidence'
  BY <1>10 DEF Forget, Goto, clockVars, endpointVars
<1>11. ASSUME NEW c \in Callers, Store(c), UNCHANGED endpointVars
       PROVE  Evidence'
  <2>1. Return(c, "answered") /\ \A k \in Capabilities : unsupported'[k] \in {unsupported[k], None}
    BY <1>11 DEF Store
  <2>2. EntryIsBacked'
    BY <2>1 DEF Return
  <2> QED BY <1>11, <2>1, <2>2, ReturnEvidence
<1>12. ASSUME NEW c \in Callers, Exhausted(c), UNCHANGED endpointVars
       PROVE  Evidence'
  <2>1. CASE Return(c, "undiscovered")
    BY <1>12, <2>1, ReturnEvidence DEF Exhausted, resolverVars
  <2>2. CASE ~Return(c, "undiscovered")
    <3>1. /\ pc[c] = "loop" /\ pending[c] = {} /\ ~discovery[c] /\ Goto(c, "remember")
          /\ UNCHANGED <<resolverVars, capability, argument, lead, pending, trying, discovery,
                         clockVars>>
      BY <1>12, <2>2 DEF Exhausted
    <3> USE <1>12, <3>1 DEF Goto, resolverVars, clockVars, endpointVars
    <3>2. LocalsFit' /\ UnavailableIsRecorded'
      OBVIOUS
    <3>3. AttemptedWereMissing' /\ ForgettingIsMissing'
      OBVIOUS
    <3>4. TriedInOrder' /\ EntryIsBacked'
      OBVIOUS
    <3> QED BY <3>2, <3>3, <3>4
  <2> QED BY <2>1, <2>2
<1>13. ASSUME NEW c \in Callers, Remember(c), UNCHANGED endpointVars
       PROVE  Evidence'
  <2>1. Return(c, "unsupported") /\ unsupported' = [unsupported EXCEPT ![capability[c]] = 0]
    BY <1>13 DEF Remember
  <2>2. \A b \in BindingsOf(capability[c]) : absence[b][argument[c]] <= Budget
    <3>1. pc[c] = "remember" /\ ~discovery[c] /\ pending[c] = {} /\ trying[c] = None
      BY <1>13 DEF Remember
    <3>2. BindingsOf(capability[c]) \ (pending[c] \cup {trying[c]}) = BindingsOf(capability[c])
      BY <3>1
    <3>3. \A b \in BindingsOf(capability[c]) : absence[b][argument[c]] <= elapsed[c]
      BY <3>1, <3>2
    <3>4. \A b \in BindingsOf(capability[c]) : absence[b][argument[c]] \in Nat
      BY <3>1
    <3> QED BY <3>3, <3>4
  <2>3. EntryIsBacked'
    <3>1. argument[c] \in Arguments /\ UNCHANGED absence
      BY <1>13 DEF Remember, Return
    <3> SUFFICES ASSUME NEW k \in Capabilities, Live(unsupported'[k])
                 PROVE  \E a \in Arguments : \A b \in BindingsOf(k) :
                           absence[b][a] <= unsupported'[k] + Budget
      BY <3>1
    <3>2. CASE k = capability[c]
      BY <2>1, <2>2, <3>1, <3>2
    <3>3. CASE k # capability[c]
      BY <2>1, <3>3
    <3> QED BY <3>2, <3>3
  <2> QED BY <1>13, <2>1, <2>3, ReturnEvidence
<1>14. CASE Change
  <2>1. \A b \in Bindings, a \in Arguments :
           /\ absence'[b][a] \in Nat /\ absence[b][a] \in Nat
           /\ absence'[b][a] <= absence[b][a]
           /\ ~Available(b, a)' => absence'[b][a] = 0
    BY <1>14 DEF Change
  <2>2. UNCHANGED <<cache, unsupported, pc, capability, argument, lead, pending, trying,
                    discovery, elapsed>>
    BY <1>14 DEF Change, resolverVars, callVars
  <2>3. LocalsFit' /\ TriedInOrder'
    BY <2>2
  <2>4. UnavailableIsRecorded'
    BY <2>1
  <2>5. AttemptedWereMissing' /\ ForgettingIsMissing'
    BY <2>1, <2>2
  <2>6. EntryIsBacked'
    BY <2>1, <2>2
  <2> QED BY <2>3, <2>4, <2>5, <2>6
<1>15. CASE Tick
  <2>1. \A b \in Bindings, a \in Arguments :
           /\ absence'[b][a] \in Nat /\ absence[b][a] \in Nat
           /\ absence'[b][a] <= absence[b][a] + 1
           /\ ~Available(b, a) => absence'[b][a] = 0
    BY <1>15 DEF Tick, Older
  <2>2. UNCHANGED <<cache, pc, capability, argument, lead, pending, trying, discovery,
                    served, reflected, trouble>>
    BY <1>15 DEF Tick, callVars, endpointVars
  <2>3. \A c \in Callers : pc[c] \in Running => elapsed'[c] = elapsed[c] + 1
    BY <1>15 DEF Tick
  <2>4. \A k \in Capabilities : Live(unsupported'[k]) =>
           /\ Live(unsupported[k])
           /\ unsupported'[k] = unsupported[k] + 1
    BY <1>15 DEF Tick, Older
  <2>5. LocalsFit' /\ TriedInOrder'
    BY <2>2
  <2>6. UnavailableIsRecorded'
    BY <2>1, <2>2
  <2>7. AttemptedWereMissing' /\ ForgettingIsMissing'
    BY <2>1, <2>2, <2>3
  <2>8. EntryIsBacked'
    <3>1. SUFFICES ASSUME NEW k \in Capabilities, Live(unsupported'[k])
                   PROVE  \E a \in Arguments : \A b \in BindingsOf(k) :
                             absence'[b][a] <= unsupported'[k] + Budget
      BY <2>2
    <3>2. PICK a \in Arguments : \A b \in BindingsOf(k) :
             absence[b][a] <= unsupported[k] + Budget
      BY <2>4, <3>1
    <3> QED BY <2>1, <2>4, <3>1, <3>2
  <2> QED BY <2>5, <2>6, <2>7, <2>8
<1>16. CASE UNCHANGED vars
  BY <1>16 DEF vars, resolverVars, callVars, endpointVars, clockVars
<1> QED
  BY <1>1, <1>2, <1>3, <1>4, <1>5, <1>6, <1>7, <1>8, <1>9, <1>10, <1>11, <1>12,
     <1>13, <1>14, <1>15, <1>16 DEF Next, Resolve, Probe

\* The evidence invariant, which no run needs to bound: every call in flight
\* can account for the bindings it has left behind, and every entry in force
\* for its capability.
THEOREM EvidenceHolds == Spec => []Evidence
<1>1. Init => TypeOK /\ Evidence
  BY InitType, InitEvidence
<1>2. TypeOK /\ Evidence /\ [Next]_vars => (TypeOK /\ Evidence)'
  BY NextType, NextEvidence
<1> QED BY <1>1, <1>2, PTL DEF Spec

-----------------------------------------------------------------------------
(* The action properties.  A step in which a call ends with a given result  *)
(* is one of few actions of that call.                                      *)

LEMMA EndingSteps ==
  ASSUME TypeOK, [Next]_vars, NEW c \in Callers
  PROVE  /\ Ends(c, {"denied"}) => Live(unsupported[capability[c]])
         /\ Ends(c, {"unsupported"}) => pc[c] = "remember"
         /\ Ends(c, {"answered"}) => pc[c] = "store"
<1>1. ASSUME NEW d \in Callers, d # c,
             (\E k \in Capabilities, a \in Arguments : Start(d, k, a)) \/ Resolve(d)
      PROVE  pc'[c] = pc[c]
  BY <1>1 DEF TypeOK, Start, Resolve, CheckUnsupported, DropExpired, CachedFirst,
              Attempt, Probe, Probed, Unreflected, ProbeFailed, Query, Forget,
              Store, Exhausted, Remember, Return, Goto
<1>2. ASSUME NEW k \in Capabilities, NEW a \in Arguments, Start(c, k, a)
      PROVE  pc[c] \notin Running
  BY <1>2 DEF Start, Rest, Running
<1>3. ASSUME Resolve(c)
      PROVE  /\ pc'[c] = "denied" => Live(unsupported[capability[c]])
             /\ pc'[c] = "unsupported" => pc[c] = "remember"
             /\ pc'[c] = "answered" => pc[c] = "store"
  BY <1>3 DEF TypeOK, Resolve, CheckUnsupported, DropExpired, CachedFirst,
              Attempt, Probe, Probed, Unreflected, ProbeFailed, Query, Forget,
              Store, Exhausted, Remember, Return, Goto
<1>4. CASE Change \/ Tick \/ UNCHANGED vars
  BY <1>4 DEF Change, Tick, vars, callVars, Ends, Running
<1> QED BY <1>1, <1>2, <1>3, <1>4 DEF Next, Ends, Running

\* No caller is told that a capability is unsupported on evidence older than
\* TTL + Budget, for any number of callers, bindings and endpoint changes.
THEOREM DenialsAreRecent == Spec => DenialIsRecent
<1> DEFINE Recent(c) == Ends(c, {"denied", "unsupported"})
                           => \E a \in Arguments : \A b \in BindingsOf(capability[c]) :
                                 absence[b][a] <= TTL + Budget
<1>1. ASSUME TypeOK, Evidence, [Next]_vars, NEW c \in Callers PROVE Recent(c)
  <2>1. CASE Ends(c, {"denied"})
    <3>1. Live(unsupported[capability[c]])
      BY <1>1, <2>1, EndingSteps
    <3>2. \E a \in Arguments : \A b \in BindingsOf(capability[c]) :
             /\ absence[b][a] \in Nat
             /\ absence[b][a] <= unsupported[capability[c]] + Budget
      BY <1>1, <3>1, BindingsOfType, TimeAssumption DEF TypeOK, Evidence, EntryIsBacked
    <3>3. unsupported[capability[c]] \in Nat /\ unsupported[capability[c]] <= TTL
      BY <3>1, TimeAssumption DEF Live
    <3>4. ASSUME NEW x \in Nat, x <= unsupported[capability[c]] + Budget
          PROVE  x <= TTL + Budget
      BY <3>3, <3>4, TimeAssumption
    <3> QED BY <3>2, <3>4
  <2>2. CASE Ends(c, {"unsupported"})
    <3>1. pc[c] = "remember"
      BY <1>1, <2>2, EndingSteps
    <3>2. /\ argument[c] \in Arguments /\ trying[c] = None
          /\ pending[c] = {} /\ ~discovery[c] /\ capability[c] \in Capabilities
      BY <1>1, <3>1 DEF TypeOK, Evidence, LocalsFit, Running, Trying
    <3>3. Attempted(c) = BindingsOf(capability[c])
      BY <3>2, BindingsOfType, NoneAssumption DEF Attempted
    <3>4. \A b \in BindingsOf(capability[c]) : absence[b][argument[c]] <= elapsed[c]
      BY <1>1, <3>1, <3>2, <3>3 DEF Evidence, AttemptedWereMissing
    <3> QED BY <1>1, <3>2, <3>4, BindingsOfType, TimeAssumption DEF TypeOK
  <2> QED BY <2>1, <2>2 DEF Ends
<1>2. TypeOK /\ Evidence /\ [Next]_vars => [\A c \in Callers : Recent(c)]_vars
  BY <1>1
<1> QED BY <1>2, TypeCorrect, EvidenceHolds, PTL DEF Spec, DenialIsRecent

\* A remembered binding is given up only after it was itself unavailable, for
\* any interleaving of the calls that try, store and forget it.
THEOREM ForgottenWereMissing == Spec => ForgottenWasMissing
<1>1. ASSUME TypeOK, Evidence, [Next]_vars,
             NEW k \in Capabilities, cache[k] # None, cache'[k] = None
      PROVE  \E a \in Arguments : absence[cache[k]][a] <= Budget
  <2>1. PICK c \in Callers : Forget(c) \/ Store(c)
    BY <1>1 DEF Next, Start, Resolve, CheckUnsupported, DropExpired, CachedFirst,
                Attempt, Probe, Probed, Unreflected, ProbeFailed, Query, Exhausted,
                Remember, Change, Tick, vars, resolverVars
  <2>2. CASE Store(c)
    BY <1>1, <2>2, BindingsOfType, NoneAssumption
       DEF TypeOK, Store, Evidence, LocalsFit, Trying
  <2>3. CASE Forget(c)
    <3>1. cache[k] = trying[c] /\ trying[c] \in Bindings
      BY <1>1, <2>3 DEF TypeOK, Forget
    <3>2. absence[trying[c]][argument[c]] <= elapsed[c] /\ argument[c] \in Arguments
      BY <1>1, <2>3 DEF Forget, Evidence, ForgettingIsMissing, LocalsFit, Running
    <3> QED BY <1>1, <3>1, <3>2, TimeAssumption DEF TypeOK
  <2> QED BY <2>1, <2>2, <2>3
<1>2. TypeOK /\ Evidence /\ [Next]_vars
        => [\A k \in Capabilities : (cache[k] # None /\ cache'[k] = None)
               => \E a \in Arguments : absence[cache[k]][a] <= Budget]_vars
  BY <1>1
<1> QED BY <1>2, TypeCorrect, EvidenceHolds, PTL DEF Spec, ForgottenWasMissing

\* A binding that answers was preceded only by bindings that were unavailable
\* during the call or whose reflection failed: the loop of Resolve skips none.
THEOREM FallbacksHaveReason == Spec => FallbackHasReason
<1> DEFINE Reason(c) ==
      Ends(c, {"answered"})
        => \A b \in BindingsOf(capability[c]) \ {trying[c]} :
              Comes(capability[c], lead[c], b, trying[c])
                 => absence[b][argument[c]] <= Budget \/ discovery[c]
<1>1. ASSUME TypeOK, Evidence, [Next]_vars, NEW c \in Callers, Ends(c, {"answered"}),
             NEW b \in BindingsOf(capability[c]) \ {trying[c]},
             Comes(capability[c], lead[c], b, trying[c]), ~discovery[c]
      PROVE  absence[b][argument[c]] <= Budget
  <2>1. pc[c] = "store" /\ argument[c] \in Arguments
    BY <1>1, EndingSteps DEF Evidence, LocalsFit, Running
  <2>2. b \in Attempted(c)
    BY <1>1, <2>1 DEF Attempted, Evidence, TriedInOrder, Trying
  <2>3. absence[b][argument[c]] <= elapsed[c]
    BY <1>1, <2>1, <2>2 DEF Evidence, AttemptedWereMissing, Trying
  <2> QED BY <1>1, <2>1, <2>3, BindingsOfType, TimeAssumption DEF TypeOK
<1>2. TypeOK /\ Evidence /\ [Next]_vars => [\A c \in Callers : Reason(c)]_vars
  BY <1>1
<1> QED BY <1>2, TypeCorrect, EvidenceHolds, PTL DEF Spec, FallbackHasReason

-----------------------------------------------------------------------------
(* The promise to the caller: Resolver implements CapabilityPromise.        *)

(* A step of a call touches the promise to its own caller only.             *)

OnlyOf(c) ==
    /\ UNCHANGED <<served, reflected, trouble, absence>>
    /\ \A d \in Callers \ {c} :
          /\ pc'[d] = pc[d] /\ capability'[d] = capability[d] /\ argument'[d] = argument[d]
          /\ discovery'[d] = discovery[d] /\ elapsed'[d] = elapsed[d]

LEMMA Views ==
  ASSUME NEW c \in Callers, OnlyOf(c)
  PROVE  /\ Request' = [Request EXCEPT ![c] = Request'[c]]
         /\ Result' = [Result EXCEPT ![c] = Result'[c]]
         /\ Blamed' = [Blamed EXCEPT ![c] = Blamed'[c]]
         /\ Spent' = [Spent EXCEPT ![c] = Spent'[c]]
         /\ UNCHANGED <<Offered, Found, trouble, absence>>
<1>1. /\ Request' = [Request EXCEPT ![c] = Request'[c]]
      /\ Spent' = [Spent EXCEPT ![c] = Spent'[c]]
  BY DEF OnlyOf, Request, Spent
<1>2. Result' = [Result EXCEPT ![c] = Result'[c]]
  BY DEF OnlyOf, Result
<1>3. Blamed' = [Blamed EXCEPT ![c] = Blamed'[c]]
  BY DEF OnlyOf, Blamed
<1>4. UNCHANGED <<Offered, Found, trouble, absence>>
  BY DEF OnlyOf, Offered, Found, Available
<1> QED BY <1>1, <1>2, <1>3, <1>4

\* Inside the loop, and after the result is known, a step shows nothing.
LEMMA Stutters ==
  ASSUME NEW c \in Callers, OnlyOf(c),
         \/ /\ pc[c] \in Deciding /\ pc'[c] \in Deciding
            /\ UNCHANGED <<capability, argument, discovery, elapsed>>
         \/ /\ pc[c] \notin Deciding /\ pc'[c] \notin Deciding
            /\ ResultOf(pc'[c]) = ResultOf(pc[c])
  PROVE  UNCHANGED P!pvars
<1>1. /\ Request'[c] = Request[c] /\ Result'[c] = Result[c]
      /\ Blamed'[c] = Blamed[c] /\ Spent'[c] = Spent[c]
  BY DEF Request, Result, Blamed, Spent, Deciding, Running, ResultOf
<1>2. /\ Request = [d \in Callers |-> Request[d]] /\ Result = [d \in Callers |-> Result[d]]
      /\ Blamed = [d \in Callers |-> Blamed[d]] /\ Spent = [d \in Callers |-> Spent[d]]
  BY DEF Request, Result, Blamed, Spent
<1>3. /\ UNCHANGED <<Request, Result, Blamed, Spent>>
      /\ UNCHANGED <<Offered, Found, trouble, absence>>
  BY <1>1, <1>2, Views
<1> QED BY <1>3 DEF P!pvars, P!callerVars, P!worldVars

\* A call that is decided has ended in the promise.
LEMMA Ending ==
  ASSUME TypeOK, Evidence, NEW c \in Callers, OnlyOf(c),
         pc[c] \in Deciding, pc'[c] \notin Deciding
  PROVE  /\ P!End(c, ResultOf(pc'[c]))
         /\ Request[c] = <<capability[c], argument[c]>>
         /\ capability[c] \in Capabilities /\ argument[c] \in Arguments
<1>1. /\ Request[c] = <<capability[c], argument[c]>> /\ Request'[c] = None
      /\ Result'[c] = ResultOf(pc'[c]) /\ Blamed'[c] = FALSE /\ Spent'[c] = 0
  BY DEF Request, Result, Blamed, Spent
<1>2. capability[c] \in Capabilities /\ argument[c] \in Arguments
  BY DEF TypeOK, Evidence, LocalsFit, Deciding
<1>3. Request[c] # None
  BY <1>1, <1>2, NoneAssumption
<1> QED BY <1>1, <1>2, <1>3, Views DEF P!End, P!worldVars

(* The clock of a call runs only while it does, and it asks only clients    *)
(* that are there.                                                          *)

CallFits ==
    \A c \in Callers :
       /\ pc[c] \in Rest => elapsed[c] = 0
       /\ pc[c] \in {"probe", "query"} => Protocol[trying[c]] \in Configured

LEMMA CallsFit == Spec => []CallFits
<1>1. Init => CallFits
  BY DEF Init, CallFits
<1>2. ASSUME TypeOK, CallFits, [Next]_vars PROVE CallFits'
  <2>1. ASSUME NEW c \in Callers, Resolve(c) PROVE CallFits'
    BY <1>2, <2>1 DEF TypeOK, CallFits, Rest, Running, Resolve, CheckUnsupported, DropExpired, CachedFirst, Attempt, Probe, Probed,
                Unreflected, ProbeFailed, Query, Forget, Store, Exhausted, Remember,
                Return, Goto, clockVars
  <2>2. ASSUME NEW c \in Callers, NEW k \in Capabilities, NEW a \in Arguments, Start(c, k, a)
        PROVE  CallFits'
    BY <1>2, <2>2 DEF TypeOK, CallFits, Rest, Running, Start, Goto, clockVars
  <2>3. CASE Change \/ Tick \/ UNCHANGED vars
    BY <1>2, <2>3 DEF TypeOK, CallFits, Rest, Running, Change, Tick, vars, callVars, clockVars
  <2> QED BY <1>2, <2>1, <2>2, <2>3 DEF Next
<1> QED BY <1>1, <1>2, TypeCorrect, PTL DEF Spec

LEMMA InitPromise == Init => P!PInit
<1> SUFFICES ASSUME Init PROVE P!PInit
  OBVIOUS
<1>1. \A c \in Callers : pc[c] = "idle" /\ pc[c] \notin Deciding
  BY DEF Init, Deciding, Running
<1>2. /\ Request = [c \in Callers |-> None] /\ Spent = [c \in Callers |-> 0]
      /\ Blamed = [c \in Callers |-> FALSE]
  BY <1>1 DEF Request, Spent, Blamed
<1>3. Result = [c \in Callers |-> "none"]
  BY <1>1 DEF Result, ResultOf
<1>4. \A b \in Bindings, a \in Arguments :
         absence[b][a] = IF a \in Found[b] THEN Horizon ELSE 0
  BY DEF Init, Found
<1> QED BY <1>2, <1>3, <1>4 DEF P!PInit

(* One step of Resolve is one step of the promise, or none.                 *)

LEMMA StartPromise ==
  ASSUME TypeOK, Evidence, CallFits, NEW c \in Callers, NEW k \in Capabilities, NEW a \in Arguments,
         Start(c, k, a), UNCHANGED endpointVars
  PROVE  P!Ask(c, k, a)
<1>1. OnlyOf(c)
  BY DEF OnlyOf, Start, Goto, TypeOK, endpointVars, clockVars
<1>2. /\ pc[c] \in Rest /\ pc'[c] = "check" /\ capability'[c] = k /\ argument'[c] = a
      /\ discovery' = discovery /\ elapsed' = elapsed /\ elapsed[c] = 0
  BY DEF Start, Goto, TypeOK, clockVars, CallFits
<1>3. pc[c] \notin Deciding /\ pc'[c] \in Deciding /\ ~discovery[c]
  BY <1>2 DEF Deciding, Running, Rest, Evidence, LocalsFit
<1>4. /\ Request[c] = None /\ Request'[c] = <<k, a>>
      /\ Blamed'[c] = Blamed[c] /\ Spent'[c] = Spent[c]
  BY <1>2, <1>3 DEF Request, Blamed, Spent
<1>5. Result'[c] = "none"
  BY <1>2 DEF Result, ResultOf
<1>6. /\ Blamed = [d \in Callers |-> Blamed[d]] /\ Spent = [d \in Callers |-> Spent[d]]
  BY DEF Blamed, Spent
<1>7. UNCHANGED <<Blamed, Spent>>
  BY <1>1, <1>4, <1>6, Views
<1> QED BY <1>1, <1>4, <1>5, <1>7, Views DEF P!Ask, P!worldVars

\* The evidence of an entry, and of a call that has tried every binding, refuses.
LEMMA RefusePromise ==
  ASSUME TypeOK, Evidence, NEW c \in Callers, OnlyOf(c), pc[c] \in Deciding,
         \/ pc'[c] = "denied" /\ Live(unsupported[capability[c]])
         \/ pc'[c] = "remember" /\ pc[c] = "loop" /\ pending[c] = {} /\ ~discovery[c]
  PROVE  P!Refuse(c)
<1>1. /\ P!End(c, ResultOf(pc'[c])) /\ Request[c] = <<capability[c], argument[c]>>
      /\ capability[c] \in Capabilities /\ argument[c] \in Arguments
  BY Ending DEF Deciding, Running
<1>2. ResultOf(pc'[c]) = "refused"
  BY DEF ResultOf
<1>3. \E a \in Arguments : \A b \in BindingsOf(capability[c]) : absence[b][a] <= TTL + Budget
  <2>1. CASE Live(unsupported[capability[c]])
    <3>1. PICK a \in Arguments : \A b \in BindingsOf(capability[c]) :
             absence[b][a] <= unsupported[capability[c]] + Budget
      BY <1>1, <2>1 DEF Evidence, EntryIsBacked
    <3>2. unsupported[capability[c]] \in Nat /\ unsupported[capability[c]] <= TTL
      BY <2>1, TimeAssumption DEF Live
    <3> QED BY <1>1, <3>1, <3>2, BindingsOfType, TimeAssumption DEF TypeOK
  <2>2. CASE pc[c] = "loop" /\ pending[c] = {} /\ ~discovery[c]
    <3>1. trying[c] = None
      BY <2>2 DEF Evidence, LocalsFit, Trying
    <3>2. Attempted(c) = BindingsOf(capability[c])
      BY <1>1, <2>2, <3>1, BindingsOfType, NoneAssumption DEF Attempted
    <3>3. \A b \in BindingsOf(capability[c]) : absence[b][argument[c]] <= elapsed[c]
      BY <2>2, <3>2 DEF Evidence, AttemptedWereMissing
    <3> QED BY <1>1, <3>3, BindingsOfType, TimeAssumption DEF TypeOK
  <2> QED BY <2>1, <2>2
<1> QED BY <1>1, <1>2, <1>3 DEF P!Refuse

\* The other ways to end the loop.
LEMMA AnswerPromise ==
  ASSUME TypeOK, Evidence, NEW c \in Callers, OnlyOf(c), pc[c] = "query", pc'[c] = "store",
         argument[c] \in served[trying[c]], Protocol[trying[c]] \in Configured
  PROVE  P!Answer(c)
<1>1. P!End(c, "answered") /\ Request[c] = <<capability[c], argument[c]>>
  BY Ending DEF Deciding, Running, ResultOf
<1>2. trying[c] \in BindingsOf(capability[c]) /\ capability[c] \in Capabilities
  BY DEF TypeOK, Evidence, LocalsFit, Trying
<1>3. argument[c] \in Offered[trying[c]]
  BY <1>2, BindingsOfType DEF Offered
<1> QED BY <1>1, <1>2, <1>3 DEF P!Answer

LEMMA FailPromise ==
  ASSUME TypeOK, Evidence, NEW c \in Callers, OnlyOf(c), pc[c] \in Deciding,
         pc'[c] \in {"failed", "undiscovered"},
         \/ trouble \/ discovery[c]
         \/ /\ pc[c] = "query" /\ argument[c] \notin served[trying[c]]
            /\ Protocol[trying[c]] = "rpc"
  PROVE  P!Fail(c)
<1>1. /\ P!End(c, "failed") /\ Request[c] = <<capability[c], argument[c]>>
      /\ capability[c] \in Capabilities
  BY Ending DEF Deciding, Running, ResultOf
<1>2. CASE trouble \/ discovery[c]
  BY <1>1, <1>2 DEF P!Fail, Blamed
<1>3. CASE /\ pc[c] = "query" /\ argument[c] \notin served[trying[c]]
           /\ Protocol[trying[c]] = "rpc"
  <2>1. trying[c] \in BindingsOf(capability[c])
    BY <1>3 DEF Evidence, LocalsFit, Trying
  <2>2. /\ trying[c] \in {b \in Bindings : Protocol[b] = "rpc"}
        /\ argument[c] \notin Offered[trying[c]]
    BY <1>1, <1>3, <2>1, BindingsOfType DEF Offered
  <2> QED BY <1>1, <2>1, <2>2 DEF P!Fail
<1> QED BY <1>2, <1>3

\* Every step of a call.
LEMMA ResolvePromise ==
  ASSUME TypeOK, Evidence, CallFits, NEW c \in Callers, Resolve(c), UNCHANGED endpointVars
  PROVE  \/ UNCHANGED P!pvars
         \/ P!Answer(c) \/ P!Refuse(c) \/ P!Fail(c) \/ P!Blame(c)
<1> DEFINE Silent == /\ pc[c] \in Deciding /\ pc'[c] \in Deciding
                     /\ UNCHANGED <<capability, argument, discovery, elapsed>>
<1>1. OnlyOf(c)
  BY DEF OnlyOf, TypeOK, Resolve, CheckUnsupported, DropExpired, CachedFirst, Attempt, Probe,
         Probed, Unreflected, ProbeFailed, Query, Forget, Store, Exhausted, Remember,
         Return, Goto, clockVars, endpointVars
<1>2. CASE CheckUnsupported(c)
  <2>1. CASE Live(unsupported[capability[c]])
    BY <1>1, <1>2, <2>1, RefusePromise
       DEF CheckUnsupported, Return, Goto, TypeOK, Deciding, Running
  <2>2. CASE ~Live(unsupported[capability[c]])
    <3>1. Silent
      BY <1>2, <2>2 DEF CheckUnsupported, Goto, TypeOK, Deciding, Running, clockVars
    <3> QED BY <1>1, <3>1, Stutters
  <2> QED BY <2>1, <2>2
<1>3. CASE \/ DropExpired(c) \/ CachedFirst(c) \/ Attempt(c) \/ Forget(c)
           \/ Probed(c, trying[c] \in reflected)
  <2>1. Silent
    BY <1>3 DEF DropExpired, CachedFirst, Attempt, Forget, Probed, Goto, TypeOK,
                Deciding, Running, clockVars
  <2> QED BY <1>1, <2>1, Stutters
<1>4. CASE trouble /\ Unreflected(c)
  <2>1. /\ pc[c] \in Deciding /\ pc'[c] \in Deciding /\ discovery'[c] = TRUE
        /\ UNCHANGED <<capability, argument, elapsed>>
    BY <1>4 DEF Unreflected, Goto, TypeOK, Deciding, Running, clockVars
  <2>2. /\ Request'[c] = Request[c] /\ Request[c] = <<capability[c], argument[c]>>
        /\ Result'[c] = Result[c] /\ Spent'[c] = Spent[c] /\ Blamed'[c] = TRUE
    BY <2>1 DEF Request, Result, Spent, Blamed, ResultOf, Deciding, Running
  <2>3. /\ Request = [d \in Callers |-> Request[d]] /\ Result = [d \in Callers |-> Result[d]]
        /\ Spent = [d \in Callers |-> Spent[d]]
    BY DEF Request, Result, Spent
  <2>4. UNCHANGED <<Request, Result, Spent>>
    BY <1>1, <2>2, <2>3, Views
  <2>5. Request[c] # None
    BY <2>1, <2>2, NoneAssumption DEF TypeOK, Evidence, LocalsFit, Deciding
  <2> QED BY <1>1, <1>4, <2>2, <2>4, <2>5, Views DEF P!Blame, P!worldVars
<1>5. CASE trouble /\ ProbeFailed(c)
  BY <1>1, <1>5, FailPromise DEF ProbeFailed, Return, Goto, TypeOK, Deciding, Running
<1>6. CASE Query(c)
  <2>1. CASE /\ Return(c, "failed")
             /\ trouble \/ (argument[c] \notin served[trying[c]] /\ Protocol[trying[c]] = "rpc")
    BY <1>1, <1>6, <2>1, FailPromise DEF Query, Return, Goto, TypeOK, Deciding, Running
  <2>2. CASE argument[c] \in served[trying[c]] /\ Goto(c, "store")
    BY <1>1, <1>6, <2>2, AnswerPromise DEF Query, Goto, TypeOK, CallFits
  <2>3. CASE Goto(c, "forget") /\ UNCHANGED <<capability, argument, discovery, clockVars>>
    <3>1. Silent
      BY <1>6, <2>3 DEF Query, Goto, TypeOK, Deciding, Running, clockVars
    <3> QED BY <1>1, <3>1, Stutters
  <2> QED BY <1>6, <2>1, <2>2, <2>3 DEF Query
<1>7. CASE Store(c) \/ Remember(c)
  <2>1. /\ pc[c] \notin Deciding /\ pc'[c] \notin Deciding
        /\ ResultOf(pc'[c]) = ResultOf(pc[c])
    BY <1>7 DEF Store, Remember, Return, Goto, TypeOK, Deciding, Running, ResultOf
  <2> QED BY <1>1, <2>1, Stutters
<1>8. CASE Exhausted(c)
  <2>1. CASE discovery[c]
    BY <1>1, <1>8, <2>1, FailPromise
       DEF Exhausted, Return, Goto, TypeOK, Deciding, Running
  <2>2. CASE ~discovery[c]
    BY <1>1, <1>8, <2>2, RefusePromise DEF Exhausted, Goto, TypeOK, Deciding, Running
  <2> QED BY <2>1, <2>2
<1> QED BY <1>2, <1>3, <1>4, <1>5, <1>6, <1>7, <1>8 DEF Resolve, Probe

LEMMA TickPromise == ASSUME TypeOK, Evidence, Tick PROVE P!Pass
<1>1. UNCHANGED <<pc, capability, argument, discovery, served, reflected, trouble>>
  BY DEF Tick, callVars, endpointVars
<1>2. UNCHANGED <<Request, Result, Blamed, Offered, Found>>
  BY <1>1 DEF Request, Result, Blamed, Offered, Found, Available
<1>3. \A c \in Callers : /\ Request[c] # None <=> pc[c] \in Deciding
                         /\ pc[c] \in Deciding => pc[c] \in Running /\ Spent[c] = elapsed[c]
  BY NoneAssumption DEF TypeOK, Evidence, LocalsFit, Request, Spent, Deciding
<1>4. Spent' = [c \in Callers |-> IF Request[c] # None THEN Spent[c] + 1 ELSE 0]
  BY <1>1, <1>3 DEF Tick, Spent
<1>5. \A b \in Bindings, a \in Arguments :
         absence'[b][a] = IF a \notin Found[b] THEN 0
                          ELSE IF absence[b][a] < Horizon THEN absence[b][a] + 1 ELSE Horizon
  BY DEF Tick, Older, Found
<1>6. \A c \in Callers : Request[c] # None => Spent[c] < Budget
  BY <1>3 DEF Tick
<1> QED BY <1>1, <1>2, <1>4, <1>5, <1>6 DEF P!Pass

LEMMA ChangePromise == Change => P!WorldChange
<1> SUFFICES ASSUME Change PROVE P!WorldChange
  OBVIOUS
<1>1. UNCHANGED <<Request, Result, Blamed, Spent>>
  BY DEF Change, callVars, Request, Result, Blamed, Spent
<1>2. \A b \in Bindings, a \in Arguments :
         absence'[b][a] = IF a \in Found'[b] THEN absence[b][a] ELSE 0
  BY DEF Change, Found
<1> QED BY <1>1, <1>2 DEF P!WorldChange, P!callerVars

\* Resolve keeps the promise of CapabilityPromise for any number of callers,
\* capabilities, bindings and arguments, whatever the endpoints do.
THEOREM PromiseKept == Spec => KeepsPromise
<1>1. ASSUME TypeOK, Evidence, CallFits, [Next]_vars PROVE [P!PNext]_(P!pvars)
  <2>1. ASSUME NEW c \in Callers, NEW k \in Capabilities, NEW a \in Arguments,
               Start(c, k, a), UNCHANGED endpointVars
        PROVE  P!PNext
    BY <1>1, <2>1, StartPromise DEF P!PNext
  <2>2. ASSUME NEW c \in Callers, Resolve(c), UNCHANGED endpointVars
        PROVE  P!PNext \/ UNCHANGED P!pvars
    BY <1>1, <2>2, ResolvePromise DEF P!PNext
  <2>3. CASE Change
    BY <2>3, ChangePromise DEF P!PNext
  <2>4. CASE Tick
    BY <1>1, <2>4, TickPromise DEF P!PNext
  <2>5. CASE UNCHANGED vars
    <3>1. UNCHANGED <<pc, capability, argument, discovery, served, reflected, trouble, elapsed,
                      absence>>
      BY <2>5 DEF vars, callVars, endpointVars, clockVars
    <3> QED BY <3>1 DEF P!pvars, P!callerVars, P!worldVars, Request, Result, Blamed, Spent,
                        Offered, Found, Available
  <2> QED BY <1>1, <2>1, <2>2, <2>3, <2>4, <2>5 DEF Next
<1> QED BY <1>1, InitPromise, TypeCorrect, EvidenceHolds, CallsFit, PTL
        DEF Spec, KeepsPromise, P!PSpec

=============================================================================
