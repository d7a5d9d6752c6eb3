------------------------- MODULE UpstreamErrorsProofs -------------------------
(* The build of the registry, for every graph of descriptor files, whatever  *)
(* their number, and every order in which they are visited.                  *)
EXTENDS UpstreamErrors, SequenceTheorems, TLAPS

\* The files of which no set imports itself.
Grounded(registered) ==
    \A S \in SUBSET (registered \ LinkedIn) : S # {} => \E f \in S : protos[f].imports \cap S = {}

\* The calls of build that have not returned: each is for a file of its own,
\* which is not registered, and was made for an import of the one before.
StackFits ==
    /\ building \in Seq(DOMAIN protos \ LinkedIn)
    /\ \A i \in 1 .. Len(building) : building[i] \notin registry
    /\ \A i, j \in 1 .. Len(building) : building[i] = building[j] => i = j
    /\ \A i \in 1 .. Len(building) - 1 : building[i + 1] \in protos[building[i]].imports

RegistryFits ==
    /\ registry \subseteq DOMAIN protos /\ unvisited \subseteq DOMAIN protos
    /\ \A f \in registry : protos[f].valid
    /\ \A f \in registry \ LinkedIn : protos[f].imports \subseteq registry \cup LinkedIn
    /\ Grounded(registry)

\* No received file is forgotten: it is registered, still to be visited, or the
\* one for which the outermost call was made.
NoneForgotten ==
    DOMAIN protos \subseteq registry \cup unvisited \cup {building[i] : i \in 1 .. Len(building)}

FilesFit ==
    /\ StackFits /\ RegistryFits
    /\ linking \in {"none", "running", "built"} => NoneForgotten
    /\ linking = "built" => building = <<>> /\ unvisited = {}
    /\ linking = "none" => building = <<>> /\ registry = {}
    /\ linking = "failed" => ~ Linkable(protos)

LEMMA EmptyFits ==
  ASSUME protos = NoFiles, registry = {}, linking = "none", unvisited = {}, building = <<>>
  PROVE  FilesFit
  BY DEF NoFiles, FilesFit, StackFits, RegistryFits, NoneForgotten, Grounded

LEMMA ReceiveFits == ASSUME FilesFit, NEW files, Receive(files) PROVE FilesFit'
  BY DEF Receive, FilesFit, StackFits, RegistryFits, NoneForgotten, Grounded

\* A file that is registered after its imports closes no circle.
LEMMA GroundedStep ==
  ASSUME RegistryFits, NEW f, f \notin registry, f \in LinkedIn \/ protos[f].imports \subseteq registry \cup LinkedIn
  PROVE  Grounded(registry \cup {f})
<1> SUFFICES ASSUME NEW S \in SUBSET ((registry \cup {f}) \ LinkedIn), S # {}
             PROVE  \E g \in S : protos[g].imports \cap S = {}
  BY DEF Grounded
<1>1. CASE f \notin S
  BY <1>1 DEF RegistryFits, Grounded
<1>2. CASE S = {f}
  <2>1. f \notin LinkedIn /\ f \in S
    BY <1>2
  <2>2. f \notin protos[f].imports
    BY <2>1
  <2> QED BY <1>2, <2>1, <2>2
<1>3. CASE f \in S /\ S # {f}
  <2>1. S \ {f} \in SUBSET (registry \ LinkedIn) /\ S \ {f} # {}
    BY <1>3
  <2>2. PICK g \in S \ {f} : protos[g].imports \cap (S \ {f}) = {}
    BY <2>1 DEF RegistryFits, Grounded
  <2>3. f \notin protos[g].imports
    BY <1>3, <2>1, <2>2 DEF RegistryFits
  <2> QED BY <2>2, <2>3
<1> QED BY <1>1, <1>2, <1>3

\* Calls of build that come back to a file have gone round a circle of imports.
LEMMA CircleIsUnlinkable ==
  ASSUME StackFits, NEW d \in Range(building), building # <<>>, d \in protos[building[Len(building)]].imports
  PROVE  ~ Linkable(protos)
<1>1. PICK i \in 1 .. Len(building) : building[i] = d
  BY DEF StackFits, Range
<1> DEFINE S == {building[j] : j \in i .. Len(building)}
<1>2. S \subseteq DOMAIN protos \ LinkedIn /\ d \in S
  BY <1>1 DEF StackFits
<1>3. ASSUME NEW f \in S PROVE protos[f].imports \cap S # {}
  <2>1. PICK j \in i .. Len(building) : f = building[j]
    BY <1>3
  <2>2. CASE j = Len(building)
    BY <1>2, <2>1, <2>2
  <2>3. CASE j # Len(building)
    <3>1. j \in 1 .. Len(building) - 1 /\ j + 1 \in i .. Len(building)
      BY <1>1, <2>1, <2>3 DEF StackFits
    <3>2. building[j + 1] \in protos[f].imports /\ building[j + 1] \in S
      BY <2>1, <3>1 DEF StackFits
    <3> QED BY <3>2
  <2> QED BY <2>2, <2>3
<1>4. S \in (SUBSET (DOMAIN protos \ LinkedIn)) \ {{}}
  BY <1>2
<1> QED BY <1>3, <1>4 DEF Linkable

\* What a call of build does, made by the range loop or for an import.
LEMMA BuildFits ==
  ASSUME FilesFit, linking = "running", NEW f, ~ Settled(f), Build(f), UNCHANGED protos,
         \/ building = <<>> /\ f \in unvisited /\ unvisited' = unvisited \ {f}
         \/ /\ building # <<>> /\ f \in protos[building[Len(building)]].imports
            /\ UNCHANGED unvisited
  PROVE  FilesFit'
<1> USE DEF FilesFit
<1>0. CASE f \in LinkedIn /\ ~ protos[f].valid
  <2>1. linking' = "failed" /\ UNCHANGED <<building, registry>>
    BY <1>0 DEF Build, RegisterLinked, Fail
  <2>2. f \in DOMAIN protos
    BY <1>0 DEF Settled
  <2>3. ~ Linkable(protos)'
    BY <1>0, <2>2 DEF Linkable
  <2>4. StackFits' /\ RegistryFits'
    BY <2>1 DEF StackFits, RegistryFits, Grounded
  <2> QED BY <2>1, <2>3, <2>4
<1>1. CASE f \in LinkedIn /\ protos[f].valid
  <2>1. registry' = registry \cup {f} /\ UNCHANGED <<building, linking>>
    BY <1>1 DEF Build, RegisterLinked
  <2>2. f \in DOMAIN protos /\ f \notin registry
    BY <1>1 DEF Settled
  <2>3. RegistryFits'
    BY <1>1, <2>1, <2>2, GroundedStep DEF RegistryFits, Grounded
  <2>4. StackFits'
    BY <1>1, <2>1 DEF StackFits
  <2>5. NoneForgotten'
    BY <2>1 DEF NoneForgotten
  <2> QED BY <2>1, <2>3, <2>4, <2>5
<1>2. CASE f \notin LinkedIn /\ (f \notin DOMAIN protos \/ f \in Range(building))
  <2>1. linking' = "failed" /\ UNCHANGED <<building, registry>>
    BY <1>2 DEF Build, Fail
  <2>2. ~ Linkable(protos)
    <3>1. CASE f \in Range(building)
      <4>1. building # <<>>
        BY <3>1 DEF Range
      <4> QED BY <3>1, <4>1, CircleIsUnlinkable
    <3>2. CASE f \notin DOMAIN protos
      <4>1. building # <<>> /\ f \in protos[building[Len(building)]].imports
        BY <3>2 DEF RegistryFits
      <4>2. building[Len(building)] \in DOMAIN protos \ LinkedIn
        BY <4>1 DEF StackFits
      <4> QED BY <1>2, <3>2, <4>1, <4>2 DEF Linkable
    <3> QED BY <1>2, <3>1, <3>2
  <2>3. StackFits' /\ RegistryFits'
    BY <2>1 DEF StackFits, RegistryFits, Grounded
  <2>4. ~ Linkable(protos)'
    BY <2>2 DEF Linkable
  <2> QED BY <2>1, <2>3, <2>4
<1>3. CASE f \notin LinkedIn /\ f \in DOMAIN protos /\ f \notin Range(building)
  <2>1. building' = Append(building, f) /\ UNCHANGED <<registry, linking>>
    BY <1>3 DEF Build
  <2>2. /\ building' \in Seq(DOMAIN protos \ LinkedIn) /\ Len(building') = Len(building) + 1
        /\ building'[Len(building) + 1] = f /\ \A i \in 1 .. Len(building) : building'[i] = building[i]
    BY <1>3, <2>1 DEF StackFits
  <2>3. f \notin registry /\ \A i \in 1 .. Len(building) : building[i] # f
    BY <1>3 DEF Settled, StackFits, Range
  <2>4. StackFits'
    <3>1. Len(building) \in Nat
      BY DEF StackFits
    <3>2. \A i \in 1 .. Len(building') : building'[i] \notin registry'
      BY <2>1, <2>2, <2>3, <3>1 DEF StackFits
    <3>3. \A i, j \in 1 .. Len(building') : building'[i] = building'[j] => i = j
      BY <2>2, <2>3, <3>1 DEF StackFits
    <3>4. ASSUME NEW i \in 1 .. Len(building') - 1
          PROVE  building'[i + 1] \in protos[building'[i]].imports
      <4>1. CASE i < Len(building)
        BY <2>2, <3>1, <3>4, <4>1 DEF StackFits
      <4>2. CASE i = Len(building)
        BY <2>2, <3>1, <3>4, <4>2
      <4> QED BY <2>2, <3>1, <3>4, <4>1, <4>2
    <3> QED BY <2>2, <3>2, <3>3, <3>4 DEF StackFits
  <2>5. RegistryFits'
    BY <2>1 DEF RegistryFits, Grounded
  <2>6. NoneForgotten'
    <3>1. Len(building) \in Nat
      BY DEF StackFits
    <3>2. ASSUME NEW g \in DOMAIN protos, g \notin registry, g \notin unvisited'
          PROVE  \E i \in 1 .. Len(building') : building'[i] = g
      <4>1. CASE g = f
        BY <2>2, <3>1, <4>1
      <4>2. CASE g # f
        BY <2>2, <3>1, <3>2, <4>2 DEF NoneForgotten
      <4> QED BY <4>1, <4>2
    <3> QED BY <2>1, <3>2 DEF NoneForgotten
  <2> QED BY <2>1, <2>4, <2>5, <2>6
<1> QED BY <1>0, <1>1, <1>2, <1>3

LEMMA VisitFits == ASSUME FilesFit, Visit PROVE FilesFit'
<1>1. PICK f \in unvisited :
          /\ unvisited' = unvisited \ {f}
          /\ IF Settled(f) THEN UNCHANGED <<building, registry, linking>> ELSE Build(f)
  BY DEF Visit
<1>2. CASE ~ Settled(f)
  BY <1>1, <1>2, BuildFits DEF Visit
<1>3. CASE Settled(f)
  <2>1. f \in registry /\ UNCHANGED <<building, registry, linking, protos>>
    BY <1>1, <1>3 DEF Settled, Visit, FilesFit, RegistryFits
  <2>2. StackFits' /\ RegistryFits' /\ NoneForgotten'
    BY <1>1, <2>1 DEF Visit, FilesFit, StackFits, RegistryFits, Grounded, NoneForgotten
  <2> QED BY <2>1, <2>2 DEF Visit, FilesFit
<1> QED BY <1>2, <1>3

LEMMA ImportFits == ASSUME FilesFit, Import PROVE FilesFit'
  BY BuildFits DEF Import, Unsettled

\* What is left of a sequence without its last element.
LEMMA WithoutLast ==
  ASSUME NEW T, NEW s \in Seq(T), Len(s) # 0
  PROVE  /\ SubSeq(s, 1, Len(s) - 1) \in Seq(T)
         /\ Len(SubSeq(s, 1, Len(s) - 1)) = Len(s) - 1
         /\ \A i \in 1 .. Len(s) - 1 : SubSeq(s, 1, Len(s) - 1)[i] = s[i]
<1>1. Len(s) \in Nat \ {0} /\ \A i \in 1 .. Len(s) - 1 : s[i] \in T
  OBVIOUS
<1>2. PICK n \in Nat : n = Len(s) - 1
  <2>1. Len(s) - 1 \in Nat
    BY <1>1
  <2> QED BY <2>1, Zenon
<1>3. /\ SubSeq(s, 1, n) \in Seq(T) /\ Len(SubSeq(s, 1, n)) = IF 1 <= n THEN n - 1 + 1 ELSE 0
      /\ \A i \in 1 .. n - 1 + 1 : SubSeq(s, 1, n)[i] = s[1 + i - 1]
  <2>1. \A i \in 1 .. n : s[i] \in T
    BY <1>1, <1>2
  <2> QED BY <2>1, SubSeqProperties
<1>4. n - 1 + 1 = n /\ (IF 1 <= n THEN n - 1 + 1 ELSE 0) = n /\ \A i \in 1 .. n : 1 + i - 1 = i
  OBVIOUS
<1>5. Len(SubSeq(s, 1, n)) = n /\ \A i \in 1 .. n : SubSeq(s, 1, n)[i] = s[i]
  BY <1>3, <1>4
<1> QED BY <1>2, <1>3, <1>5

LEMMA RegisterFits == ASSUME FilesFit, Register PROVE FilesFit'
<1> DEFINE n == Len(building)
           f == building[n]
<1> USE DEF FilesFit
<1>1. /\ n \in Nat \ {0} /\ f \in DOMAIN protos \ LinkedIn /\ f \notin registry
      /\ linking = "running" /\ Unsettled(f) = {} /\ UNCHANGED <<protos, unvisited>>
  BY DEF Register, StackFits
<1>2. protos[f].imports \subseteq registry \cup LinkedIn
  BY <1>1 DEF Unsettled, Settled
<1>3. CASE protos[f].valid
  <2>1. registry' = registry \cup {f} /\ building' = SubSeq(building, 1, n - 1) /\ UNCHANGED linking
    BY <1>3 DEF Register
  <2>2. /\ building' \in Seq(DOMAIN protos \ LinkedIn) /\ Len(building') = n - 1
        /\ \A i \in 1 .. n - 1 : building'[i] = building[i]
    BY <1>1, <2>1, WithoutLast DEF StackFits
  <2>3. \A i \in 1 .. n - 1 : building[i] # f
    BY <1>1 DEF StackFits
  <2>4. StackFits'
    BY <1>1, <2>1, <2>2, <2>3 DEF StackFits
  <2>5. RegistryFits'
    BY <1>1, <1>2, <1>3, <2>1, GroundedStep DEF RegistryFits, Grounded
  <2>6. NoneForgotten'
    BY <1>1, <2>1, <2>2 DEF NoneForgotten
  <2> QED BY <1>1, <2>1, <2>4, <2>5, <2>6
<1>4. CASE ~ protos[f].valid
  <2>1. linking' = "failed" /\ UNCHANGED <<building, registry>>
    BY <1>4 DEF Register, Fail
  <2>2. ~ Linkable(protos)'
    BY <1>1, <1>4 DEF Linkable
  <2>3. StackFits' /\ RegistryFits'
    BY <1>1, <2>1 DEF StackFits, RegistryFits, Grounded
  <2> QED BY <2>1, <2>2, <2>3
<1> QED BY <1>3, <1>4

LEMMA CompleteFits == ASSUME FilesFit, Complete PROVE FilesFit'
  BY DEF Complete, FilesFit, StackFits, RegistryFits, Grounded, NoneForgotten

LEMMA FilesStep == FilesFit /\ [UNext]_uvars => FilesFit'
<1> SUFFICES ASSUME FilesFit, [UNext]_uvars PROVE FilesFit'
  OBVIOUS
<1>1. CASE UNCHANGED buildVars
  <2>1. UNCHANGED protos /\ UNCHANGED unvisited /\ UNCHANGED building /\ UNCHANGED registry /\ UNCHANGED linking
    BY <1>1 DEF buildVars
  <2>2. StackFits' /\ RegistryFits' /\ (NoneForgotten <=> NoneForgotten') /\ (Linkable(protos) <=> Linkable(protos)')
    BY <2>1 DEF FilesFit, StackFits, RegistryFits, Grounded, NoneForgotten, Linkable
  <2> QED BY <2>1, <2>2 DEF FilesFit
<1>2. CASE Link
  BY <1>2, ReceiveFits, VisitFits, ImportFits, RegisterFits, CompleteFits DEF Link, BuildNext
<1>3. CASE HasMethod
  <2>1. protos' = NoFiles /\ registry' = {} /\ linking' = "none" /\ unvisited' = {} /\ building' = <<>>
    BY <1>3 DEF HasMethod
  <2> QED BY <2>1 DEF NoFiles, FilesFit, StackFits, RegistryFits, NoneForgotten, Grounded
<1> QED BY <1>1, <1>2, <1>3 DEF UNext, uvars, Reply, Reflect, Fetched, Method, Invoke

LEMMA AlwaysFit == USpec => []FilesFit
<1>1. UInit => FilesFit
  BY EmptyFits DEF UInit, BuildInit
<1> QED BY <1>1, FilesStep, PTL DEF USpec

\* The imports of a registered file are there, and no file is built twice at a
\* time, so that the recursion of build ends (grpc.go:273-302).
THEOREM BuildsAreOrderly == USpec => []BuildIsOrderly
<1>1. FilesFit => BuildIsOrderly
  BY DEF FilesFit, RegistryFits, StackFits, BuildIsOrderly
<1> QED BY <1>1, AlwaysFit, PTL

LEMMA BuiltIsLinkable == FilesFit /\ linking = "built" => Linkable(protos) /\ registry = DOMAIN protos
<1> SUFFICES ASSUME FilesFit, linking = "built" PROVE Linkable(protos) /\ registry = DOMAIN protos
  OBVIOUS
<1>1. building = <<>> /\ unvisited = {} /\ NoneForgotten /\ RegistryFits
  BY DEF FilesFit
<1>2. registry = DOMAIN protos
  <2>1. {building[i] : i \in 1 .. Len(building)} = {}
    BY <1>1
  <2> QED BY <1>1, <2>1 DEF RegistryFits, NoneForgotten
<1>3. /\ \A f \in DOMAIN protos : protos[f].valid
      /\ \A f \in DOMAIN protos \ LinkedIn : protos[f].imports \subseteq DOMAIN protos \cup LinkedIn
  BY <1>1, <1>2 DEF RegistryFits
<1>4. \A S \in (SUBSET (DOMAIN protos \ LinkedIn)) \ {{}} : \E f \in S : protos[f].imports \cap S = {}
  BY <1>1, <1>2 DEF RegistryFits, Grounded
<1> QED BY <1>2, <1>3, <1>4 DEF Linkable

\* The build succeeds exactly when the received files can be linked, and then
\* registers exactly them, whatever the order of the range loop and of the
\* imports (grpc.go:262-308).
THEOREM BuildsAreExact == USpec => []BuildIsExact
<1>1. FilesFit => BuildIsExact
  BY BuiltIsLinkable DEF FilesFit, BuildIsExact
<1> QED BY <1>1, AlwaysFit, PTL

-----------------------------------------------------------------------------
(* The verdict. *)

\* A part of the body has arrived, and all of it if it is whole.
Partly(x, length) ==
    /\ x.arrived \in 0 .. length /\ x.whole \in BOOLEAN
    /\ x.whole => x.arrived = length

LEMMA BodyReceived ==
  ASSUME NEW k, NEW c, NEW m, NEW d, NEW n \in Nat, NEW x \in Received(Body(k, c, m, d, n))
  PROVE  /\ x.content.kind = k /\ x.content.code = c /\ x.content.message = m
         /\ x.content.details = d /\ x.content.length = n /\ Partly(x, n)
<1> DEFINE b == Body(k, c, m, d, n)
<1>1. b.kind = k /\ b.code = c /\ b.message = m /\ b.details = d /\ b.length = n
  BY DEF Body
<1>2. x.content = b /\ x.arrived \in 0 .. b.length /\ x.whole \in BOOLEAN /\ (x.whole => x.arrived = b.length)
  <2> HIDE DEF b
  <2> SUFFICES ASSUME b.length \in Nat, x \in Received(b)
               PROVE  x.content = b /\ x.arrived \in 0 .. b.length /\ x.whole \in BOOLEAN /\ (x.whole => x.arrived = b.length)
    BY <1>1 DEF b
  <2>1. CASE x \in {[content |-> b, arrived |-> i, whole |-> FALSE] : i \in 0 .. b.length}
    <3>1. PICK i \in 0 .. b.length : x = [content |-> b, arrived |-> i, whole |-> FALSE]
      BY <2>1
    <3> QED BY <3>1
  <2>2. CASE x = [content |-> b, arrived |-> b.length, whole |-> TRUE]
    <3>1. b.length \in 0 .. b.length
      OBVIOUS
    <3> QED BY <2>2, <3>1
  <2> QED BY <2>1, <2>2 DEF Received
<1> HIDE DEF b
<1> QED BY <1>1, <1>2 DEF Partly

LEMMA LengthsAreNat == Lengths \subseteq Nat \ {0} /\ Limits \subseteq Nat \ {0}
  BY LengthAssumption

LEMMA ObjectReceived ==
  ASSUME NEW c, NEW m, NEW d, NEW n \in Nat, NEW x \in Received(Object(c, m, d, n))
  PROVE  /\ x.content.kind = "json" /\ x.content.code = c /\ x.content.message = m
         /\ x.content.details = d /\ x.content.length = n /\ Partly(x, n)
  BY BodyReceived DEF Object

LEMMA PlainReceived ==
  ASSUME NEW b \in Plain, NEW x \in Received(b)
  PROVE  /\ x.content.kind \in {"empty", "text"} /\ x.whole \in BOOLEAN /\ x.arrived \in Nat
         /\ x.content.kind = "empty" => x.arrived = 0
<1>1. CASE b = Body("empty", 0, "none", 0, 0)
  <2>1. x.content.kind = "empty" /\ Partly(x, 0)
    BY <1>1, BodyReceived
  <2> QED BY <2>1 DEF Partly
<1>2. CASE b = Body("text", 0, "none", 0, 1)
  <2>1. x.content.kind = "text" /\ Partly(x, 1)
    BY <1>2, BodyReceived
  <2> QED BY <2>1 DEF Partly
<1> QED BY <1>1, <1>2 DEF Plain

LEMMA HTTPFields ==
  ASSUME NEW statuses, NEW bodies, NEW r \in HTTP(statuses, bodies)
  PROVE  r.outcome = "http" /\ r.status \in statuses /\ \E b \in bodies : r.body \in Received(b)
  BY DEF HTTP

\* What arrives for each cause, as far as DoJSON and IsRouteNotFound look at it.
LEMMA ServedReplies ==
  ASSUME NEW r \in HTTPReplies("served")
  PROVE  /\ r.outcome = "http" /\ r.status = 200 /\ Partly(r.body, r.body.content.length)
         /\ r.body.content.kind = "json" /\ r.body.content.message = "result"
         /\ r.body.content.length \in Lengths
<1> DEFINE bodies == {Object(0, "result", 0, n) : n \in Lengths}
<1>1. HTTPReplies("served") = HTTP({200}, bodies)
  BY SMT DEF HTTPReplies
<1>2. r \in HTTP({200}, bodies)
  BY <1>1
<1>3. r.outcome = "http" /\ r.status = 200 /\ \E b \in bodies : r.body \in Received(b)
  <2> HIDE DEF bodies
  <2> QED BY <1>2, HTTPFields
<1>4. PICK n \in Lengths : r.body \in Received(Object(0, "result", 0, n))
  BY <1>3
<1>5. n \in Nat
  BY LengthsAreNat
<1> HIDE DEF bodies
<1> QED BY <1>3, <1>4, <1>5, ObjectReceived

LEMMA RejectedReplies ==
  ASSUME NEW r \in HTTPReplies("rejected")
  PROVE  /\ r.outcome = "http" /\ r.status = 200 /\ Partly(r.body, 1)
         /\ r.body.content.kind = "json" /\ r.body.content.length = 1
         /\ r.body.content.message # "result"
<1> DEFINE bodies == {Object(0, m, 0, 1) : m \in {"error", "no_result"}}
<1>1. HTTPReplies("rejected") = HTTP({200}, bodies)
  BY SMT DEF HTTPReplies
<1>2. r \in HTTP({200}, bodies)
  BY <1>1
<1>3. r.outcome = "http" /\ r.status = 200 /\ \E b \in bodies : r.body \in Received(b)
  <2> HIDE DEF bodies
  <2> QED BY <1>2, HTTPFields
<1>4. PICK m \in {"error", "no_result"} : r.body \in Received(Object(0, m, 0, 1))
  BY <1>3
<1> HIDE DEF bodies
<1> QED BY <1>3, <1>4, ObjectReceived

LEMMA DroppedReplies ==
  ASSUME NEW r \in HTTPReplies("dropped")
  PROVE  /\ r.outcome = "http" /\ r.status = 501 /\ Partly(r.body, 1)
         /\ r.body.content.kind = "json" /\ r.body.content.length = 1 /\ r.body.content.code = 12
<1> DEFINE bodies == {Object(12, m, 0, 1) : m \in {"not_found", "other"}}
<1>1. HTTPReplies("dropped") = HTTP({501}, bodies)
  BY SMT DEF HTTPReplies
<1>2. r \in HTTP({501}, bodies)
  BY <1>1
<1>3. r.outcome = "http" /\ r.status = 501 /\ \E b \in bodies : r.body \in Received(b)
  <2> HIDE DEF bodies
  <2> QED BY <1>2, HTTPFields
<1>4. PICK m \in {"not_found", "other"} : r.body \in Received(Object(12, m, 0, 1))
  BY <1>3
<1> HIDE DEF bodies
<1> QED BY <1>3, <1>4, ObjectReceived

LEMMA GarbledReplies ==
  ASSUME NEW r \in HTTPReplies("garbled")
  PROVE  /\ r.outcome = "http" /\ r.status \in {200} /\ r.body.whole \in BOOLEAN /\ r.body.arrived \in Nat
         /\ r.body.content.kind \in {"empty", "text"}
<1>1. HTTPReplies("garbled") = HTTP({200}, Plain)
  BY SMT DEF HTTPReplies
<1>2. r.outcome = "http" /\ r.status \in {200} /\ \E b \in Plain : r.body \in Received(b)
  BY <1>1, HTTPFields
<1> QED BY <1>2, PlainReceived

LEMMA OverloadedReplies ==
  ASSUME NEW r \in HTTPReplies("overloaded")
  PROVE  /\ r.outcome = "http" /\ r.status \in {302, 401, 429, 501, 502, 503} /\ r.body.whole \in BOOLEAN
         /\ r.body.content.kind \in {"empty", "text"}
<1>1. HTTPReplies("overloaded") = HTTP({302, 401, 429, 501, 502, 503}, Plain)
  BY SMT DEF HTTPReplies
<1>2. r.outcome = "http" /\ r.status \in {302, 401, 429, 501, 502, 503} /\ \E b \in Plain : r.body \in Received(b)
  BY <1>1, HTTPFields
<1> QED BY <1>2, PlainReceived

LEMMA UnroutedReplies ==
  ASSUME NEW r \in HTTPReplies("unrouted")
  PROVE  /\ r.outcome = "http" /\ r.status = 404 /\ r.body.whole \in BOOLEAN /\ r.body.arrived \in Nat
         /\ \/ /\ r.body.content.kind \in {"empty", "text"}
               /\ r.body.content.kind = "empty" => r.body.arrived = 0
            \/ /\ r.body.content.kind = "json" /\ r.body.content.length = 1 /\ r.body.content.code = 5
               /\ r.body.content.message = "not_found" /\ r.body.content.details = 0 /\ Partly(r.body, 1)
<1>1. HTTPReplies("unrouted") = HTTP({404}, Plain \cup {RoutingMiss})
  BY SMT DEF HTTPReplies
<1>2. /\ r.outcome = "http" /\ r.status = 404
      /\ \E b \in Plain \cup {RoutingMiss} : r.body \in Received(b)
  BY <1>1, HTTPFields
<1>3. CASE \E b \in Plain : r.body \in Received(b)
  BY <1>2, <1>3, PlainReceived
<1>4. CASE r.body \in Received(RoutingMiss)
  <2>1. /\ r.body.content.kind = "json" /\ r.body.content.length = 1 /\ r.body.content.code = 5
        /\ r.body.content.message = "not_found" /\ r.body.content.details = 0 /\ Partly(r.body, 1)
    BY <1>4, ObjectReceived DEF RoutingMiss
  <2> QED BY <1>2, <2>1 DEF Partly
<1> QED BY <1>2, <1>3, <1>4

LEMMA RefusedReplies ==
  ASSUME NEW r \in HTTPReplies("refused")
  PROVE  /\ r.outcome = "http" /\ r.status \in {400, 404, 500} /\ Partly(r.body, r.body.content.length)
         /\ r.body.content.kind = "json" /\ r.body.content.length \in Lengths /\ r.body.content.code # 12
         /\ ~ (r.body.content.code = 5 /\ r.body.content.message = "not_found" /\ r.body.content.details = 0)
<1> DEFINE all == {Object(c, m, d, n) : c \in {3, 5, 13}, m \in {"not_found", "other"},
                                       d \in {0, 1}, n \in Lengths}
           misses == {Object(5, "not_found", 0, n) : n \in Lengths}
<1>1. HTTPReplies("refused") = HTTP({400, 404, 500}, all \ misses)
  BY SMT DEF HTTPReplies
<1>2. PICK b \in all \ misses : r.outcome = "http" /\ r.status \in {400, 404, 500} /\ r.body \in Received(b)
  <2> HIDE DEF all, misses
  <2> QED BY <1>1, HTTPFields
<1>3. PICK c \in {3, 5, 13}, m \in {"not_found", "other"}, d \in {0, 1}, n \in Lengths : b = Object(c, m, d, n)
  <2>1. b \in all
    BY <1>2
  <2> QED BY <2>1
<1>4. ~ (c = 5 /\ m = "not_found" /\ d = 0)
  <2>1. b \notin misses
    BY <1>2
  <2>2. CASE c = 5 /\ m = "not_found" /\ d = 0
    <3>1. b = Object(5, "not_found", 0, n)
      BY <1>3, <2>2
    <3>2. Object(5, "not_found", 0, n) \in misses
      BY <1>3
    <3> QED BY <2>1, <3>1, <3>2
  <2> QED BY <2>2
<1>5. n \in Nat
  BY LengthsAreNat
<1> HIDE DEF all, misses
<1>6. /\ r.body.content.kind = "json" /\ r.body.content.code = c /\ r.body.content.message = m
      /\ r.body.content.details = d /\ r.body.content.length = n /\ Partly(r.body, n)
  BY <1>2, <1>3, <1>5, ObjectReceived
<1> QED BY <1>2, <1>3, <1>4, <1>6

LEMMA SilentReplies ==
  /\ \A r \in HTTPReplies("slow") : r.outcome = "timeout"
  /\ \A r \in HTTPReplies("down") : r.outcome = "unreachable"
<1>1. HTTPReplies("slow") = NoAnswer("timeout")
  BY SMT DEF HTTPReplies
<1>2. HTTPReplies("down") = NoAnswer("unreachable")
  BY SMT DEF HTTPReplies
<1> QED BY <1>1, <1>2 DEF NoAnswer

-----------------------------------------------------------------------------
LEMMA NeverMissing == \A r : DoJSON(r) # "missing" /\ InvokeRPC(r) # "missing"
<1> SUFFICES ASSUME NEW r PROVE DoJSON(r) # "missing" /\ InvokeRPC(r) # "missing"
  OBVIOUS
<1>1. DoJSON(r) \in {"upstream_timeout", "endpoint_unavailable", "upstream_error",
                     "response_too_large", "answer"}
  BY SMT DEF DoJSON
<1> QED BY <1>1 DEF InvokeRPC

\* A whole answer leads to the next binding if and only if the route is absent.
LEMMA RouteVerdict ==
  ASSUME NEW why \in HTTPCauses, NEW r \in HTTPReplies(why),
         r.outcome = "http" => r.body.whole
  PROVE  IsRouteNotFound(r) <=> why \in {"unrouted", "dropped"}
<1>0. Lengths \subseteq Nat \ {0} /\ ErrorBodyLimit \in Nat \ {0}
  BY LengthAssumption
<1> USE <1>0 DEF IsRouteNotFound, Failed, Parses, Kept, Partly
<1>1. CASE why \in {"served", "rejected", "garbled"}
  BY <1>1, ServedReplies, RejectedReplies, GarbledReplies
<1>2. CASE why = "unrouted"
  BY <1>2, UnroutedReplies
<1>3. CASE why = "dropped"
  BY <1>3, DroppedReplies
<1>4. CASE why = "refused"
  BY <1>4, RefusedReplies
<1>5. CASE why = "overloaded"
  BY <1>5, OverloadedReplies
<1>6. CASE why \in {"slow", "down"}
  BY <1>6, SilentReplies
<1> QED BY <1>1, <1>2, <1>3, <1>4, <1>5, <1>6 DEF HTTPCauses

\* The limit, up to the overflow of the reader.
LEMMA LimitVerdict ==
  ASSUME maxBytes \in Limits, NEW r \in HTTPReplies("served")
  PROVE  /\ DoJSON(r) = "answer"
               <=> r.body.whole /\ maxBytes # MaxInt /\ r.body.content.length <= maxBytes
         /\ DoJSON(r) = "response_too_large" <=> r.body.arrived > maxBytes
         /\ ~ IsRouteNotFound(r) /\ r.body.content.message = "result"
<1> DEFINE n == r.body.arrived
           length == r.body.content.length
           whole == r.body.whole
<1>1. /\ r.outcome = "http" /\ r.status = 200 /\ r.body.content.kind = "json"
      /\ r.body.content.message = "result" /\ length \in 1 .. MaxInt
      /\ maxBytes \in 1 .. MaxInt /\ MaxInt \in Nat
      /\ n \in 0 .. length /\ whole \in BOOLEAN /\ (whole => n = length)
  BY ServedReplies, LengthAssumption DEF Partly
<1>2. ~ Failed(r)
  BY <1>1 DEF Failed
<1>3. ~ IsRouteNotFound(r)
  BY <1>2 DEF IsRouteNotFound
<1>4. /\ maxBytes = MaxInt => Asked < 0
      /\ maxBytes # MaxInt => Asked = maxBytes + 1
  BY <1>1 DEF Asked, Sum
<1>5. DoJSON(r) = IF ReadFails(r.body) THEN "upstream_error"
                  ELSE IF TooLong(BytesRead(r.body), maxBytes) THEN "response_too_large"
                  ELSE IF Parses(r.body, BytesRead(r.body)) THEN "answer" ELSE "upstream_error"
  BY <1>1, <1>2, SMT DEF DoJSON
<1>6. CASE maxBytes = MaxInt
  <2>1. Asked < 0 /\ Asked \in Int
    BY <1>1, <1>4, <1>6 DEF Asked, Sum
  <2>2. ~ ReadFails(r.body)
    <3>1. ~ (n < Asked)
      BY <1>1, <2>1
    <3> QED BY <3>1 DEF ReadFails
  <2>3. BytesRead(r.body) = 0
    BY <2>1 DEF BytesRead
  <2>4. DoJSON(r) = "upstream_error"
    <3>1. ~ TooLong(0, maxBytes) /\ ~ Parses(r.body, 0)
      BY <1>1 DEF TooLong, Parses
    <3> QED BY <1>5, <2>2, <2>3, <3>1
  <2> QED BY <1>1, <1>3, <1>6, <2>4
<1>7. CASE maxBytes # MaxInt
  <2>1. BytesRead(r.body) = IF n <= maxBytes + 1 THEN n ELSE maxBytes + 1
    BY <1>1, <1>4, <1>7 DEF BytesRead
  <2>2. ReadFails(r.body) <=> ~ whole /\ n < maxBytes + 1
    BY <1>4, <1>7 DEF ReadFails
  <2>3. TooLong(BytesRead(r.body), maxBytes) <=> n > maxBytes
    BY <1>1, <2>1 DEF TooLong
  <2>4. n <= maxBytes => (Parses(r.body, BytesRead(r.body)) <=> length <= n)
    BY <1>1, <2>1 DEF Parses
  <2>5. CASE n > maxBytes
    <3>1. DoJSON(r) = "response_too_large"
      BY <1>1, <1>5, <2>2, <2>3, <2>5
    <3> QED BY <1>1, <1>3, <2>5, <3>1
  <2>6. CASE n <= maxBytes /\ ~ whole
    <3>1. DoJSON(r) = "upstream_error"
      BY <1>1, <1>5, <2>2, <2>6
    <3> QED BY <1>1, <1>3, <2>6, <3>1
  <2>7. CASE n <= maxBytes /\ whole
    <3>1. DoJSON(r) = "answer"
      BY <1>1, <1>5, <2>2, <2>3, <2>4, <2>7
    <3> QED BY <1>1, <1>3, <1>7, <2>7, <3>1
  <2> QED BY <1>1, <2>5, <2>6, <2>7
<1> QED BY <1>6, <1>7

\* An answer cut short is an error, whatever it would have said.
LEMMA CutVerdict ==
  ASSUME maxBytes \in Limits, NEW why \in HTTPCauses, NEW r \in HTTPReplies(why), r.outcome = "http",
         ~ Failed(r), ~ r.body.whole, r.body.arrived <= maxBytes
  PROVE  DoJSON(r) = "upstream_error" /\ ~ IsRouteNotFound(r)
<1>1. /\ maxBytes \in 1 .. MaxInt /\ MaxInt \in Nat
      /\ r.body.arrived \in Nat /\ r.body.whole \in BOOLEAN
      /\ r.body.content.kind = "json" => r.body.content.length \in Nat \ {0}
  <2>1. /\ maxBytes \in 1 .. MaxInt /\ MaxInt \in Nat
    BY LengthAssumption
  <2>2. CASE why \in {"served", "refused"}
    <3>1. r.body.content.length \in Lengths /\ Partly(r.body, r.body.content.length)
      BY <2>2, ServedReplies, RefusedReplies
    <3>2. r.body.content.length \in Nat \ {0}
      BY <3>1, LengthsAreNat
    <3> QED BY <2>1, <3>1, <3>2 DEF Partly
  <2>3. CASE why = "rejected"
    BY <2>1, <2>3, RejectedReplies DEF Partly
  <2>4. CASE why = "garbled"
    BY <2>1, <2>4, GarbledReplies
  <2>5. CASE why \in {"unrouted", "dropped", "overloaded", "slow", "down"}
    BY <2>5, UnroutedReplies, DroppedReplies, OverloadedReplies, SilentReplies DEF Failed
  <2> QED BY <2>1, <2>2, <2>3, <2>4, <2>5 DEF HTTPCauses
<1>2. DoJSON(r) = IF ReadFails(r.body) THEN "upstream_error"
                  ELSE IF TooLong(BytesRead(r.body), maxBytes) THEN "response_too_large"
                  ELSE IF Parses(r.body, BytesRead(r.body)) THEN "answer" ELSE "upstream_error"
  BY SMT DEF DoJSON
<1>3. CASE maxBytes = MaxInt
  <2>1. Asked < 0
    BY <1>1, <1>3 DEF Asked, Sum
  <2>2. BytesRead(r.body) = 0
    BY <2>1 DEF BytesRead
  <2>3. ~ TooLong(0, maxBytes) /\ ~ Parses(r.body, 0)
    BY <1>1 DEF TooLong, Parses
  <2> QED BY <1>2, <2>2, <2>3 DEF IsRouteNotFound
<1>4. CASE maxBytes # MaxInt
  <2>1. Asked = maxBytes + 1
    BY <1>1, <1>4 DEF Asked, Sum
  <2>2. ReadFails(r.body)
    BY <1>1, <2>1 DEF ReadFails
  <2> QED BY <1>2, <2>2 DEF IsRouteNotFound
<1> QED BY <1>3, <1>4

LEMMA SilentVerdict ==
  /\ \A r \in HTTPReplies("slow") : DoJSON(r) = "upstream_timeout" /\ ~ IsRouteNotFound(r)
  /\ \A r \in HTTPReplies("down") : DoJSON(r) = "endpoint_unavailable" /\ ~ IsRouteNotFound(r)
<1>1. \A r : r.outcome = "timeout" => DoJSON(r) = "upstream_timeout" /\ ~ IsRouteNotFound(r)
  BY SMT DEF DoJSON, IsRouteNotFound, Failed
<1>2. \A r : r.outcome = "unreachable" => DoJSON(r) = "endpoint_unavailable" /\ ~ IsRouteNotFound(r)
  BY SMT DEF DoJSON, IsRouteNotFound, Failed
<1> QED BY <1>1, <1>2, SilentReplies

-----------------------------------------------------------------------------
\* What the three properties ask of a verdict v on this attempt.
Sound(v) ==
    /\ Arrived => (v = "missing" <=> cause \in Absent)
    /\ cause[2] = "served" =>
          IF cause[1] = "grpc"
          THEN LET fits == \A n \in {reply.wire, reply.length} : n <= maxBytes /\ n <= MaxInt32
               IN v = IF fits THEN "answer" ELSE "response_too_large"
          ELSE /\ v = "answer" <=> /\ reply.body.whole /\ maxBytes # MaxInt
                                   /\ reply.body.content.length <= maxBytes
               /\ v = "response_too_large" <=> reply.body.arrived > maxBytes
    /\ cause[2] = "slow" => v = "upstream_timeout"
    /\ cause[2] = "down" => v = "endpoint_unavailable"
    /\ cause[2] \in {"reflection_off", "reflection_down"} => v = "grpc_reflection_unavailable"
    /\ cause[2] = "misdescribed" => v = "upstream_error"
    /\ CutShort => v = "upstream_error"
    /\ cause[2] \in {"streaming", "mismatched"} => v = "invalid_input"
    /\ cause[2] = "unencodable" => v \in {"upstream_error", "response_too_large"}
    /\ cause = <<"grpc", "failing">> =>
          /\ reply.method = "DeadlineExceeded" => v = "upstream_timeout"
          /\ reply.method \in {"Unavailable", "Canceled"} => v = "endpoint_unavailable"
          /\ reply.method = "ResourceExhausted" => v = "response_too_large"
          /\ reply.method = "NotFound" => v = "invalid_input"

Callable == {"served", "unencodable", "unimplemented", "failing", "streaming", "mismatched"}

\* The reply at each step is one of those the cause leads to.
VerdictFits ==
    /\ cause \in Causes /\ maxBytes \in Limits
    /\ step \in {"asked", "fetched", "building", "found", "answered", "judged"}
    /\ step \in {"fetched", "building", "found"} => cause[1] = "grpc"
    /\ step = "fetched" => reply \in ReflectionReplies(cause[2])
    /\ step = "building" => cause[2] \in Described /\ reply.outcome = "none"
    /\ step # "building" => linking = "none"
    /\ linking # "none" => (Linkable(protos) <=> cause[2] # "misdescribed")
    /\ step = "found" => cause[2] \in Callable
    /\ step = "answered" =>
          IF cause[1] = "grpc"
          THEN cause[2] \in Callable /\ reply \in MethodReplies(cause[2])
          ELSE reply \in HTTPReplies(cause[2])
    /\ step = "judged" => Sound(verdict)

LEMMA CauseFields ==
  ASSUME cause \in Causes
  PROVE  /\ cause[1] \in {"lcd", "rpc", "grpc"} /\ cause = <<cause[1], cause[2]>>
         /\ cause[1] = "grpc" => cause[2] \in GRPCCauses
         /\ cause[1] = "lcd" => cause[2] \in HTTPCauses \ {"rejected"}
         /\ cause[1] = "rpc" => cause[2] \in HTTPCauses \ {"dropped"}
  BY DEF Causes

LEMMA LCDSound ==
  ASSUME cause \in Causes, maxBytes \in Limits, cause[1] = "lcd", reply \in HTTPReplies(cause[2])
  PROVE  Sound(InvokeLCD(reply))
<1>1. cause[2] \in HTTPCauses /\ cause = <<"lcd", cause[2]>> /\ cause[2] \notin GRPCCauses \ {"served"}
  BY CauseFields DEF HTTPCauses, GRPCCauses, Described
<1>2. Arrived => (InvokeLCD(reply) = "missing" <=> cause \in Absent)
  BY <1>1, RouteVerdict, NeverMissing DEF Arrived, InvokeLCD, Absent
<1>3. CutShort => InvokeLCD(reply) = "upstream_error"
  BY <1>1, CutVerdict DEF CutShort, InvokeLCD
<1>4. CASE cause[2] = "served"
  BY <1>1, <1>2, <1>3, <1>4, LimitVerdict DEF Sound, InvokeLCD
<1>5. CASE cause[2] \in {"slow", "down"}
  BY <1>1, <1>2, <1>3, <1>5, SilentVerdict DEF Sound, InvokeLCD
<1>6. CASE cause[2] \notin {"served", "slow", "down"}
  BY <1>1, <1>2, <1>3, <1>6 DEF Sound, GRPCCauses, Described
<1> QED BY <1>4, <1>5, <1>6

LEMMA RPCSound ==
  ASSUME cause \in Causes, maxBytes \in Limits, cause[1] = "rpc", reply \in HTTPReplies(cause[2])
  PROVE  Sound(InvokeRPC(reply))
<1>1. /\ cause[2] \in HTTPCauses /\ cause = <<"rpc", cause[2]>> /\ cause \notin Absent
      /\ cause[2] \notin GRPCCauses \ {"served"}
  BY CauseFields DEF Absent, HTTPCauses, GRPCCauses, Described
<1>2. InvokeRPC(reply) # "missing"
  BY NeverMissing
<1>3. CutShort => InvokeRPC(reply) = "upstream_error"
  BY <1>1, CutVerdict DEF CutShort, InvokeRPC
<1>4. CASE cause[2] = "served"
  <2>1. InvokeRPC(reply) = DoJSON(reply)
    BY <1>4, LimitVerdict DEF InvokeRPC
  <2> QED BY <1>1, <1>2, <1>3, <1>4, <2>1, LimitVerdict DEF Sound
<1>5. CASE cause[2] \in {"slow", "down"}
  <2>1. InvokeRPC(reply) = DoJSON(reply)
    BY <1>5, SilentVerdict DEF InvokeRPC
  <2> QED BY <1>1, <1>2, <1>3, <1>5, <2>1, SilentVerdict DEF Sound
<1>6. CASE cause[2] \notin {"served", "slow", "down"}
  BY <1>1, <1>2, <1>3, <1>6 DEF Sound, GRPCCauses, Described
<1> QED BY <1>4, <1>5, <1>6

LEMMA MethodFields ==
  /\ \A why \in {"served", "unencodable"} : \A r \in MethodReplies(why) :
        /\ r.outcome = "grpc" /\ r.method = "OK" /\ r.wire \in Nat /\ r.length \in Nat
        /\ r.encodes = (why = "served")
  /\ \A r \in MethodReplies("unimplemented") : r.outcome = "grpc" /\ r.method = "Unimplemented"
  /\ \A r \in MethodReplies("failing") : r.outcome = "grpc" /\ r.method \in Failures \cup {"NotFound"}
  /\ \A why \in {"streaming", "mismatched"} : \A r \in MethodReplies(why) : r.outcome = "unsent"
<1>1. MethodReplies("served") = Calls({"OK"}, {TRUE}) /\ MethodReplies("unencodable") = Calls({"OK"}, {FALSE})
  BY SMT DEF MethodReplies
<1>2. MethodReplies("unimplemented") = NoMessage({"Unimplemented"})
  BY SMT DEF MethodReplies
<1>3. MethodReplies("failing") = NoMessage(Failures \cup {"NotFound"})
  BY SMT DEF MethodReplies
<1>4. \A why \in {"streaming", "mismatched"} : MethodReplies(why) = NoAnswer("unsent")
  BY SMT DEF MethodReplies
<1>5. \A e : \A r \in Calls({"OK"}, {e}) :
         r.outcome = "grpc" /\ r.method = "OK" /\ r.encodes = e /\ r.wire \in Nat /\ r.length \in Nat
  <2> SUFFICES ASSUME NEW e, NEW r \in Calls({"OK"}, {e})
               PROVE  r.outcome = "grpc" /\ r.method = "OK" /\ r.encodes = e /\ r.wire \in Nat /\ r.length \in Nat
    OBVIOUS
  <2>1. /\ r.outcome \in {"grpc"} /\ r.method \in {"OK"} /\ r.encodes \in {e}
        /\ r.wire \in {0} \cup Lengths /\ r.length \in Lengths
    BY DEF Calls
  <2>2. r.wire \in Nat /\ r.length \in Nat
    <3>1. r.wire \in {0} \cup Lengths /\ r.length \in Lengths
      BY <2>1
    <3>2. {0} \cup Lengths \subseteq Nat /\ Lengths \subseteq Nat
      BY LengthsAreNat
    <3> QED BY <3>1, <3>2, Zenon
  <2>3. r.encodes = e
    BY <2>1, Zenon
  <2> QED BY <2>1, <2>2, <2>3, Zenon
<1>6. \A statuses : \A r \in NoMessage(statuses) : r.outcome = "grpc" /\ r.method \in statuses
  BY DEF NoMessage
<1>7. \A r \in NoAnswer("unsent") : r.outcome = "unsent"
  BY DEF NoAnswer
<1>8. ASSUME NEW why \in {"served", "unencodable"}, NEW r \in MethodReplies(why)
      PROVE  /\ r.outcome = "grpc" /\ r.method = "OK" /\ r.wire \in Nat /\ r.length \in Nat
             /\ r.encodes = (why = "served")
  <2>1. CASE why = "served"
    <3>1. r \in Calls({"OK"}, {TRUE})
      BY <1>1, <1>8, <2>1
    <3>2. r.outcome = "grpc" /\ r.method = "OK" /\ r.encodes = TRUE /\ r.wire \in Nat /\ r.length \in Nat
      BY <1>5, <3>1, Zenon
    <3> QED BY <2>1, <3>2
  <2>2. CASE why = "unencodable"
    <3>1. r \in Calls({"OK"}, {FALSE})
      BY <1>1, <1>8, <2>2
    <3>2. r.outcome = "grpc" /\ r.method = "OK" /\ r.encodes = FALSE /\ r.wire \in Nat /\ r.length \in Nat
      BY <1>5, <3>1, Zenon
    <3> QED BY <2>2, <3>2
  <2> QED BY <2>1, <2>2
<1>9. \A r \in MethodReplies("unimplemented") : r.outcome = "grpc" /\ r.method = "Unimplemented"
  BY <1>2, <1>6
<1>10. \A r \in MethodReplies("failing") : r.outcome = "grpc" /\ r.method \in Failures \cup {"NotFound"}
  BY <1>3, <1>6
<1>11. \A why \in {"streaming", "mismatched"} : \A r \in MethodReplies(why) : r.outcome = "unsent"
  BY <1>4, <1>7
<1> QED BY <1>8, <1>9, <1>10, <1>11

LEMMA StatusCodes ==
  \A s \in Failures \cup {"NotFound"} :
     /\ MapGRPCError(s) # "missing"
     /\ s = "DeadlineExceeded" => MapGRPCError(s) = "upstream_timeout"
     /\ s \in {"Unavailable", "Canceled"} => MapGRPCError(s) = "endpoint_unavailable"
     /\ s = "ResourceExhausted" => MapGRPCError(s) = "response_too_large"
     /\ s = "NotFound" => MapGRPCError(s) = "invalid_input"
  BY SMT DEF Failures, MapGRPCError

\* A message counts as too long on the wire and as JSON alike.
LEMMA LengthVerdict ==
  ASSUME maxBytes \in Limits, NEW r, r.outcome = "grpc", r.method = "OK", r.wire \in Nat, r.length \in Nat,
         r.encodes \in BOOLEAN
  PROVE  LET fits == \A n \in {r.wire, r.length} : n <= maxBytes /\ n <= MaxInt32
         IN  /\ r.encodes => InvokeGRPC(r) = IF fits THEN "answer" ELSE "response_too_large"
             /\ ~ r.encodes => InvokeGRPC(r) \in {"upstream_error", "response_too_large"}
<1>1. maxBytes \in Nat /\ MaxInt32 \in Nat
  BY LengthAssumption
<1>2. \A n \in Nat : TooLong(n, MessageLimit) <=> ~ (n <= maxBytes /\ n <= MaxInt32)
  BY <1>1 DEF TooLong, MessageLimit
<1>3. MapGRPCError("ResourceExhausted") = "response_too_large"
  BY SMT DEF MapGRPCError
<1>4. InvokeGRPC(r) = IF TooLong(r.wire, MessageLimit) THEN "response_too_large"
                      ELSE IF ~ r.encodes THEN "upstream_error"
                      ELSE IF TooLong(r.length, MessageLimit) THEN "response_too_large" ELSE "answer"
  BY <1>3 DEF InvokeGRPC, Query, StatusOf
<1> QED BY <1>2, <1>4

LEMMA MethodSound ==
  ASSUME cause \in Causes, maxBytes \in Limits, cause[1] = "grpc",
         cause[2] \in Callable, reply \in MethodReplies(cause[2])
  PROVE  Sound(InvokeGRPC(reply))
<1>1. cause = <<"grpc", cause[2]>>
  BY CauseFields
<1>2. CASE cause[2] \in {"served", "unencodable"}
  <2>1. /\ reply.outcome = "grpc" /\ reply.method = "OK" /\ reply.wire \in Nat /\ reply.length \in Nat
        /\ reply.encodes = (cause[2] = "served")
    BY <1>2, MethodFields
  <2>2. cause \notin Absent
    BY <1>1, <1>2 DEF Absent
  <2> QED BY <1>1, <1>2, <2>1, <2>2, LengthVerdict DEF Sound, Arrived, CutShort
<1>3. CASE cause[2] = "unimplemented"
  BY <1>1, <1>3, MethodFields DEF Sound, Arrived, CutShort, Absent, InvokeGRPC
<1>4. CASE cause[2] = "failing"
  <2>1. reply.outcome = "grpc" /\ reply.method \in Failures \cup {"NotFound"} /\ reply.method \notin {"Unimplemented", "OK"}
    BY <1>4, MethodFields DEF Failures
  <2>2. InvokeGRPC(reply) = MapGRPCError(reply.method) /\ cause \notin Absent
    BY <1>1, <1>4, <2>1 DEF InvokeGRPC, Query, StatusOf, Absent
  <2> QED BY <1>1, <1>4, <2>1, <2>2, StatusCodes DEF Sound, CutShort
<1>5. CASE cause[2] \in {"streaming", "mismatched"}
  <2>1. reply.outcome = "unsent"
    BY <1>5, MethodFields
  <2>2. InvokeGRPC(reply) = "invalid_input" /\ cause \notin Absent
    BY <1>1, <1>5, <2>1 DEF InvokeGRPC, Query, Absent
  <2> QED BY <1>1, <1>5, <2>1, <2>2 DEF Sound, CutShort
<1> QED BY <1>2, <1>3, <1>4, <1>5 DEF Callable

LEMMA ReflectionFields ==
  /\ \A r \in ReflectionReplies("unknown_service") : r.outcome = "reflection" /\ FetchSymbol(r) = "not_found"
  /\ \A why \in {"reflection_off", "reflection_down"} : \A r \in ReflectionReplies(why) :
        r.outcome = "reflection" /\ FetchSymbol(r) = "grpc_reflection_unavailable"
  /\ \A why \in Described : \A r \in ReflectionReplies(why) : FetchSymbol(r) = "descriptor"
<1> DEFINE Down == (Failures \X Unanswered) \cup ({"Unimplemented"} \X Failures)
<1>1. \A statuses : \A r \in Reflections(statuses) : r.outcome = "reflection" /\ r.reflection \in statuses
  BY DEF Reflections
<1>2. ReflectionReplies("unknown_service") = Reflections(Unknown)
  BY SMT DEF ReflectionReplies, Described
<1>3. ReflectionReplies("reflection_off") = Reflections({<<"Unimplemented", "Unimplemented">>})
  BY SMT DEF ReflectionReplies, Described
<1>4. ReflectionReplies("reflection_down") = Reflections(Down)
  BY SMT DEF ReflectionReplies, Described
<1>5. \A why \in Described : ReflectionReplies(why) = Reflections(Reflected)
  BY SMT DEF ReflectionReplies, Described
<1>6. \A r \in Reflections(Unknown) : FetchSymbol(r) = "not_found"
  BY <1>1 DEF Unknown, FetchSymbol, Unanswered, Failures
<1>7. \A r \in Reflections({<<"Unimplemented", "Unimplemented">>}) \cup Reflections(Down) :
         FetchSymbol(r) = "grpc_reflection_unavailable"
  BY <1>1 DEF FetchSymbol, Unanswered, Failures
<1>8. \A r \in Reflections(Reflected) : FetchSymbol(r) = "descriptor"
  BY <1>1 DEF Reflected, FetchSymbol
<1>9. \A r \in ReflectionReplies("unknown_service") : r.outcome = "reflection" /\ FetchSymbol(r) = "not_found"
  BY <1>1, <1>2, <1>6
<1>10. ASSUME NEW why \in {"reflection_off", "reflection_down"}, NEW r \in ReflectionReplies(why)
       PROVE  r.outcome = "reflection" /\ FetchSymbol(r) = "grpc_reflection_unavailable"
  <2>1. r \in Reflections({<<"Unimplemented", "Unimplemented">>}) \/ r \in Reflections(Down)
    BY <1>3, <1>4, <1>10
  <2>2. r.outcome = "reflection"
    BY <1>1, <2>1
  <2> QED BY <1>7, <2>1, <2>2
<1>11. \A why \in Described : \A r \in ReflectionReplies(why) : FetchSymbol(r) = "descriptor"
  BY <1>5, <1>8
<1> QED BY <1>9, <1>10, <1>11

LEMMA FetchSound ==
  ASSUME cause \in Causes, cause[1] = "grpc", reply \in ReflectionReplies(cause[2]),
         FetchSymbol(reply) # "descriptor"
  PROVE  Sound(IF FetchSymbol(reply) = "not_found" THEN "missing" ELSE FetchSymbol(reply))
<1>1. cause = <<"grpc", cause[2]>> /\ cause[2] \in {"unknown_service", "reflection_off", "reflection_down"}
  BY CauseFields, ReflectionFields DEF GRPCCauses
<1>2. CASE cause[2] = "unknown_service"
  BY <1>1, <1>2, ReflectionFields DEF Sound, CutShort, Absent
<1>3. CASE cause[2] \in {"reflection_off", "reflection_down"}
  <2>1. reply.outcome = "reflection" /\ FetchSymbol(reply) = "grpc_reflection_unavailable" /\ cause \notin Absent
    BY <1>1, <1>3, ReflectionFields DEF Absent
  <2> QED BY <1>1, <1>3, <2>1 DEF Sound, CutShort
<1> QED BY <1>1, <1>2, <1>3

LEMMA VerdictStep == FilesFit /\ VerdictFits /\ [UNext]_uvars => VerdictFits'
<1> SUFFICES ASSUME FilesFit, VerdictFits, [UNext]_uvars PROVE VerdictFits'
  OBVIOUS
<1> USE DEF VerdictFits
<1>1. CASE UNCHANGED uvars
  BY <1>1 DEF uvars, buildVars, Sound, Arrived, CutShort, Failed, Linkable
<1>2. CASE Reply
  BY <1>2 DEF Reply, buildVars
<1>3. CASE Reflect
  BY <1>3, CauseFields DEF Reflect, buildVars
<1>4. CASE Fetched
  <2>1. /\ step = "fetched" /\ cause[1] = "grpc" /\ reply \in ReflectionReplies(cause[2])
        /\ linking' = "none" /\ UNCHANGED <<cause, maxBytes>>
    BY <1>4 DEF Fetched, Judge, buildVars
  <2>2. CASE FetchSymbol(reply) = "descriptor"
    <3>1. cause[2] \in Described
      BY <2>1, <2>2, CauseFields, ReflectionFields DEF GRPCCauses
    <3>2. step' = "building" /\ reply' = [outcome |-> "none"]
      BY <1>4, <2>2 DEF Fetched, Judge
    <3> QED BY <2>1, <3>1, <3>2
  <2>3. CASE FetchSymbol(reply) # "descriptor"
    <3>1. step' = "judged" /\ UNCHANGED reply
          /\ verdict' = IF FetchSymbol(reply) = "not_found" THEN "missing" ELSE FetchSymbol(reply)
      BY <1>4, <2>3 DEF Fetched, Judge
    <3>2. Sound(verdict)'
      BY <2>1, <2>3, <3>1, FetchSound DEF Sound, Arrived, CutShort
    <3> QED BY <2>1, <3>1, <3>2
  <2> QED BY <2>2, <2>3
<1>5. CASE Link
  <2>1. step = "building" /\ UNCHANGED <<maxBytes, step, cause, reply, verdict>>
    BY <1>5 DEF Link
  <2>2. CASE \E files \in Descriptions : (Linkable(files) <=> cause[2] # "misdescribed") /\ Receive(files)
    BY <2>1, <2>2 DEF Receive, Linkable
  <2>3. CASE BuildNext
    <3>1. UNCHANGED protos /\ linking # "none"
      BY <2>3 DEF BuildNext, Visit, Import, Register, Complete
    <3>2. Linkable(protos)' <=> Linkable(protos)
      BY <3>1 DEF Linkable
    <3> QED BY <2>1, <3>1, <3>2
  <2> QED BY <1>5, <2>2, <2>3 DEF Link
<1>6. CASE HasMethod
  <2>1. /\ step = "building" /\ linking' = "none" /\ UNCHANGED <<maxBytes, cause, reply>>
        /\ cause[1] = "grpc" /\ cause[2] \in Described /\ reply.outcome = "none" /\ cause = <<"grpc", cause[2]>>
    BY <1>6, CauseFields DEF HasMethod, Judge
  <2>2. CASE linking = "failed" /\ Judge("upstream_error")
    <3>1. cause[2] = "misdescribed"
      BY <2>2 DEF FilesFit
    <3>2. cause \notin Absent
      BY <2>1, <3>1 DEF Absent
    <3>3. Sound(verdict)'
      BY <2>1, <2>2, <3>1, <3>2 DEF Judge, Sound, Arrived, CutShort
    <3> QED BY <2>1, <2>2, <3>3 DEF Judge
  <2>3. CASE linking = "built" /\ cause[2] = "undeclared" /\ Judge("missing")
    <3>1. cause \in Absent
      BY <2>1, <2>3 DEF Absent
    <3>2. Sound(verdict)'
      BY <2>1, <2>3, <3>1 DEF Judge, Sound, Arrived, CutShort
    <3> QED BY <2>1, <2>3, <3>2 DEF Judge
  <2>4. CASE linking = "built" /\ cause[2] # "undeclared" /\ step' = "found" /\ UNCHANGED verdict
    <3>1. cause[2] # "misdescribed"
      BY <2>4, BuiltIsLinkable
    <3>2. cause[2] \in Callable
      BY <2>1, <2>4, <3>1 DEF Described, Callable
    <3> QED BY <2>1, <2>4, <3>2
  <2> QED BY <1>6, <2>2, <2>3, <2>4 DEF HasMethod
<1>7. CASE Method
  BY <1>7 DEF Method, buildVars
<1>8. CASE Invoke
  <2>1. step = "answered" /\ step' = "judged" /\ UNCHANGED <<maxBytes, cause, reply, linking>>
    BY <1>8 DEF Invoke, Judge, buildVars
  <2>2. Sound(verdict')
    <3>1. CASE cause[1] = "lcd"
      <4>1. verdict' = InvokeLCD(reply)
        BY <1>8, <3>1, SMT DEF Invoke, Judge
      <4> QED BY <2>1, <3>1, <4>1, LCDSound
    <3>2. CASE cause[1] = "rpc"
      <4>1. verdict' = InvokeRPC(reply)
        BY <1>8, <3>2, SMT DEF Invoke, Judge
      <4> QED BY <2>1, <3>2, <4>1, RPCSound
    <3>3. CASE cause[1] = "grpc"
      <4>1. verdict' = InvokeGRPC(reply)
        BY <1>8, <3>3, SMT DEF Invoke, Judge
      <4> QED BY <2>1, <3>3, <4>1, MethodSound
    <3> QED BY <3>1, <3>2, <3>3, CauseFields
  <2>3. Sound(verdict)'
    BY <2>1, <2>2 DEF Sound, Arrived, CutShort
  <2> QED BY <2>1, <2>3
<1> QED BY <1>1, <1>2, <1>3, <1>4, <1>5, <1>6, <1>7, <1>8 DEF UNext

LEMMA VerdictsFit == USpec => [](FilesFit /\ VerdictFits)
<1>1. UInit => FilesFit /\ VerdictFits
  BY EmptyFits DEF UInit, BuildInit, VerdictFits
<1> QED BY <1>1, FilesStep, VerdictStep, PTL DEF USpec

\* For all sizes of bodies and limits: whole answers are judged missing exactly
\* if the binding is absent (http.go:54-95, grpc.go:322-364).
THEOREM VerdictsAreRight == USpec => []MissingIffAbsent
<1>1. VerdictFits => MissingIffAbsent
  BY DEF VerdictFits, Sound, MissingIffAbsent
<1> QED BY <1>1, VerdictsFit, PTL

\* For all sizes: the limit is exact, up to the wrap of the reader at the
\* greatest limit and the clamp of gRPC (http.go:141-148, grpc.go:55-63).
THEOREM LimitsAreExact == USpec => []LimitIsExact
<1>1. VerdictFits => LimitIsExact
  BY DEF VerdictFits, Sound, LimitIsExact
<1> QED BY <1>1, VerdictsFit, PTL

\* Failures keep their codes, whichever protocol they came by (http.go:123-138,
\* grpc.go:382-395).
THEOREM FailuresKeepTheirCodes == USpec => []FailureKeepsItsCode
<1>1. VerdictFits => FailureKeepsItsCode
  BY DEF VerdictFits, Sound, FailureKeepsItsCode
<1> QED BY <1>1, VerdictsFit, PTL

=============================================================================
