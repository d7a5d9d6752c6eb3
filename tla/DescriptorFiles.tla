--------------------------- MODULE DescriptorFiles ---------------------------
(***************************************************************************)
(* The registry that descriptorsForSymbol makes of the files reflection    *)
(* has sent (internal/cosmos/grpc.go:262-308): a recursive build that      *)
(* registers the imports of a file before the file.  Go ranges over the    *)
(* received files in any order.                                            *)
(*                                                                         *)
(* A file that this program has linked in takes the place of the one that  *)
(* was received, and is found without being received.                      *)
(***************************************************************************)
EXTENDS Naturals, Sequences, Functions, TLC

CONSTANTS
    Files,      \* paths of descriptor files
    LinkedIn    \* those that protoregistry.GlobalFiles knows

ASSUME LinkedAssumption == LinkedIn \subseteq Files

VARIABLES
    protos,     \* path -> the file that was received
    unvisited,  \* paths the range loop has not come to
    building,   \* the calls of build that have not returned, the innermost last
    registry,   \* paths of the registered files
    linking     \* "none", "running", "built" or "failed"

buildVars == <<protos, unvisited, building, registry, linking>>

-----------------------------------------------------------------------------
\* What matters of a file: its imports, and whether NewFile and RegisterFile
\* accept it once they are there.  One that does not even decode (265-267) ends
\* the build at once, with the same error as an invalid file visited first.
File == [imports : SUBSET Files, valid : BOOLEAN]

\* A linked-in file may be among those received; its imports are not looked at,
\* but what it declares may clash with what is registered.
Linked == [imports : {{}}, valid : BOOLEAN]

Descriptions ==
    {own @@ linked : own \in UNION {[S -> File] : S \in SUBSET (Files \ LinkedIn)},
                     linked \in UNION {[S -> Linked] : S \in SUBSET LinkedIn}}

NoFiles == [f \in {} |-> {}]

BuildInit ==
    /\ protos = NoFiles /\ unvisited = {} /\ building = <<>>
    /\ registry = {} /\ linking = "none"

Receive(files) ==
    /\ linking = "none"
    /\ protos' = files
    /\ unvisited' = DOMAIN files
    /\ linking' = "running"
    /\ UNCHANGED <<building, registry>>

Fail == linking' = "failed" /\ UNCHANGED <<building, registry>>

\* Nothing is left to do for a file.
Settled(f) == f \in registry \/ f \in LinkedIn \ DOMAIN protos

RegisterLinked(f) ==
    IF protos[f].valid
    THEN registry' = registry \cup {f} /\ UNCHANGED <<building, linking>>
    ELSE Fail

\* Variant: the files being built are not looked at.
BuildUnguarded(f) ==
    CASE f \in LinkedIn -> RegisterLinked(f)
      [] f \notin LinkedIn \cup DOMAIN protos -> Fail
      [] OTHER -> building' = Append(building, f) /\ UNCHANGED <<registry, linking>>

\* Variant: a linked-in file is taken for registered.
BuildSkippingLinked(f) ==
    CASE f \in LinkedIn -> UNCHANGED <<registry, building, linking>>
      [] f \notin LinkedIn /\ (f \notin DOMAIN protos \/ f \in Range(building)) -> Fail
      [] OTHER -> building' = Append(building, f) /\ UNCHANGED <<registry, linking>>

\* build is called for a file that is not settled.
Build(f) ==
    CASE f \in LinkedIn -> RegisterLinked(f)
      [] f \notin LinkedIn /\ (f \notin DOMAIN protos \/ f \in Range(building)) -> Fail
      [] OTHER -> building' = Append(building, f) /\ UNCHANGED <<registry, linking>>

\* The next round of the range loop.
Visit ==
    /\ linking = "running" /\ building = <<>>
    /\ \E f \in unvisited :
          /\ unvisited' = unvisited \ {f}
          /\ IF Settled(f) THEN UNCHANGED <<building, registry, linking>> ELSE Build(f)
    /\ UNCHANGED protos

Unsettled(f) == {d \in protos[f].imports : ~ Settled(d)}

\* The innermost call turns to an import.
Import ==
    /\ linking = "running" /\ building # <<>>
    /\ \E d \in Unsettled(building[Len(building)]) : Build(d)
    /\ UNCHANGED <<protos, unvisited>>

\* All imports of the innermost file are there: NewFile and RegisterFile.
Register ==
    LET f == building[Len(building)] IN
    /\ linking = "running" /\ building # <<>> /\ Unsettled(f) = {}
    /\ IF protos[f].valid
       THEN /\ registry' = registry \cup {f}
            /\ building' = SubSeq(building, 1, Len(building) - 1)
            /\ UNCHANGED linking
       ELSE Fail
    /\ UNCHANGED <<protos, unvisited>>

Complete ==
    /\ linking = "running" /\ building = <<>> /\ unvisited = {}
    /\ linking' = "built"
    /\ UNCHANGED <<protos, unvisited, building, registry>>

BuildNext == Visit \/ Import \/ Register \/ Complete

-----------------------------------------------------------------------------
\* The files can be linked: each is valid, all imports are there, and the files
\* that are not linked in do not import each other in a circle.
Linkable(files) ==
    LET own == DOMAIN files \ LinkedIn IN
    /\ \A f \in DOMAIN files : files[f].valid
    /\ \A f \in own : files[f].imports \subseteq DOMAIN files \cup LinkedIn
    /\ \A S \in (SUBSET own) \ {{}} : \E f \in S : files[f].imports \cap S = {}

\* At every moment the imports of a registered file are registered or linked in,
\* and no file is being built twice: the recursion ends on any import graph
\* (grpc.go:273-302).
BuildIsOrderly ==
    /\ \A f \in registry \ LinkedIn : protos[f].imports \subseteq registry \cup LinkedIn
    /\ \A i, j \in DOMAIN building : building[i] = building[j] => i = j

\* In whatever order the received files are visited, the registry gets exactly
\* them if they can be linked, and the build fails if they cannot
\* (grpc.go:303-307).
BuildIsExact ==
    /\ linking = "built" => Linkable(protos) /\ registry = DOMAIN protos
    /\ linking = "failed" => ~ Linkable(protos)

=============================================================================
