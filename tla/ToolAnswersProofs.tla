-------------------------- MODULE ToolAnswersProofs --------------------------
(* What the answers of tools that combine queries say of their parts, for any *)
(* chain and any height asked for.                                            *)
EXTENDS ToolAnswers, FiniteSetTheorems, TLAPS

PartSet(t) == {Parts(t)[i] : i \in DOMAIN Parts(t)}

LEMMA PartsOfTools ==
  /\ Parts("simple") = <<"value">>
  /\ Parts("token_info") = <<"supply", "metadata">>
  /\ Parts("ibc_token_info") = <<"supply", "metadata", "denom_trace">>
  /\ Parts("inflation") = <<"inflation", "annual_provisions">>
  /\ Parts("gov_params") = <<"voting_params", "deposit_params", "tally_params">>
  /\ Parts("chain_status") = <<"node_info", "syncing">>
  BY DEF Parts

First(t) == Parts(t)[1]

LEMMA PartSets ==
  /\ PartSet("simple") = {"value"} /\ First("simple") = "value"
  /\ PartSet("token_info") = {"supply", "metadata"} /\ First("token_info") = "supply"
  /\ PartSet("ibc_token_info") = {"supply", "metadata", "denom_trace"} /\ First("ibc_token_info") = "supply"
  /\ PartSet("inflation") = {"inflation", "annual_provisions"} /\ First("inflation") = "inflation"
  /\ PartSet("gov_params") = {"voting_params", "deposit_params", "tally_params"}
  /\ First("gov_params") = "voting_params"
  /\ PartSet("chain_status") = {"node_info", "syncing"} /\ First("chain_status") = "node_info"
<1>1. ASSUME NEW a PROVE {<<a>>[i] : i \in DOMAIN <<a>>} = {a}
  OBVIOUS
<1>2. ASSUME NEW a, NEW b PROVE {<<a, b>>[i] : i \in DOMAIN <<a, b>>} = {a, b}
  OBVIOUS
<1>3. ASSUME NEW a, NEW b, NEW c PROVE {<<a, b, c>>[i] : i \in DOMAIN <<a, b, c>>} = {a, b, c}
  OBVIOUS
<1> QED BY <1>1, <1>2, <1>3, PartsOfTools DEF PartSet, First

LEMMA FirstOfTools ==
  ASSUME NEW t \in Tools
  PROVE  /\ 1 \in DOMAIN Parts(t) /\ DOMAIN Parts(t) \subseteq Nat \ {0} /\ First(t) \in PartSet(t) /\ "params" \notin PartSet(t)
         /\ \A p \in PartSet(t) \cap Essential : p = First(t)
         /\ {"node_info", "syncing"} \cap PartSet(t) # {} => t = "chain_status"
  BY PartSets, PartsOfTools DEF Tools, Essential

\* What is known of a part that was asked for.
PartFits(p) ==
    /\ p \in PartSet(tool)
    /\ results[p].code \in {"ok"} \cup OptionalCodes \cup OtherCodes
    /\ IF results[p].code = "ok"
       THEN height # Latest => results[p].block = height
       ELSE results[p].fields = {}

\* While the call runs it has tolerated every failure so far.
Tolerated == answer = None => \A p \in DOMAIN results : Tolerates(p, results[p].code)

CallFits ==
    /\ tool \in Tools
    /\ height \in Heights \cup {Latest, Malformed}
    /\ tool = "chain_status" => height = Latest
    /\ context \in Heights \cup {Latest}
    /\ \A p \in DOMAIN results : PartFits(p)
    /\ Tolerated
    /\ height = Malformed => results = <<>>
    /\ FailureIsReported

LEMMA Answers ==
  /\ None.error = "none" /\ None.source = "none"
  /\ \A code, source : Error(code, source).error = code
  /\ \A w : Data(w).error = "none" /\ Data(w).warnings = w /\ Data(w).source = Source
  BY DEF None, Error, Data

\* What is in the data, and from which part.
Own == {p \in Found : p \in results[p].fields}
Lifted == IF tool = "gov_params" THEN results["voting_params"].fields \ Found ELSE {}
Contents == [k \in Own \cup Lifted |-> IF k \in Own THEN k ELSE "voting_params"]

LEMMA DataHasContents == \A w : Data(w).data = Contents
  BY DEF Data, Contents, Own, Lifted

\* A query of a call with a height goes to a protocol that carries it.
LEMMA OutcomeFits ==
  ASSUME tool \in Tools, tool = "chain_status" => height = Latest, height = context,
         NEW p \in PartSet(tool), NEW o \in Outcomes(p)
  PROVE  /\ o.code \in {"ok"} \cup OptionalCodes \cup OtherCodes
         /\ IF o.code = "ok"
            THEN height # Latest => o.block = height
            ELSE o.fields = {}
<1>1. CASE o \in Failures
  BY <1>1 DEF Failures, OptionalCodes, OtherCodes
<1>2. CASE \E s \in Reachable(p) : \E f \in Fields(p) : o = OK(s, f, Read(Carried(s)))
  <2>1. PICK s \in Reachable(p), f \in Fields(p) : o = OK(s, f, Read(Carried(s)))
    BY <1>2
  <2>2. o.code = "ok" /\ o.block = Read(Carried(s))
    BY <2>1 DEF OK
  <2>3. ASSUME height # Latest PROVE o.block = height
    <3>1. p \notin {"node_info", "syncing"}
      BY <2>3, FirstOfTools
    <3>2. s \in {"grpc", "lcd"}
      BY <2>1, <3>1 DEF Reachable, Protocols
    <3> QED BY <2>2, <2>3, <3>2 DEF Carried, Read
  <2> QED BY <2>2, <2>3
<1> QED BY <1>1, <1>2 DEF Outcomes

LEMMA InitFits == TInit => CallFits
  BY HeightAssumption DEF TInit, CallFits, FailureIsReported, Tolerated

LEMMA PartFitsNext ==
  ASSUME CallFits, ResolvePart
  PROVE  CallFits'
<1>1. PICK p \in PartSet(tool) :
         /\ ~ Asked(p)
         /\ \E o \in Outcomes(p) :
               /\ results' = [q \in DOMAIN results \cup {p} |-> IF q = p THEN o ELSE results[q]]
               /\ answer' = IF Tolerates(p, o.code) THEN None ELSE Error(o.code, o.source)
  BY DEF ResolvePart, PartSet
<1>2. PICK o \in Outcomes(p) :
         /\ results' = [q \in DOMAIN results \cup {p} |-> IF q = p THEN o ELSE results[q]]
         /\ answer' = IF Tolerates(p, o.code) THEN None ELSE Error(o.code, o.source)
  BY <1>1
<1>3. /\ answer = None /\ height # Malformed /\ UNCHANGED <<tool, height, context>> /\ ~ Asked(p)
      /\ height = context /\ tool \in Tools
      /\ tool = "chain_status" => height = Latest
  BY <1>1, HeightAssumption DEF ResolvePart, CallFits
<1>4. /\ DOMAIN results' = DOMAIN results \cup {p} /\ results'[p] = o
      /\ \A q \in DOMAIN results : results'[q] = results[q]
  BY <1>2, <1>3 DEF Asked
<1>5. \A q \in DOMAIN results' : PartFits(q)'
  <2>1. PartFits(p)'
    BY <1>3, <1>4, OutcomeFits DEF CallFits, PartFits, PartSet
  <2>2. ASSUME NEW q \in DOMAIN results PROVE PartFits(q)'
    BY <1>3, <1>4 DEF CallFits, PartFits, PartSet
  <2> QED BY <1>4, <2>1, <2>2
<1>6. Tolerates(p, o.code) \/ answer' # None
  <2>1. o.code # "none"
    <3>1. o.code \in {"ok"} \cup OptionalCodes \cup OtherCodes
      BY <1>3, OutcomeFits
    <3> QED BY <3>1 DEF OptionalCodes, OtherCodes
  <2> QED BY <1>2, <2>1, Answers
<1>7. Tolerated'
  BY <1>3, <1>4, <1>6 DEF CallFits, Tolerated, Tolerates
<1>8. FailureIsReported'
  <2>1. \A q \in DOMAIN results \ {"syncing"} : results[q].code \notin OtherCodes
    BY <1>3, Answers DEF CallFits, FailureIsReported, OtherCodes
  <2>2. p # "syncing" /\ o.code \in OtherCodes => answer'.error = o.code
    BY <1>2, Answers DEF Tolerates, OtherCodes, OptionalCodes
  <2> QED BY <1>4, <2>1, <2>2 DEF FailureIsReported
<1> QED BY <1>3, <1>5, <1>7, <1>8 DEF CallFits

LEMMA NextFits == CallFits /\ [TNext]_tvars => CallFits'
<1> SUFFICES ASSUME CallFits, [TNext]_tvars PROVE CallFits'
  OBVIOUS
<1>1. CASE NewBlock \/ Prune \/ UNCHANGED tvars
  <2>1. UNCHANGED <<tool, height, context, results, answer>>
    BY <1>1 DEF NewBlock, Prune, tvars
  <2>2. \A p \in DOMAIN results : PartFits(p)'
    BY <2>1 DEF CallFits, PartFits, PartSet
  <2> QED BY <2>1, <2>2 DEF CallFits, Tolerated, Tolerates, FailureIsReported
<1>2. CASE HeightContext
  <2>1. answer = None /\ UNCHANGED <<tool, height, results>>
    BY <1>2 DEF HeightContext
  <2>2. \A p \in DOMAIN results : PartFits(p)'
    BY <2>1 DEF CallFits, PartFits, PartSet
  <2>3. \A p \in DOMAIN results \ {"syncing"} : results[p].code \notin OtherCodes
    BY <2>1, Answers DEF CallFits, FailureIsReported, OtherCodes
  <2>4. context' \in Heights \cup {Latest}
    BY <1>2 DEF HeightContext, CallFits
  <2> QED BY <2>1, <2>2, <2>3, <2>4 DEF CallFits, Tolerated, Tolerates, FailureIsReported
<1>3. CASE Respond
  <2>1. answer = None /\ UNCHANGED <<tool, height, context, results>>
    BY <1>3 DEF Respond
  <2>2. \A p \in DOMAIN results \ {"syncing"} : results[p].code \notin OtherCodes
    BY <2>1, Answers DEF CallFits, FailureIsReported, OtherCodes
  <2>3. \A p \in DOMAIN results : PartFits(p)' 
    BY <2>1 DEF CallFits, PartFits, PartSet
  <2> QED BY <2>1, <2>2, <2>3 DEF CallFits, Tolerated, FailureIsReported
<1> QED BY <1>1, <1>2, <1>3, PartFitsNext DEF TNext

\* A failure that does not say the part is absent ends the call with its code,
\* whatever parts come before or after (query_tools.go:242-251, 513-516, 644-650).
THEOREM FailuresAreReported == TSpec => []FailureIsReported
<1>1. CallFits => FailureIsReported
  BY DEF CallFits
<1> QED BY <1>1, InitFits, NextFits, PTL DEF TSpec

\* With a height, all parts of an answer are of that block, for any blocks made
\* or pruned meanwhile and whichever protocol answers each part
\* (query_tools.go:234, 492, 639; height.go:5-21, lcd.go:71-73, grpc.go:143-145).
THEOREM PinnedPartsDoAgree == TSpec => []PinnedPartsAgree
<1>1. CallFits => PinnedPartsAgree
  BY DEF CallFits, PartFits, PinnedPartsAgree, Found
<1> QED BY <1>1, InitFits, NextFits, PTL DEF TSpec

-----------------------------------------------------------------------------
(* Every part is accounted for, and so is the source.                        *)

\* The first part is asked first, and the last one of chain_status only if the
\* first did not say it all.
InOrder ==
    /\ DOMAIN results # {} => First(tool) \in DOMAIN results
    /\ (tool = "chain_status" /\ "syncing" \in DOMAIN results) => results["node_info"].source # "rpc"

AnswerFits ==
    /\ Given => /\ Found # {} /\ DOMAIN results # {}
                /\ answer.data = Contents
                /\ answer.warnings = DOMAIN results \ Found
                /\ answer.source = Source
                /\ Complete \/ PartSet(tool) \subseteq DOMAIN results
    /\ answer.error \in OptionalCodes => Found = {}

LEMMA InitAnswers == TInit => InOrder /\ AnswerFits
  BY Answers DEF TInit, InOrder, AnswerFits, Given, OptionalCodes

LEMMA ResolveKeepsOrder ==
  ASSUME CallFits, InOrder, AnswerFits, ResolvePart
  PROVE  InOrder' /\ AnswerFits'
<1>1. PICK i \in DOMAIN Parts(tool) : \E p :
         /\ p = Parts(tool)[i]
         /\ ~ Asked(p) /\ \A j \in 1 .. i - 1 : Asked(Parts(tool)[j])
         /\ \E o \in Outcomes(p) :
               /\ results' = [q \in DOMAIN results \cup {p} |-> IF q = p THEN o ELSE results[q]]
               /\ answer' = IF Tolerates(p, o.code) THEN None ELSE Error(o.code, o.source)
  BY DEF ResolvePart
<1>2. PICK p :
         /\ p = Parts(tool)[i]
         /\ ~ Asked(p) /\ \A j \in 1 .. i - 1 : Asked(Parts(tool)[j])
         /\ \E o \in Outcomes(p) :
               /\ results' = [q \in DOMAIN results \cup {p} |-> IF q = p THEN o ELSE results[q]]
               /\ answer' = IF Tolerates(p, o.code) THEN None ELSE Error(o.code, o.source)
  BY <1>1
<1>3. PICK o \in Outcomes(p) :
         /\ results' = [q \in DOMAIN results \cup {p} |-> IF q = p THEN o ELSE results[q]]
         /\ answer' = IF Tolerates(p, o.code) THEN None ELSE Error(o.code, o.source)
  BY <1>2
<1>4. /\ answer = None /\ ~ Complete /\ UNCHANGED tool /\ p \in PartSet(tool) /\ tool \in Tools
      /\ height = context
      /\ tool = "chain_status" => height = Latest
  BY <1>2 DEF ResolvePart, CallFits, PartSet
<1>5. /\ DOMAIN results' = DOMAIN results \cup {p} /\ results'[p] = o
      /\ \A q \in DOMAIN results : results'[q] = results[q]
      /\ p \notin DOMAIN results
  BY <1>2, <1>3 DEF Asked
<1>6. o.code \in {"ok"} \cup OptionalCodes \cup OtherCodes
  BY <1>4, OutcomeFits
<1>7. p = First(tool) \/ First(tool) \in DOMAIN results
  <2>1. CASE i = 1
    BY <1>2, <2>1 DEF First
  <2>2. CASE i # 1
    <3>1. i \in Nat /\ i > 1
      BY <1>4, <2>2, FirstOfTools
    <3> QED BY <1>2, <3>1 DEF Asked, First
  <2> QED BY <2>1, <2>2
<1>8. InOrder'
  <2>1. First(tool') \in DOMAIN results'
    BY <1>4, <1>5, <1>7
  <2>2. ASSUME tool = "chain_status", "syncing" \in DOMAIN results'
        PROVE  results'["node_info"].source # "rpc"
    <3>1. CASE p = "syncing"
      <4>1. "node_info" \in DOMAIN results
        BY <1>7, <2>2, <3>1, PartSets
      <4> QED BY <1>4, <1>5, <2>2, <4>1 DEF Complete
    <3>2. CASE p # "syncing"
      <4>1. "syncing" \in DOMAIN results /\ "node_info" \in DOMAIN results
        BY <1>5, <2>2, <3>2, PartSets DEF InOrder
      <4> QED BY <1>5, <2>2, <4>1 DEF InOrder
    <3> QED BY <3>1, <3>2
  <2> QED BY <1>4, <2>1, <2>2 DEF InOrder
<1>9. answer'.error = "none" => answer' = None
  BY <1>3, <1>6, Answers DEF OptionalCodes, OtherCodes, Tolerates
<1>10. ASSUME answer'.error \in OptionalCodes PROVE Found' = {}
  <2>1. answer'.error = o.code /\ ~ Tolerates(p, o.code)
    BY <1>3, <1>10, Answers DEF OptionalCodes
  <2>2. p \in Essential /\ o.code # "ok"
    BY <1>10, <2>1 DEF Tolerates
  <2>3. p = First(tool)
    BY <1>4, <2>2, FirstOfTools
  <2>4. DOMAIN results = {}
    BY <1>5, <2>3 DEF InOrder
  <2> QED BY <1>5, <2>2, <2>4 DEF Found
<1> QED BY <1>8, <1>9, <1>10 DEF AnswerFits, Given

LEMMA NextAnswers == CallFits /\ InOrder /\ AnswerFits /\ [TNext]_tvars => InOrder' /\ AnswerFits'
<1> SUFFICES ASSUME CallFits, InOrder, AnswerFits, [TNext]_tvars PROVE InOrder' /\ AnswerFits'
  OBVIOUS
<1>1. CASE NewBlock \/ Prune \/ UNCHANGED tvars
  <2>1. UNCHANGED <<tool, results, answer>>
    BY <1>1 DEF NewBlock, Prune, tvars
  <2>2. Found' = Found /\ Complete' = Complete /\ Source' = Source /\ Contents' = Contents
    BY <2>1 DEF Found, Complete, Source, Contents, Own, Lifted
  <2> QED BY <2>1, <2>2 DEF InOrder, AnswerFits, Given
<1>2. CASE HeightContext
  <2>1. UNCHANGED <<tool, results>> /\ (answer' = answer \/ answer'.error = "invalid_input")
    BY <1>2, Answers DEF HeightContext
  <2>2. Found' = Found /\ Complete' = Complete /\ Source' = Source /\ Contents' = Contents
    BY <2>1 DEF Found, Complete, Source, Contents, Own, Lifted
  <2>3. CASE answer' = answer
    BY <2>1, <2>2, <2>3 DEF InOrder, AnswerFits, Given
  <2>4. CASE answer'.error = "invalid_input"
    BY <2>1, <2>4 DEF InOrder, AnswerFits, Given, OptionalCodes
  <2> QED BY <2>1, <2>3, <2>4
<1>3. CASE Respond
  <2>1. /\ answer = None /\ UNCHANGED <<tool, results>> /\ tool \in Tools
        /\ Complete \/ \A i \in DOMAIN Parts(tool) : Asked(Parts(tool)[i])
        /\ answer' = IF Found = {} THEN Error(results[Parts(tool)[1]].code, "system")
                     ELSE Data(DOMAIN results \ Found)
    BY <1>3 DEF Respond, CallFits
  <2>2. Found' = Found /\ Complete' = Complete /\ Source' = Source /\ Contents' = Contents
    BY <2>1 DEF Found, Complete, Source, Contents, Own, Lifted
  <2>3. Complete \/ PartSet(tool) \subseteq DOMAIN results
    BY <2>1 DEF PartSet, Asked
  <2>4. DOMAIN results # {}
    <3>1. First(tool) \in PartSet(tool)
      BY <2>1, FirstOfTools
    <3> QED BY <2>3, <3>1 DEF Complete
  <2>5. First(tool) \in DOMAIN results
    BY <2>4 DEF InOrder
  <2>6. CASE Found = {}
    <3>1. answer'.error = results[First(tool)].code
      BY <2>1, <2>6, Answers DEF First
    <3>2. results[First(tool)].code # "none"
      BY <2>5 DEF CallFits, PartFits, OptionalCodes, OtherCodes
    <3> QED BY <2>1, <2>2, <2>6, <3>1, <3>2 DEF AnswerFits, Given, InOrder
  <2>7. CASE Found # {}
    <3>1. /\ answer'.error = "none" /\ answer'.warnings = DOMAIN results \ Found
          /\ answer'.source = Source
          /\ answer'.data = Contents
      BY <2>1, <2>7, Answers, DataHasContents
    <3> QED BY <2>1, <2>2, <2>3, <2>4, <2>7, <3>1 DEF AnswerFits, Given, InOrder, OptionalCodes
  <2> QED BY <2>6, <2>7
<1> QED BY <1>1, <1>2, <1>3, ResolveKeepsOrder DEF TNext

LEMMA AccountedFor == CallFits /\ InOrder /\ AnswerFits => EveryPartIsAccountedFor
<1> SUFFICES ASSUME CallFits, InOrder, AnswerFits, Given
             PROVE  /\ Found # {}
                    /\ \A p \in Advertised :
                          IF p \in Found
                          THEN IF p \in results[p].fields
                               THEN p \in DOMAIN answer.data /\ answer.data[p] = p
                               ELSE p \notin DOMAIN answer.data
                          ELSE p \in answer.warnings \/ "params" \in DOMAIN answer.data
                    /\ \A p \in answer.warnings : p \in DOMAIN answer.data => answer.data[p] # p
  BY DEF AnswerFits, EveryPartIsAccountedFor
<1>1. /\ Found # {} /\ First(tool) \in DOMAIN results
      /\ answer.data = Contents
      /\ answer.warnings = DOMAIN results \ Found
      /\ Complete \/ PartSet(tool) \subseteq DOMAIN results
  BY DEF AnswerFits, InOrder
<1>2. DOMAIN results \subseteq PartSet(tool) /\ tool \in Tools
  BY DEF CallFits, PartFits
<1>3. /\ DOMAIN answer.data = Own \cup Lifted
      /\ \A k \in Own \cup Lifted : answer.data[k] = IF k \in Own THEN k ELSE "voting_params"
  BY <1>1 DEF Contents
<1>4. Own \subseteq Found /\ Lifted \cap Found = {}
  BY DEF Own, Lifted
<1>5. ASSUME NEW p \in Advertised, p \in Found
      PROVE  IF p \in results[p].fields
             THEN p \in DOMAIN answer.data /\ answer.data[p] = p
             ELSE p \notin DOMAIN answer.data
  BY <1>3, <1>4, <1>5 DEF Own
<1>6. ASSUME NEW p \in Advertised, p \notin Found
      PROVE  p \in answer.warnings \/ "params" \in DOMAIN answer.data
  <2>1. CASE p \in DOMAIN results
    BY <1>1, <1>6, <2>1
  <2>2. CASE p \notin DOMAIN results
    <3>1. p \in PartSet(tool)
      BY <1>2, PartSets DEF Advertised, Tools
    <3>2. Complete
      BY <1>1, <2>2, <3>1
    <3>3. tool # "chain_status"
      BY <1>1, <2>2, <3>2, PartSets DEF Complete, Advertised
    <3>4. tool = "gov_params" /\ "params" \in results["voting_params"].fields
      BY <3>2, <3>3 DEF Complete
    <3>5. "params" \notin Found
      BY <1>2, FirstOfTools DEF Found
    <3> QED BY <1>3, <3>4, <3>5 DEF Lifted
  <2> QED BY <2>1, <2>2
<1>7. ASSUME NEW p \in answer.warnings, p \in DOMAIN answer.data PROVE answer.data[p] # p
  <2>1. p \notin Found /\ p \in Lifted /\ answer.data[p] = "voting_params"
    BY <1>1, <1>3, <1>4, <1>7
  <2>2. tool = "gov_params" /\ results["voting_params"].fields # {}
    BY <2>1 DEF Lifted
  <2>3. "voting_params" \in DOMAIN results
    BY <1>1, <2>2, PartSets
  <2>4. "voting_params" \in Found
    BY <2>2, <2>3 DEF CallFits, PartFits, Found
  <2> QED BY <2>1, <2>4
<1> QED BY <1>1, <1>5, <1>6, <1>7

\* Each part a tool advertises is in the data from its own answer, or in the
\* warnings, or within the whole set of gov v1, and is missing only if its own
\* answer is without it; an optional failure is the whole answer only if nothing
\* was found; for any results (query_tools.go:254-291, 483-528, 651-674).
THEOREM PartsAreAccountedFor == TSpec => []EveryPartIsAccountedFor
  BY InitFits, NextFits, InitAnswers, NextAnswers, AccountedFor, PTL DEF TSpec

-----------------------------------------------------------------------------
(* The source of an answer.                                                  *)

Endpoints == {"rpc", "grpc", "lcd"}

\* An answer comes from an endpoint, and the sync state from that of the node
\* information.
SourcesFit ==
    \A p \in Found :
       /\ results[p].source \in Endpoints
       /\ p = "syncing" => results[p].source = results["node_info"].source

LEMMA NextSources == CallFits /\ InOrder /\ SourcesFit /\ [TNext]_tvars => SourcesFit'
<1> SUFFICES ASSUME CallFits, InOrder, SourcesFit, [TNext]_tvars PROVE SourcesFit'
  OBVIOUS
<1>1. CASE UNCHANGED <<tool, results>>
  BY <1>1 DEF SourcesFit, Found
<1>2. CASE ResolvePart
  <2>1. PICK i \in DOMAIN Parts(tool), p \in PartSet(tool) :
         /\ p = Parts(tool)[i]
         /\ ~ Asked(p) /\ \A j \in 1 .. i - 1 : Asked(Parts(tool)[j])
         /\ \E o \in Outcomes(p) :
               results' = [q \in DOMAIN results \cup {p} |-> IF q = p THEN o ELSE results[q]]
    BY <1>2 DEF ResolvePart, PartSet
  <2>2. PICK o \in Outcomes(p) :
               results' = [q \in DOMAIN results \cup {p} |-> IF q = p THEN o ELSE results[q]]
    BY <2>1
  <2>3. /\ DOMAIN results' = DOMAIN results \cup {p} /\ results'[p] = o
        /\ \A q \in DOMAIN results : results'[q] = results[q]
        /\ p \notin DOMAIN results /\ tool \in Tools /\ answer = None
    BY <1>2, <2>1, <2>2 DEF Asked, ResolvePart, CallFits
  <2>4. o.code = "ok" => o.source \in Reachable(p)
    BY <2>2 DEF Outcomes, OK, Failures, OptionalCodes, OtherCodes
  <2>5. CASE p = "syncing"
    <3>1. tool = "chain_status"
      BY <2>1, <2>3, <2>5, FirstOfTools
    <3>2. i \in {1, 2} /\ i # 1
      <4>1. i \in DOMAIN <<"node_info", "syncing">> /\ <<"node_info", "syncing">>[i] = "syncing"
        BY <2>1, <2>5, <3>1, PartsOfTools
      <4> QED BY <4>1
    <3>3. "node_info" \in DOMAIN results
      BY <2>1, <3>1, <3>2, PartsOfTools DEF Asked
    <3>4. "node_info" \in Found
      BY <2>3, <3>3 DEF CallFits, Tolerated, Tolerates, Essential, Found
    <3>5. o.code = "ok" => o.source = results["node_info"].source
      BY <2>4, <2>5 DEF Reachable
    <3> QED BY <2>3, <2>5, <3>3, <3>4, <3>5 DEF SourcesFit, Found
  <2>6. CASE p # "syncing"
    <3>1. o.code = "ok" => o.source \in Endpoints
      BY <2>4, <2>6 DEF Reachable, Protocols, Endpoints
    <3>2. "syncing" \in DOMAIN results => "node_info" \in DOMAIN results
      BY PartSets, FirstOfTools DEF CallFits, PartFits, InOrder
    <3> QED BY <2>3, <2>6, <3>1, <3>2 DEF SourcesFit, Found
  <2> QED BY <2>5, <2>6
<1> QED BY <1>1, <1>2 DEF TNext, NewBlock, Prune, HeightContext, Respond, tvars

LEMMA OneEndpoint == ASSUME NEW s, NEW S, S = {s} PROVE Cardinality(S) = 1 /\ ~ Cardinality(S) > 1
<1>1. Cardinality(S) = 1
  BY FS_Singleton
<1> QED BY <1>1

LEMMA SeveralEndpoints ==
  ASSUME NEW S \in SUBSET Endpoints, NEW s \in S, NEW r \in S, s # r
  PROVE  Cardinality(S) > 1
<1>1. IsFiniteSet(Endpoints)
  <2>1. IsFiniteSet({"rpc"}) /\ Endpoints = ({"rpc"} \cup {"grpc"}) \cup {"lcd"}
    BY FS_Singleton DEF Endpoints
  <2>2. IsFiniteSet({"rpc"} \cup {"grpc"})
    BY <2>1, FS_AddElement
  <2> QED BY <2>1, <2>2, FS_AddElement
<1>2. IsFiniteSet(S) /\ Cardinality(S) \in Nat
  BY <1>1, FS_Subset, FS_CardinalityType
<1>3. {s} \subseteq S /\ {s} # S /\ Cardinality({s}) = 1
  BY OneEndpoint
<1>4. Cardinality({s}) <= Cardinality(S) /\ (Cardinality({s}) = Cardinality(S) => {s} = S)
  BY <1>2, <1>3, FS_Subset
<1> QED BY <1>2, <1>3, <1>4

LEMMA CommonSourceIsCommon ==
  ASSUME NEW values, DOMAIN values # {}, DOMAIN values \subseteq {1, 2, 3},
         \A i \in DOMAIN values : values[i] \in Endpoints
  PROVE  LET sources == {values[i] : i \in DOMAIN values} IN
         CommonSource(values) = IF Cardinality(sources) > 1 THEN "mixed"
                                ELSE CHOOSE s \in sources : TRUE
<1> DEFINE places == DOMAIN values
           first == values[Earliest(places)]
           sources == {values[i] : i \in places}
<1>1. Earliest(places) \in places
  <2>1. \E i \in places : \A j \in places : i <= j
    OBVIOUS
  <2> QED BY <2>1 DEF Earliest
<1>2. CASE \E i \in places : values[i] # first
  <2>1. Cardinality(sources) > 1
    BY <1>1, <1>2, SeveralEndpoints
  <2> QED BY <1>2, <2>1 DEF CommonSource
<1>3. CASE \A i \in places : values[i] = first
  <2>1. sources = {first}
    BY <1>1, <1>3
  <2>2. ~ Cardinality(sources) > 1
    BY <2>1, OneEndpoint
  <2>3. CommonSource(values) = first
    BY <1>3 DEF CommonSource
  <2> QED BY <2>1, <2>2, <2>3
<1> QED BY <1>2, <1>3

LEMMA SourceTrue == CallFits /\ InOrder /\ AnswerFits /\ SourcesFit => SourceIsTrue
<1> SUFFICES ASSUME CallFits, InOrder, AnswerFits, SourcesFit, Given
             PROVE  Source = LET sources == {results[p].source : p \in Found} IN
                             IF Cardinality(sources) > 1 THEN "mixed"
                             ELSE CHOOSE s \in sources : TRUE
  BY DEF AnswerFits, SourceIsTrue
<1> DEFINE sources == {results[p].source : p \in Found}
<1>1. Found # {} /\ Found \subseteq PartSet(tool) /\ tool \in Tools
  BY DEF AnswerFits, CallFits, PartFits, Found
<1>2. CASE tool = "chain_status"
  <2>1. \A p \in Found : results[p].source = results["node_info"].source
    BY <1>1, <1>2, PartSets DEF SourcesFit
  <2>2. sources = {results["node_info"].source}
    BY <1>1, <2>1
  <2>3. ~ Cardinality(sources) > 1
    BY <2>2, OneEndpoint
  <2> QED BY <1>2, <2>2, <2>3 DEF Source
<1>3. CASE tool # "chain_status"
  <2> DEFINE places == {i \in DOMAIN Parts(tool) : Parts(tool)[i] \in Found}
             values == [i \in places |-> results[Parts(tool)[i]].source]
  <2>1. DOMAIN values # {} /\ DOMAIN values \subseteq {1, 2, 3}
    <3>1. DOMAIN Parts(tool) \subseteq {1, 2, 3}
      BY <1>1, PartsOfTools DEF Tools
    <3> QED BY <1>1, <3>1 DEF PartSet
  <2>2. \A i \in DOMAIN values : values[i] \in Endpoints
    BY DEF SourcesFit
  <2>3. {values[i] : i \in DOMAIN values} = sources
    <3>1. \A p \in Found : \E i \in places : p = Parts(tool)[i]
      BY <1>1 DEF PartSet
    <3>2. \A i \in DOMAIN values :
             Parts(tool)[i] \in Found /\ values[i] = results[Parts(tool)[i]].source
      OBVIOUS
    <3>3. DOMAIN values = places
      OBVIOUS
    <3> HIDE DEF values, places
    <3> QED BY <3>1, <3>2, <3>3
  <2>4. Source = CommonSource(values)
    BY <1>3 DEF Source
  <2> HIDE DEF values
  <2> QED BY <2>1, <2>2, <2>3, <2>4, CommonSourceIsCommon
<1> QED BY <1>2, <1>3

\* The source of an answer is the endpoint all its parts came from, and "mixed"
\* if and only if they came from several, for any order of results and any
\* failures among them (query_tools.go:908-918, 114-118).
THEOREM SourcesAreTrue == TSpec => []SourceIsTrue
<1>1. TInit => SourcesFit
  BY DEF TInit, SourcesFit, Found
<1> QED BY <1>1, InitFits, NextFits, InitAnswers, NextAnswers, NextSources, SourceTrue, PTL DEF TSpec

=============================================================================
