----------------------------- MODULE ToolAnswers -----------------------------
(***************************************************************************)
(* The tools that put several queries together (internal/server/           *)
(* query_tools.go): getTokenInfo, getInflation, getGovParams and           *)
(* chainStatus; and simpleQuery, the path of the tools that ask one.       *)
(*                                                                         *)
(* One call of a tool resolves its parts one after the other.  Between two *)
(* parts the chain goes on, nodes prune old blocks and the endpoints       *)
(* change, so that each Resolve may end in any way open to it              *)
(* (Resolver.tla).  The call goes on after an answer and after a failure   *)
(* it tolerates, and ends at any other.  A height is put in the context of *)
(* the call, from where each client takes it, or not, to its request.      *)
(***************************************************************************)
EXTENDS Sequences, FiniteSets, Naturals

CONSTANTS
    Heights,    \* blocks of the chain
    Latest,     \* the height of a call that gives none
    Malformed   \* a height that is no positive number

ASSUME HeightAssumption ==
    Heights \subseteq Nat \ {0} /\ Latest \notin Heights /\ Malformed \notin Heights \cup {Latest}

VARIABLES
    tool,       \* the tool called
    height,     \* its "height" argument
    context,    \* the height in the context of the call, or Latest
    chain,      \* the newest block
    oldest,     \* the oldest block that is not pruned
    results,    \* what Resolve returned, for each part asked for
    answer      \* what the tool returns

tvars == <<tool, height, context, chain, oldest, results, answer>>

-----------------------------------------------------------------------------
Tools == {"simple", "token_info", "ibc_token_info", "inflation", "gov_params", "chain_status"}

\* Variant: the governance parameters are taken to come with the voting ones.
PartsVotingOnly(t) ==
    CASE t = "simple"         -> <<"value">>
      [] t = "token_info"     -> <<"supply", "metadata">>
      [] t = "ibc_token_info" -> <<"supply", "metadata", "denom_trace">>
      [] t = "inflation"      -> <<"inflation", "annual_provisions">>
      [] t = "gov_params"     -> <<"voting_params">>
      [] t = "chain_status"   -> <<"node_info", "syncing">>

Parts(t) ==
    CASE t = "simple"         -> <<"value">>
      [] t = "token_info"     -> <<"supply", "metadata">>
      [] t = "ibc_token_info" -> <<"supply", "metadata", "denom_trace">>
      [] t = "inflation"      -> <<"inflation", "annual_provisions">>
      [] t = "gov_params"     -> <<"voting_params", "deposit_params", "tally_params">>
      [] t = "chain_status"   -> <<"node_info", "syncing">>

\* Without this part there is no answer.
Essential == {"value", "voting_params", "node_info"}

OptionalCodes == {"unsupported_capability", "grpc_reflection_unavailable"}
OtherCodes == {"upstream_timeout", "invalid_input"}

OK(source, fields, block) ==
    [code |-> "ok", source |-> source, fields |-> fields, block |-> block]

\* Resolve returns no source with an error of discovery or reflection, and
\* the source of the binding with one of its query.
Failures == {[code |-> c, source |-> "empty", fields |-> {}, block |-> Latest] : c \in OptionalCodes}
            \cup {[code |-> c, source |-> s, fields |-> {}, block |-> Latest] :
                     c \in OtherCodes, s \in {"empty", "grpc", "lcd"}}

Protocols(p) == IF p = "node_info" THEN {"rpc", "grpc", "lcd"} ELSE {"grpc", "lcd"}

\* The syncing state is asked of the protocol that gave the node information.
Reachable(p) == IF p = "syncing" THEN {results["node_info"].source} ELSE Protocols(p)

GovFields == {"params", "voting_params", "deposit_params", "tally_params"}

\* The fields of an answer that a tool looks for and that have a value.  The
\* first governance query may be answered with any of them: gov v1 has the whole
\* set in "params", and v1beta1 has the groups that were not asked for as well,
\* with zero values.
Fields(p) == IF p = "voting_params" THEN SUBSET GovFields ELSE {{}, {p}}

\* Variant: gRPC does not look for the height.
CarriedByLCD(s) == IF s = "lcd" THEN context ELSE Latest

\* The height a request carries: as a header to the LCD, as metadata to gRPC.
Carried(s) == IF s \in {"lcd", "grpc"} THEN context ELSE Latest

\* A node rejects a query for a block it does not have.
Serves(h) == h = Latest \/ h \in oldest .. chain
Read(h) == IF h = Latest THEN chain ELSE h

Outcomes(p) ==
    {OK(s, f, Read(Carried(s))) : s \in {r \in Reachable(p) : Serves(Carried(r))}, f \in Fields(p)}
    \cup Failures

-----------------------------------------------------------------------------
\* Variant: every failure of a part leaves the part out.
ToleratesAll(p, code) == code = "ok" \/ p \notin Essential

Tolerates(p, code) ==
    \/ code = "ok"
    \/ p \notin Essential /\ (code \in OptionalCodes \/ p = "syncing")

\* The first part says it all: the status by RPC, or the parameters of gov v1.
Complete ==
    \/ tool = "chain_status" /\ "node_info" \in DOMAIN results
       /\ results["node_info"].source = "rpc"
    \/ tool = "gov_params" /\ "voting_params" \in DOMAIN results
       /\ "params" \in results["voting_params"].fields

Asked(p) == p \in DOMAIN results
Found == {p \in DOMAIN results : results[p].code = "ok"}

Earliest(places) == CHOOSE i \in places : \A j \in places : i <= j

\* Variant: the second source alone is compared with the first.
CommonSourceOfTwo(values) ==
    LET first == Earliest(DOMAIN values)
        later == DOMAIN values \ {first}
    IN  IF DOMAIN values = {} THEN "system"
        ELSE IF later # {} /\ values[Earliest(later)] # values[first] THEN "mixed" ELSE values[first]

\* The sources of the parts that were found, each at the place of its part.
CommonSource(values) ==
    LET first == values[Earliest(DOMAIN values)] IN
    IF DOMAIN values = {} THEN "system"
    ELSE IF \E i \in DOMAIN values : values[i] # first THEN "mixed" ELSE first

\* chain_status reports the source of the node information.
Source ==
    LET places == {i \in DOMAIN Parts(tool) : Parts(tool)[i] \in Found}
    IN  IF tool = "chain_status" THEN results["node_info"].source
        ELSE CommonSource([i \in places |-> results[Parts(tool)[i]].source])

NoData == [k \in {} |-> ""]

Error(code, source) ==
    [error |-> code, source |-> IF source = "empty" THEN "system" ELSE source,
     data |-> NoData, warnings |-> {}]

\* The fields with a value, each with the part whose answer it was taken from.
\* All fields of the first governance answer are lifted; a later group replaces
\* its own, by nothing if its answer is without it.
Data(warnings) ==
    LET own == {p \in Found : p \in results[p].fields}
        lifted == IF tool = "gov_params" THEN results["voting_params"].fields \ Found ELSE {}
    IN  [error |-> "none", source |-> Source, warnings |-> warnings,
         data |-> [k \in own \cup lifted |-> IF k \in own THEN k ELSE "voting_params"]]

None == [error |-> "none", source |-> "none", data |-> NoData, warnings |-> {}]

-----------------------------------------------------------------------------
TInit ==
    /\ tool \in Tools
    /\ height \in (IF tool = "chain_status" THEN {Latest} ELSE Heights \cup {Latest, Malformed})
    /\ context = Latest
    /\ chain \in Heights /\ oldest \in {b \in Heights : b <= chain}
    /\ results = <<>>
    /\ answer = None

NewBlock ==
    /\ answer = None
    /\ \E b \in Heights : b > chain /\ chain' = b
    /\ UNCHANGED <<tool, height, context, oldest, results, answer>>

Prune ==
    /\ answer = None
    /\ \E b \in Heights : b > oldest /\ b <= chain /\ oldest' = b
    /\ UNCHANGED <<tool, height, context, chain, results, answer>>

\* heightContext refuses what is not a positive number and pins the rest; no
\* height leaves the context as it is.
HeightContext ==
    /\ answer = None /\ height # context
    /\ IF height = Malformed
       THEN answer' = Error("invalid_input", "system") /\ UNCHANGED context
       ELSE context' = height /\ UNCHANGED answer
    /\ UNCHANGED <<tool, height, chain, oldest, results>>

\* The next part is resolved; the call ends here if it does not tolerate the
\* result.
ResolvePart ==
    /\ answer = None /\ height = context /\ ~ Complete
    /\ \E i \in DOMAIN Parts(tool) :
          LET p == Parts(tool)[i] IN
          /\ ~ Asked(p) /\ \A j \in 1 .. i - 1 : Asked(Parts(tool)[j])
          /\ \E o \in Outcomes(p) :
                /\ results' = [q \in DOMAIN results \cup {p} |-> IF q = p THEN o ELSE results[q]]
                /\ answer' = IF Tolerates(p, o.code) THEN None ELSE Error(o.code, o.source)
    /\ UNCHANGED <<tool, height, context, chain, oldest>>

\* Every part has been resolved.  With none found the error is that of the
\* first.
Respond ==
    /\ answer = None /\ height = context
    /\ Complete \/ \A i \in DOMAIN Parts(tool) : Asked(Parts(tool)[i])
    /\ answer' = IF Found = {} THEN Error(results[Parts(tool)[1]].code, "system")
                 ELSE Data(DOMAIN results \ Found)
    /\ UNCHANGED <<tool, height, context, chain, oldest, results>>

TNext == NewBlock \/ Prune \/ HeightContext \/ ResolvePart \/ Respond

TSpec == TInit /\ [][TNext]_tvars

-----------------------------------------------------------------------------
Advertised ==
    CASE tool = "simple"         -> {"value"}
      [] tool = "token_info"     -> {"supply", "metadata"}
      [] tool = "ibc_token_info" -> {"supply", "metadata", "denom_trace"}
      [] tool = "inflation"      -> {"inflation", "annual_provisions"}
      [] tool = "gov_params"     -> {"voting_params", "deposit_params", "tally_params"}
      [] tool = "chain_status"   -> IF results["node_info"].source = "rpc" THEN {"node_info"}
                                    ELSE {"node_info", "syncing"}

Given == answer.error = "none" /\ answer # None

\* No part a tool advertises is left out because its query failed: unless gov v1
\* gave the whole set, each part was found or is among the warnings.  A part that
\* was found is taken from its own answer and never from the zero values of the
\* voting answer, and is missing only if its own answer is without it; what is
\* taken from the voting answer all the same comes with a warning.  There is an
\* answer whenever some part was found and none failed for a reason of its own
\* (query_tools.go:254-291, 483-528, 651-674).
EveryPartIsAccountedFor ==
    /\ Given =>
          /\ Found # {}
          /\ \A p \in Advertised :
                IF p \in Found
                THEN IF p \in results[p].fields
                     THEN p \in DOMAIN answer.data /\ answer.data[p] = p
                     ELSE p \notin DOMAIN answer.data
                ELSE p \in answer.warnings \/ "params" \in DOMAIN answer.data
          /\ \A p \in answer.warnings : p \in DOMAIN answer.data => answer.data[p] # p
    /\ answer.error \in OptionalCodes => Found = {}

\* A failure that does not say the part is absent is never turned into a
\* warning or lost behind a later part: the call ends there with its code
\* (query_tools.go:242-251, 279-280, 513-516, 644-650).
FailureIsReported ==
    \A p \in DOMAIN results \ {"syncing"} :
       results[p].code \in OtherCodes => answer.error = results[p].code

\* "source" names the endpoint all parts came from, and is "mixed" if and only
\* if they came from several (query_tools.go:908-918, 114-118).
SourceIsTrue ==
    Given => LET sources == {results[p].source : p \in Found} IN
             answer.source = IF Cardinality(sources) > 1 THEN "mixed"
                             ELSE CHOOSE s \in sources : TRUE

\* With a height, all parts of an answer are of that block, whatever the chain
\* and the nodes did between them: the height is in the context before the first
\* query, every protocol open to these tools carries it, and a node that has
\* pruned the block rejects it (query_tools.go:234, 492, 639; height.go:5-21,
\* lcd.go:71-73, grpc.go:143-145).
PinnedPartsAgree ==
    Given /\ height # Latest => \A p \in Found : results[p].block = height

=============================================================================
