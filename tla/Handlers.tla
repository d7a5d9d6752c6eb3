------------------------------- MODULE Handlers -------------------------------
(***************************************************************************)
(* The tools of internal/server: which of them are exposed, which queries  *)
(* each one makes of its arguments, and with which bindings, newest first. *)
(* Resolver.tla takes over from there; it relies on what is checked here:  *)
(* a name of a binding means one thing for all calls of a capability.      *)
(*                                                                         *)
(* A value is the sequence of its parts between slashes, <<"">> if it is   *)
(* blank (values with ?, #, space or backslash are refused like a blank    *)
(* one), << >> if the argument is not given.  Left out are what the LCD    *)
(* client refuses for itself when it is asked: a part . or .., and a       *)
(* parameter that the configured URL fixes.                                *)
(***************************************************************************)
EXTENDS SequencesExt

CONSTANT Values     \* the values of arguments

SafeValue(value) == Len(value) = 1 /\ value # <<"">>

\* What is given has a part, and some address, hash or identifier is accepted.
ASSUME ValueAssumption ==
    Values \subseteq Seq(STRING) \ {<< >>} /\ \E value \in Values : SafeValue(value)

PageRequests == {"none", "good", "refused"}
Heights == {"none", "past", "malformed"}

\* The arguments of a call: an address, a denomination, an identifier or a hash;
\* an optional second one; the page; the height.
Inputs == [value : Values, other : Values \cup {<< >>}, page : PageRequests, height : Heights]

Cosmos == {"rpc", "lcd", "grpc"}

-----------------------------------------------------------------------------
\* A path as a handler writes it, piece by piece: its parts, and the arguments
\* that are in it.
Fixed(parts) == [parts |-> parts, holds |-> {}]
Arg(argument, value) == [parts |-> value, holds |-> {argument}]
path ++ rest == [parts |-> path.parts \o rest.parts, holds |-> path.holds \cup rest.holds]

\* path.Join drops empty parts.
Joined(path) ==
    IF "" \in Range(path) THEN SelectSeq(path, LAMBDA part : part # "") ELSE path

\* A binding: its name, its method or path, and the arguments it passes on: what
\* is in the request, the path and the query, or the parameters.
GRPC(name, service, method, request) ==
    [name |-> <<"grpc", name>>, via |-> "grpc", target |-> service \o <<method>>, passes |-> request]
LCD(name, path, query) ==
    [name |-> <<"lcd", name>>, via |-> "lcd", target |-> Joined(path.parts),
     passes |-> path.holds \cup query]
RPC(name, method, params) ==
    [name |-> <<"rpc", name>>, via |-> "rpc", target |-> <<method>>, passes |-> params]

\* A query of a tool, pinned to a height or not.  A query may be made only after
\* an answer of one source.
Query(tool, capability, height, bindings) ==
    [tool |-> tool, capability |-> capability, height |-> height, bindings |-> bindings, source |-> "any"]

\* It is not made if an argument is refused.
When(accepted, query) == IF accepted THEN {query} ELSE {}

SDK(module) == <<"cosmos", module, "v1beta1">>
SDKQuery(module) == SDK(module) \o <<"Query">>

GovBindings(name, method, path, request, query) ==
    <<GRPC(<<"gov_v1", name>>, <<"cosmos", "gov", "v1", "Query">>, method, request),
      GRPC(<<"gov_v1beta1", name>>, SDKQuery("gov"), method, request),
      LCD(<<"gov_v1", name>>, Fixed(<<"cosmos", "gov", "v1">>) ++ path, query),
      LCD(<<"gov_v1beta1", name>>, Fixed(SDK("gov")) ++ path, query)>>

\* The name is made of the module and the method (in lower case, which keeps the
\* methods of a module apart).
ModuleBindings(module, method, path, request, query) ==
    <<GRPC(<<module, method>>, SDKQuery(module), method, request),
      LCD(<<module, method>>, Fixed(SDK(module)) ++ path, query)>>

\* A pair of routes whose name the handler gives.
Pair(name, module, method, path, request, query) ==
    <<GRPC(<<name>>, SDKQuery(module), method, request),
      LCD(<<name>>, Fixed(SDK(module)) ++ path, query)>>

DenomTraceBindings(hash) ==
    LET service == <<"ibc", "applications", "transfer", "v1", "Query">>
        routes == <<"ibc", "apps", "transfer", "v1">>
    IN <<GRPC(<<"denom_trace">>, service, "DenomTrace", {"value"}),
         LCD(<<"denom_trace">>, Fixed(routes \o <<"denom_traces">>) ++ Arg("value", hash), {}),
         GRPC(<<"denom">>, service, "Denom", {"value"}),
         LCD(<<"denom">>, Fixed(routes \o <<"denoms">>) ++ Arg("value", hash), {})>>

GovParamsBindings(name, type) ==
    GovBindings(name, "Params", Fixed(<<"params">>) ++ Arg("type", <<type>>), {"type"}, {})

-----------------------------------------------------------------------------
\* Validation.
NotBlank(value) == value # <<"">>
Optional(value) == value = << >> \/ SafeValue(value)
Given(in) == in.other # << >>
HeightOK(in) == in.height # "malformed"
PageOK(in) == in.page # "refused"
Pinned(in) == in.height # "none"

\* A filter that is given goes into the request and into the query.
Filter(in) == IF Given(in) THEN {"other"} ELSE {}

\* strings.TrimPrefix and strings.CutPrefix of "ibc/".
IsIBC(denom) == Len(denom) > 1 /\ denom[1] = "ibc"
Hash(denom) == IF IsIBC(denom) THEN Tail(denom) ELSE denom

\* simpleQuery: one query, pinned to the height.
Simple(in, tool, capability, accepted, bindings) ==
    When(accepted /\ HeightOK(in), Query(tool, capability, in.height, bindings))

\* Variant: one capability for both.
BlockKeyShared(in) == "block"

BlockKey(in) == IF Pinned(in) THEN "block:height" ELSE "block:latest"

NodeQueries(in) ==
    LET routes == <<"cosmos", "base", "tendermint", "v1beta1">>
        service == routes \o <<"Service">>
        params == IF Pinned(in) THEN {"height"} ELSE {}
        request == IF Pinned(in) THEN {"height"} ELSE {}
        method == IF Pinned(in) THEN "GetBlockByHeight" ELSE "GetLatestBlock"
        block == IF Pinned(in) THEN Arg("height", <<in.height>>) ELSE Fixed(<<"latest">>)
    IN
    {Query("chain_status", "chain_status", "none",
           <<RPC(<<"status">>, "status", {}), GRPC(<<"node_info">>, service, "GetNodeInfo", {}),
             LCD(<<"node_info">>, Fixed(routes \o <<"node_info">>), {})>>)}
    \* The sync state is asked where the node information came from.
    \cup {[Query("chain_status", "chain_sync:grpc", "none",
                 <<GRPC(<<"syncing">>, service, "GetSyncing", {})>>) EXCEPT !.source = "grpc"],
          [Query("chain_status", "chain_sync:lcd", "none",
                 <<LCD(<<"syncing">>, Fixed(routes \o <<"syncing">>), {})>>) EXCEPT !.source = "lcd"]}
    \cup When(HeightOK(in), Query("get_block", BlockKey(in), "none",
           <<RPC(<<"block">>, "block", params), GRPC(<<"block">>, service, method, request),
             LCD(<<"block">>, Fixed(routes \o <<"blocks">>) ++ block, {})>>))
    \cup When(SafeValue(in.value), Query("get_transaction", "transaction", "none",
           <<GRPC(<<"get_tx">>, SDK("tx") \o <<"Service">>, "GetTx", {"value"}),
             LCD(<<"get_tx">>, Fixed(SDK("tx") \o <<"txs">>) ++ Arg("value", in.value), {}),
             RPC(<<"tx">>, "tx", {"value"})>>))

BankQueries(in) ==
    LET by == Arg("value", in.value) IN
    UNION {Simple(in, "get_account", "account", SafeValue(in.value),
            Pair("auth_account", "auth", "Account", Fixed(<<"accounts">>) ++ by, {"value"}, {})),
     IF Given(in)
     THEN Simple(in, "get_balances", "balance", SafeValue(in.value) /\ NotBlank(in.other),
                 Pair("balance", "bank", "Balance", Fixed(<<"balances">>) ++ by ++ Fixed(<<"by_denom">>),
                      {"value", "other"}, {"other"}))
     ELSE Simple(in, "get_balances", "balances", SafeValue(in.value) /\ PageOK(in),
                 Pair("all_balances", "bank", "AllBalances", Fixed(<<"balances">>) ++ by,
                      {"value", "page"}, {"page"})),
     Simple(in, "get_token_info", "token_supply", NotBlank(in.value),
            Pair("supply", "bank", "SupplyOf", Fixed(<<"supply", "by_denom">>), {"value"}, {"value"})),
     Simple(in, "get_token_info", "token_metadata", NotBlank(in.value),
            Pair("metadata", "bank", "DenomMetadata", Fixed(<<"denoms_metadata">>) ++ by, {"value"}, {})),
     Simple(in, "get_token_info", "denom_trace", IsIBC(in.value), DenomTraceBindings(Hash(in.value)))}

StakingQueries(in) ==
    LET by == Arg("value", in.value)
        delegator == Fixed(<<"delegators">>) ++ by
        listed == SafeValue(in.value) /\ PageOK(in)
        rewarded == SafeValue(in.value) /\ Optional(in.other)
    IN
    UNION {Simple(in, "get_validators", "staking_validators", PageOK(in),
            Pair("staking_validators", "staking", "Validators", Fixed(<<"validators">>),
                 {"page"} \cup Filter(in), {"page"} \cup Filter(in))),
     Simple(in, "get_validator", "staking_validator", SafeValue(in.value),
            Pair("staking_validator", "staking", "Validator", Fixed(<<"validators">>) ++ by, {"value"}, {})),
     Simple(in, "get_delegations", "delegations", listed,
            Pair("delegations", "staking", "DelegatorDelegations",
                 Fixed(<<"delegations">>) ++ by, {"value", "page"}, {"page"})),
     Simple(in, "get_unbonding_delegations", "unbonding_delegations", listed,
            Pair("unbonding_delegations", "staking", "DelegatorUnbondingDelegations",
                 delegator ++ Fixed(<<"unbonding_delegations">>), {"value", "page"}, {"page"})),
     IF Given(in)
     THEN Simple(in, "get_rewards", "delegation_rewards", rewarded,
                 Pair("delegation_rewards", "distribution", "DelegationRewards",
                      delegator ++ Fixed(<<"rewards">>) ++ Arg("other", in.other), {"value", "other"}, {}))
     ELSE Simple(in, "get_rewards", "total_rewards", rewarded,
                 Pair("total_rewards", "distribution", "DelegationTotalRewards",
                      delegator ++ Fixed(<<"rewards">>), {"value"}, {}))}

\* Variant: the filters are put in the gRPC request alone.
RedelegationsQueryUnfiltered(in) ==
    Simple(in, "get_redelegations", "redelegations",
           SafeValue(in.value) /\ Optional(in.other) /\ PageOK(in),
           Pair("redelegations", "staking", "Redelegations",
                Fixed(<<"delegators">>) ++ Arg("value", in.value) ++ Fixed(<<"redelegations">>),
                {"value", "page"} \cup Filter(in), {"page"}))

RedelegationsQuery(in) ==
    Simple(in, "get_redelegations", "redelegations",
           SafeValue(in.value) /\ Optional(in.other) /\ PageOK(in),
           Pair("redelegations", "staking", "Redelegations",
                Fixed(<<"delegators">>) ++ Arg("value", in.value) ++ Fixed(<<"redelegations">>),
                {"value", "page"} \cup Filter(in), {"page"} \cup Filter(in)))

DelegationQueries(in) ==
    UNION {RedelegationsQuery(in),
     Simple(in, "get_validator_delegations", "validator_delegations", SafeValue(in.value) /\ PageOK(in),
            Pair("validator_delegations", "staking", "ValidatorDelegations",
                 Fixed(<<"validators">>) ++ Arg("value", in.value) ++ Fixed(<<"delegations">>),
                 {"value", "page"}, {"page"})),
     Simple(in, "get_staking_pool", "staking_pool", TRUE,
            ModuleBindings("staking", "Pool", Fixed(<<"pool">>), {}, {}))}

ModuleQueries(in) ==
    UNION {Simple(in, "get_community_pool", "community_pool", TRUE,
            ModuleBindings("distribution", "CommunityPool", Fixed(<<"community_pool">>), {}, {})),
     Simple(in, "get_total_supply", "total_supply", PageOK(in),
            ModuleBindings("bank", "TotalSupply", Fixed(<<"supply">>), {"page"}, {"page"})),
     IF Given(in)
     THEN Simple(in, "get_signing_infos", "signing_info", SafeValue(in.other),
                 ModuleBindings("slashing", "SigningInfo",
                                Fixed(<<"signing_infos">>) ++ Arg("other", in.other), {"other"}, {}))
     ELSE Simple(in, "get_signing_infos", "signing_infos", PageOK(in),
                 ModuleBindings("slashing", "SigningInfos", Fixed(<<"signing_infos">>), {"page"}, {"page"})),
     Simple(in, "get_denom_trace", "denom_trace", SafeValue(Hash(in.value)),
            DenomTraceBindings(Hash(in.value))),
     Simple(in, "get_inflation", "mint_inflation", TRUE,
            ModuleBindings("mint", "Inflation", Fixed(<<"inflation">>), {}, {})),
     Simple(in, "get_inflation", "mint_annual_provisions", TRUE,
            ModuleBindings("mint", "AnnualProvisions", Fixed(<<"annual_provisions">>), {}, {}))}

\* moduleParams: the parameters of a module, but for governance.
ParamsQuery(in, tool, capability, module) ==
    Simple(in, tool, capability, TRUE, ModuleBindings(module, "Params", Fixed(<<"params">>), {}, {}))

ParamsQueries(in) ==
    UNION {ParamsQuery(in, "get_staking_params", "staking_params", "staking"),
     ParamsQuery(in, "get_distribution_params", "distribution_params", "distribution"),
     ParamsQuery(in, "get_mint_params", "mint_params", "mint"),
     ParamsQuery(in, "get_slashing_params", "slashing_params", "slashing"),
     ParamsQuery(in, "get_bank_params", "bank_params", "bank")}

TransactionQueries(in) ==
    When(NotBlank(in.value) /\ PageOK(in), Query("search_transactions", "transaction_search", "none",
           <<GRPC(<<"tx_search">>, SDK("tx") \o <<"Service">>, "GetTxsEvent", {"value", "page"}),
             LCD(<<"tx_search">>, Fixed(SDK("tx") \o <<"txs">>), {"value", "page"}),
             RPC(<<"tx_search">>, "tx_search", {"value", "page"})>>))
    \cup When(SafeValue(in.value), Query("simulate_transaction", "transaction_simulation", "none",
           <<GRPC(<<"simulate">>, SDK("tx") \o <<"Service">>, "Simulate", {"value"})>>))

\* The votes on a proposal, or one; its deposits, or one.
OneOrAll(in, tool, one, all) ==
    LET path == Fixed(<<"proposals">>) ++ Arg("value", in.value) ++ Fixed(<<all.name>>) IN
    IF Given(in)
    THEN Simple(in, tool, one.capability, SafeValue(in.value) /\ SafeValue(in.other),
                GovBindings(one.name, one.method, path ++ Arg("other", in.other), {"value", "other"}, {}))
    ELSE Simple(in, tool, all.capability, SafeValue(in.value) /\ PageOK(in),
                GovBindings(all.name, all.method, path, {"value", "page"}, {"page"}))

Asking(capability, name, method) == [capability |-> capability, name |-> name, method |-> method]

GovQueries(in) ==
    UNION {Simple(in, "get_proposals", "governance_proposals", PageOK(in),
            GovBindings("proposals", "Proposals", Fixed(<<"proposals">>),
                        {"page"} \cup Filter(in), {"page"} \cup Filter(in))),
     Simple(in, "get_proposal", "governance_proposal", SafeValue(in.value),
            GovBindings("proposal", "Proposal", Fixed(<<"proposals">>) ++ Arg("value", in.value), {"value"}, {})),
     Simple(in, "get_proposal_tally", "governance_tally", SafeValue(in.value),
            GovBindings("tally", "TallyResult",
                        Fixed(<<"proposals">>) ++ Arg("value", in.value) ++ Fixed(<<"tally">>), {"value"}, {})),
     OneOrAll(in, "get_proposal_votes", Asking("governance_vote", "vote", "Vote"),
              Asking("governance_votes", "votes", "Votes")),
     OneOrAll(in, "get_proposal_deposits", Asking("governance_deposit", "deposit", "Deposit"),
              Asking("governance_deposits", "deposits", "Deposits"))}

GovParamsQueries(in) ==
    UNION {Simple(in, "get_gov_params", "governance_params", TRUE, GovParamsBindings("params_voting", "voting")),
     Simple(in, "get_gov_params", "governance_params_deposit", TRUE,
            GovParamsBindings("params_deposit", "deposit")),
     Simple(in, "get_gov_params", "governance_params_tallying", TRUE,
            GovParamsBindings("params_tallying", "tallying"))}

QueriesOf(in) ==
    NodeQueries(in) \cup BankQueries(in) \cup StakingQueries(in) \cup GovQueries(in)
        \cup DelegationQueries(in) \cup ModuleQueries(in) \cup TransactionQueries(in)
        \cup ParamsQueries(in) \cup GovParamsQueries(in)

\* All queries the tools make, and those made with these endpoints.
Queries == UNION {QueriesOf(in) : in \in Inputs}

Asked(endpoints) == {q \in Queries : q.source \in endpoints \cup {"any"}}

-----------------------------------------------------------------------------
\* registerTools.
NodeTools == {"chain_status", "get_block", "get_transaction", "search_transactions"}

StateTools ==
    {"get_account", "get_balances", "get_token_info", "get_validators", "get_validator",
     "get_delegations", "get_unbonding_delegations", "get_rewards", "get_proposals", "get_proposal",
     "get_proposal_tally", "get_proposal_votes", "get_proposal_deposits", "get_redelegations",
     "get_validator_delegations", "get_staking_pool", "get_total_supply", "get_community_pool",
     "get_inflation", "get_signing_infos", "get_denom_trace", "get_staking_params", "get_gov_params",
     "get_distribution_params", "get_mint_params", "get_slashing_params", "get_bank_params"}

\* The tool that passes a query on as it is.
RawTool(via) == CASE via = "rpc" -> "rpc_query" [] via = "lcd" -> "lcd_query" [] via = "grpc" -> "grpc_query"

\* Variant: the state tools are there whatever is configured.
ExposedAlways(endpoints) ==
    {"endpoint_status"} \cup {RawTool(via) : via \in endpoints}
        \cup (IF endpoints # {} THEN NodeTools \cup StateTools ELSE {})
        \cup (IF "grpc" \in endpoints THEN {"simulate_transaction"} ELSE {})

Exposed(endpoints) ==
    {"endpoint_status"} \cup {RawTool(via) : via \in endpoints}
        \cup (IF endpoints # {} THEN NodeTools ELSE {})
        \cup (IF endpoints \cap {"lcd", "grpc"} # {} THEN StateTools ELSE {})
        \cup (IF "grpc" \in endpoints THEN {"simulate_transaction"} ELSE {})

-----------------------------------------------------------------------------
\* allowedRPCMethod and allowedGRPCMethod.
AllowedRPC ==
    {"status", "health", "net_info", "blockchain", "genesis", "genesis_chunked", "block",
     "block_by_hash", "block_results", "commit", "header", "header_by_hash", "validators",
     "dump_consensus_state", "consensus_state", "consensus_params", "unconfirmed_txs",
     "num_unconfirmed_txs", "tx", "tx_search", "abci_query", "check_tx"}

AllowedGRPC(service, method) ==
    \/ Last(service) = "Query"
    \/ /\ service = <<"cosmos", "base", "tendermint", "v1beta1", "Service">>
       /\ method \in {"GetNodeInfo", "GetSyncing", "GetLatestBlock", "GetBlockByHeight",
                      "GetLatestValidatorSet", "GetValidatorSetByHeight"}
    \/ /\ service = <<"cosmos", "base", "node", "v1beta1", "Service">>
       /\ method \in {"Config", "Status"}
    \/ service = SDK("tx") \o <<"Service">> /\ method \in {"GetTx", "GetTxsEvent", "Simulate"}

Allowed(b) ==
    \/ b.via = "rpc" /\ b.target[1] \in AllowedRPC
    \/ b.via = "grpc" /\ AllowedGRPC(Front(b.target), Last(b.target))
    \/ b.via = "lcd"

\* The bindings of a query that a server with these endpoints can use.
Usable(q, endpoints) ==
    {i \in DOMAIN q.bindings : q.bindings[i].via \in endpoints /\ Allowed(q.bindings[i])}

\* The height of a pinned query travels in a header, which JSON-RPC has not.
Carried(q, b) == b.passes \cup IF q.height # "none" /\ b.via # "rpc" THEN {"height"} ELSE {}

-----------------------------------------------------------------------------
\* The same method, or the same route for other arguments: it differs in parts
\* of values alone.
ValueParts == UNION {Range(value) : value \in Values}

SameRoute(target, other) ==
    /\ Len(target) = Len(other)
    /\ \A i \in DOMAIN target : target[i] = other[i] \/ {target[i], other[i]} \subseteq ValueParts

=============================================================================
