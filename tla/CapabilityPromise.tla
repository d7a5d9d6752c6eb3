-------------------------- MODULE CapabilityPromise --------------------------
(***************************************************************************)
(* What a caller of Resolve (internal/cosmos/capability.go:66) is promised,*)
(* without the maps, locks, probes and order of attempts with which it is  *)
(* kept.  A call ends within its budget in one of three ways:              *)
(*                                                                         *)
(*   - answered, when an endpoint gives an answer about the argument of    *)
(*     the call to one of the bindings of its capability;                  *)
(*   - refused, when there is an argument for which each binding could not *)
(*     be found lately, or is hidden from the client for good;             *)
(*   - failed, when an endpoint is in trouble, or was during the call, or  *)
(*     lacks a method whose absence it cannot tell.                        *)
(***************************************************************************)
EXTENDS Naturals

CONSTANTS
    Callers,
    Capabilities,
    Arguments,
    Bindings,
    Routes,         \* [Capabilities -> SUBSET Bindings]
    Opaque,         \* bindings whose absence looks like any other error
    Staleness,      \* how old the evidence of a refusal may be
    Budget,         \* how long a call may take
    Horizon,        \* ages are not told apart from here on
    None

VARIABLES
    request,        \* caller -> the capability and argument of its call, or None
    result,         \* caller -> how its last call ended, or "none"
    blamed,         \* an endpoint was in trouble during the call
    spent,          \* how long the call has taken
    offered,        \* binding -> the arguments the endpoints answer about
    found,          \* binding -> the arguments for which the client can find it
    trouble,        \* the endpoints may fail
    hidden,         \* bindings the client does not see, whatever is offered
    absence         \* the time for which a binding could now be found

callerVars == <<request, result, blamed, spent>>
worldVars == <<offered, found, trouble, hidden, absence>>
pvars == <<callerVars, worldVars>>

-----------------------------------------------------------------------------
PInit ==
    /\ request = [c \in Callers |-> None]
    /\ result = [c \in Callers |-> "none"]
    /\ blamed = [c \in Callers |-> FALSE]
    /\ spent = [c \in Callers |-> 0]
    /\ hidden = {}
    /\ \A b \in Bindings, a \in Arguments :
          absence[b][a] = IF a \in found[b] THEN Horizon ELSE 0

Ask(c, k, a) ==
    /\ request[c] = None
    /\ request' = [request EXCEPT ![c] = <<k, a>>]
    /\ result' = [result EXCEPT ![c] = "none"]
    /\ UNCHANGED <<blamed, spent, worldVars>>

End(c, how) ==
    /\ request[c] # None
    /\ request' = [request EXCEPT ![c] = None]
    /\ result' = [result EXCEPT ![c] = how]
    /\ blamed' = [blamed EXCEPT ![c] = FALSE]
    /\ spent' = [spent EXCEPT ![c] = 0]
    /\ UNCHANGED worldVars

Answer(c) ==
    /\ End(c, "answered")
    /\ \E b \in Routes[request[c][1]] : request[c][2] \in offered[b]

Refuse(c) ==
    /\ End(c, "refused")
    /\ \E a \in Arguments : \A b \in Routes[request[c][1]] :
          absence[b][a] <= Staleness \/ b \in hidden

Fail(c) ==
    /\ End(c, "failed")
    /\ \/ trouble \/ blamed[c]
       \/ \E b \in Routes[request[c][1]] \cap Opaque : request[c][2] \notin offered[b]

Blame(c) ==
    /\ request[c] # None /\ trouble
    /\ blamed' = [blamed EXCEPT ![c] = TRUE]
    /\ UNCHANGED <<request, result, spent, worldVars>>

\* The client learns that it will not see some bindings.
Learn ==
    /\ UNCHANGED <<callerVars, offered, found, trouble, absence>>
    /\ hidden \subseteq hidden'

WorldChange ==
    /\ UNCHANGED <<callerVars, hidden>>
    /\ \A b \in Bindings, a \in Arguments :
          absence'[b][a] = IF a \in found'[b] THEN absence[b][a] ELSE 0

Pass ==
    /\ \A c \in Callers : request[c] # None => spent[c] < Budget
    /\ spent' = [c \in Callers |-> IF request[c] # None THEN spent[c] + 1 ELSE 0]
    /\ UNCHANGED <<request, result, blamed, offered, found, trouble, hidden>>
    /\ \A b \in Bindings, a \in Arguments :
          absence'[b][a] = IF a \notin found[b] THEN 0
                           ELSE IF absence[b][a] < Horizon THEN absence[b][a] + 1 ELSE Horizon

PNext ==
    \/ WorldChange \/ Learn \/ Pass
    \/ \E c \in Callers : \/ \E k \in Capabilities, a \in Arguments : Ask(c, k, a)
                          \/ Answer(c) \/ Refuse(c) \/ Fail(c) \/ Blame(c)

PSpec == PInit /\ [][PNext]_pvars

=============================================================================
