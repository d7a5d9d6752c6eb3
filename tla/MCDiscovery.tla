----------------------------- MODULE MCDiscovery -----------------------------
(* Small instances of Discovery. *)
EXTENDS Discovery, TLC

CONSTANTS c1, c2, k1, k2, a1, g1, g2, l1, s1, s2

TwoCallers == {c1, c2}
Sym == Permutations(TwoCallers)

\* A method, with another capability of the same service.
SharedService == (k1 :> <<g1>>) @@ (k2 :> <<g2>>)
\* DenomTrace and Denom of one service; v1 and v1beta1 of gov.
TwoMethods == (k1 :> <<g1, g2>>)
MCProtocol == [b \in Bindings |-> IF b = l1 THEN "lcd" ELSE "grpc"]
SameService == [b \in {g1, g2} \cap Bindings |-> s1]
TwoServices == (g1 :> s1) @@ (g2 :> s2)

\* Methods come and go, but one is there all the time or never: with it a service
\* can be known by a descriptor that lacks the other.
SteadySpec == Init /\ [][Next /\ served'[g2] = served[g2]]_allVars

\* The chain only ever adds methods.
UpgradeSpec ==
    /\ Init
    /\ [][Next /\ \A b \in Bindings : served[b] \subseteq served'[b]]_allVars
    /\ \A c \in Callers : WF_allVars(Run(c))
    /\ WF_allVars(Tick)
=============================================================================
