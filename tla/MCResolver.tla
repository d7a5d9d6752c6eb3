----------------------------- MODULE MCResolver -----------------------------
(* Small instances of Resolver. *)
EXTENDS Resolver, TLC

CONSTANTS c1, c2, k1, a1, a2, g1, l1, r1

TwoCallers == {c1, c2}
Sym == Permutations(TwoCallers)

\* A route that contains its argument.
LCDOnly == (k1 :> <<l1>>)
GRPCThenLCD == (k1 :> <<g1, l1>>)
MCProtocol == [b \in Bindings |-> IF b = g1 THEN "grpc" ELSE IF b = l1 THEN "lcd" ELSE "rpc"]

\* Every call returns: the callers are alike, so it is enough to follow one.
CallsReturn == Returns(c1)
=============================================================================
