-------------------------- MODULE MCDescriptorCache --------------------------
(* One service with two methods, looked up by two callers. *)
EXTENDS DescriptorCache, TLC

CONSTANTS c1, c2, s1, m1, m2

TwoLookups == {c1, c2}
OneService == [m \in Methods |-> s1]
=============================================================================
