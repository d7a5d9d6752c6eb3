------------------------------ MODULE MCProcess ------------------------------
(* A small instance of Process. *)
EXTENDS Process

Numbered ==
    "15s" :> [number |-> 1, unit |-> 1] @@ "0s" :> [number |-> 0, unit |-> 1]
        @@ "5KiB" :> [number |-> 5, unit |-> 3] @@ "12KiB" :> [number |-> 12, unit |-> 3]

\* With 15 as the greatest integer, 5 KiB (of 3 bytes each) fits exactly, and
\* 12 KiB would wrap to 4.
SomeTexts ==
    [s \in Settings |->
        CASE s = "rpc-url" -> {"empty", "good", "bad"}
          [] s = "grpc-target" -> {"empty", "blank", "good"}
          [] s = "lcd-url" -> {"padded"}
          [] s = "grpc-insecure" -> {"true", "false", "maybe"}
          [] s = "timeout" -> {"15s", "0s"}
          [] s = "max-response-bytes" -> {"5KiB", "12KiB"}]

\* Two names, a blank, ibc/x, ibc/ and ibc/x/x.
SomeValues == {<<"x">>, <<"y">>, <<"">>, <<"ibc", "x">>, <<"ibc", "">>, <<"ibc", "x", "x">>}
=============================================================================
