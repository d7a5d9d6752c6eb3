------------------------- MODULE MCTransactionSearch -------------------------
(* Integers of four bits; a default limit below the maximum, neither of     *)
(* which divides the other.                                                *)
EXTENDS TransactionSearch
MCModulus == 2^4
=============================================================================
