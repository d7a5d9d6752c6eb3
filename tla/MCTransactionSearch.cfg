CONSTANTS
    Modulus <- MCModulus
    DefaultLimit = 2
    MaxLimit = 5
SPECIFICATION SSpec
INVARIANTS EachTransactionOnce
\* The walk ends at the last transaction.
CHECK_DEADLOCK FALSE
