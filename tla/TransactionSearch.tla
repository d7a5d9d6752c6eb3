--------------------------- MODULE TransactionSearch ---------------------------
(***************************************************************************)
(* Pagination of search_transactions (internal/server/query_tools.go:      *)
(* 688-747, 765-809).  A caller walks through the matching transactions:   *)
(* each call goes on at the offset after the last transaction it has, with *)
(* a limit of its choice.  The tool turns the offset into the number of a  *)
(* page, which is all that JSON-RPC and newer versions of the SDK          *)
(* understand, and refuses what a page cannot express.                     *)
(***************************************************************************)
EXTENDS Integers

CONSTANTS
    Modulus,        \* 2^64: the values of an uint64
    DefaultLimit,   \* defaultPageLimit
    MaxLimit        \* maxPageLimit

ASSUME LimitAssumption ==
    /\ Modulus \in Nat /\ DefaultLimit \in Nat \ {0} /\ MaxLimit \in Nat
    /\ DefaultLimit <= MaxLimit /\ MaxLimit < Modulus

UInt == 0 .. Modulus - 1

VARIABLES
    first,      \* the offset of the first call
    next,       \* the offset after the last transaction received
    received,   \* how often each transaction was received
    outcome     \* the outcome of the last call

svars == <<first, next, received, outcome>>

-----------------------------------------------------------------------------
\* normalizedPagination: no limit, or 0, is the default.
Limit(limit) == IF limit = 0 THEN DefaultLimit ELSE limit

\* Variant: any offset will do.
AlignedAlways(offset, limit) == TRUE

Aligned(offset, limit) == offset % limit = 0

\* The checks of paginationValues, then those of searchTransactions.
Accepted(key, reverse, offset, limit) ==
    /\ limit <= MaxLimit
    /\ ~ (key /\ offset # 0)
    /\ ~ key /\ ~ reverse
    /\ Aligned(offset, limit)

PageNumber(offset, limit) == (offset \div limit + 1) % Modulus

\* The transactions of a page, by the endpoint's count from 1.
Page(number, limit) == {i \in UInt : (number - 1) * limit <= i /\ i < number * limit}

-----------------------------------------------------------------------------
SInit ==
    /\ first \in UInt /\ next = first
    /\ received = [i \in UInt |-> 0]
    /\ outcome = "none"

\* The caller stops one short of the greatest offset, where the number of a page
\* of one transaction wraps to 0.
SearchTransactions ==
    /\ next < Modulus - 1
    /\ \E key, reverse \in BOOLEAN, given \in UInt :
          LET limit == Limit(given) IN
          IF Accepted(key, reverse, next, limit)
          THEN /\ LET page == Page(PageNumber(next, limit), limit) IN
                  received' = [i \in UInt |-> IF i \in page THEN received[i] + 1 ELSE received[i]]
               /\ next' = next + limit
               /\ outcome' = "answered"
          ELSE /\ outcome' = "invalid_input"
               /\ UNCHANGED <<next, received>>
    /\ UNCHANGED first

SNext == SearchTransactions

SSpec == SInit /\ [][SNext]_svars

-----------------------------------------------------------------------------
\* Walking through the transactions with offsets gives each of them once,
\* without a gap, even if the limit changes on the way, and although every
\* protocol but one counts in pages (query_tools.go:715-718).
EachTransactionOnce ==
    \A i \in UInt : received[i] = IF first <= i /\ i < next THEN 1 ELSE 0

=============================================================================
