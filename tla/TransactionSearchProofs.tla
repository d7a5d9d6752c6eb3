------------------------ MODULE TransactionSearchProofs ------------------------
(***************************************************************************)
(* Walking through a search gives each transaction once, for every width   *)
(* of the integers and all limits.                                         *)
(***************************************************************************)
EXTENDS TransactionSearch, TLAPS

\* The state of a walk: so far it has received what lies between its first and
\* its next offset.
Walked ==
    /\ first \in UInt /\ next \in Nat /\ first <= next
    /\ received \in [UInt -> Nat]
    /\ EachTransactionOnce

LEMMA ProductGrows ==
    ASSUME NEW q \in Nat, NEW l \in Nat \ {0}
    PROVE  q <= q * l
  OBVIOUS

\* An aligned offset is the first of the page it is turned into.
LEMMA AlignedOffset ==
    ASSUME NEW o \in Nat, NEW l \in Nat \ {0}, o % l = 0
    PROVE  o \div l \in Nat /\ (o \div l) * l = o /\ o \div l <= o
  <1> DEFINE q == o \div l
  <1>1. q \in Int /\ o = (l * q) + (o % l)
    OBVIOUS
  <1>2. l * q = o /\ q * l = o
    BY <1>1
  <1>3. q >= 0 /\ q <= o
    <2>1. CASE q < 0
      <3>1. l * q < 0
        BY <1>1, <2>1
      <3> QED
        BY <1>2, <3>1
    <2>2. CASE q >= 0
      <3>1. q \in Nat
        BY <1>1, <2>2
      <3> HIDE DEF q
      <3> QED
        BY <3>1, <1>2, ProductGrows
    <2> QED
      BY <1>1, <2>1, <2>2
  <1> QED
    BY <1>1, <1>2, <1>3

\* The page asked for holds the transactions from the offset on, as many as the
\* limit says (query_tools.go:718).
LEMMA PageStartsAtOffset ==
    ASSUME NEW o \in Nat, o < Modulus - 1, NEW l \in Nat \ {0}, o % l = 0
    PROVE  Page(PageNumber(o, l), l) = {i \in UInt : o <= i /\ i < o + l}
  <1> DEFINE q == o \div l
  <1>1. q \in Nat /\ q * l = o /\ q <= o
    BY AlignedOffset
  <1>2. PageNumber(o, l) = q + 1
    BY <1>1, LimitAssumption DEF PageNumber
  <1>3. ((q + 1) - 1) * l = o /\ (q + 1) * l = o + l
    <2>1. (q + 1) * l = q * l + l
      BY <1>1
    <2> QED
      BY <1>1, <2>1
  <1> QED
    BY <1>2, <1>3 DEF Page

LEMMA WalkStep ==
    ASSUME Walked, SearchTransactions
    PROVE  Walked'
  <1>1. PICK key \in BOOLEAN, reverse \in BOOLEAN, given \in UInt :
           LET limit == Limit(given) IN
           IF Accepted(key, reverse, next, limit)
           THEN /\ received' = [i \in UInt |->
                                  IF i \in Page(PageNumber(next, limit), limit)
                                  THEN received[i] + 1 ELSE received[i]]
                /\ next' = next + limit
           ELSE UNCHANGED <<next, received>>
    BY DEF SearchTransactions
  <1> DEFINE limit == Limit(given)
  <1>2. limit \in Nat \ {0} /\ first' = first /\ next < Modulus - 1
    BY LimitAssumption DEF Limit, UInt, SearchTransactions
  <1>3. CASE Accepted(key, reverse, next, limit)
    <2>1. /\ received' = [i \in UInt |->
                            IF i \in Page(PageNumber(next, limit), limit)
                            THEN received[i] + 1 ELSE received[i]]
          /\ next' = next + limit
      BY <1>1, <1>3
    <2>2. next \in Nat /\ next % limit = 0
      BY <1>3 DEF Accepted, Aligned, Walked
    <2>3. Page(PageNumber(next, limit), limit) = {i \in UInt : next <= i /\ i < next + limit}
      BY <1>2, <2>2, PageStartsAtOffset
    <2> QED
      BY <1>2, <2>1, <2>2, <2>3 DEF Walked, EachTransactionOnce, UInt
  <1>4. CASE ~ Accepted(key, reverse, next, limit)
    BY <1>1, <1>2, <1>4 DEF Walked, EachTransactionOnce
  <1> QED
    BY <1>3, <1>4

\* A walk receives each transaction once and leaves none out, for all widths of
\* the offset and all limits (query_tools.go:715-718).
THEOREM WalkIsExact == SSpec => []EachTransactionOnce
  <1>1. SInit => Walked
    BY LimitAssumption DEF SInit, Walked, EachTransactionOnce, UInt
  <1>2. Walked /\ [SNext]_svars => Walked'
    <2> SUFFICES ASSUME Walked, [SNext]_svars PROVE Walked'
      OBVIOUS
    <2>1. CASE SNext
      BY <2>1, WalkStep DEF SNext
    <2>2. CASE UNCHANGED svars
      BY <2>2 DEF svars, Walked, EachTransactionOnce
    <2> QED
      BY <2>1, <2>2
  <1>3. Walked => EachTransactionOnce
    BY DEF Walked
  <1> QED
    BY <1>1, <1>2, <1>3, PTL DEF SSpec

=============================================================================
