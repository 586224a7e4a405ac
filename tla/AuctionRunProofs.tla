-------------------------- MODULE AuctionRunProofs --------------------------
(***************************************************************************)
(* The theorems on RunAuction, of the state machine in which bids arrive   *)
(* one by one, and that it does what sorting the slice does.  Induction on *)
(* the finite sets of bids is by a minimal counterexample (WFMin).         *)
(***************************************************************************)
EXTENDS AuctionRun, AuctionTheorems, FiniteSetTheorems

RunInv == bids \subseteq Bids /\ floor \in Prices

LEMMA RunInvariant == Spec => []RunInv
<1>1. Init => RunInv
  BY DEF Init, RunInv
<1>2. RunInv /\ [Next]_vars => RunInv'
  BY DEF RunInv, Next, Decide, AppendBid, vars
<1> QED
  BY <1>1, <1>2, PTL DEF Spec

LEMMA RunBids ==
  ASSUME RunInv
  PROVE  floor \in Int /\ \A b \in Bids : IsBid(b)
  BY MaxPriceAssumption DEF RunInv, Bids, Prices, IsBid

(***************************************************************************)
(* Whatever has arrived, the price does not depend on how ties are broken. *)
(***************************************************************************)
THEOREM RunPriceIndependentOfTies == Spec => []PriceIndependentOfTies
<1>1. RunInv => PriceIndependentOfTies
  <2> SUFFICES ASSUME RunInv, NEW o1 \in Outcomes, NEW o2 \in Outcomes
               PROVE  o1.price = o2.price
    BY DEF PriceIndependentOfTies
  <2>1. floor \in Int /\ \A b \in bids : IsBid(b)
    BY RunBids DEF RunInv
  <2> QED
    BY <2>1, TiesCostNothing DEF Outcomes
<1> QED
  BY <1>1, RunInvariant, PTL

(***************************************************************************)
(* Whatever has arrived, a second-price winner cannot change its price by  *)
(* bidding differently.                                                    *)
(***************************************************************************)
THEOREM RunPriceIndependentOfOwnBid == Spec => []PriceIndependentOfOwnBid
<1> DEFINE OneBidPerId == \A b, c \in bids : b.id = c.id => b = c
<1>1. Init => OneBidPerId
  BY DEF Init
<1>2. OneBidPerId /\ [Next]_vars => OneBidPerId'
  <2> SUFFICES ASSUME OneBidPerId, [Next]_vars
               PROVE  OneBidPerId'
    OBVIOUS
  <2>1. CASE UNCHANGED bids
    BY <2>1
  <2>2. ASSUME NEW b \in Bids, AppendBid(b)
        PROVE  OneBidPerId'
    BY <2>2 DEF AppendBid
  <2> QED
    BY <2>1, <2>2 DEF Next, Decide, vars
<1>3. RunInv /\ OneBidPerId => PriceIndependentOfOwnBid
  <2> SUFFICES ASSUME RunInv, OneBidPerId, ~PaysOwnBid(at),
                      NEW o \in Outcomes,
                      NEW b \in Bids, b.id = o.winner.id,
                      NEW o2 \in RunAuction((bids \ {o.winner}) \cup {b},
                                            floor, at),
                      o2.winner = b
               PROVE  o2.price = o.price
    BY DEF PriceIndependentOfOwnBid
  <2> DEFINE others == bids \ {o.winner}
  <2>1. o.winner \in bids
    BY ResultParts DEF Outcomes
  <2>2. bids = others \cup {o.winner}
    BY <2>1
  <2>3. floor \in Int /\ \A c \in others : IsBid(c)
    BY RunBids DEF RunInv
  <2>4. b \notin others /\ o.winner \notin others
    BY <2>1
  <2>5. o \in RunAuction(others \cup {o.winner}, floor, at)
    BY <2>2 DEF Outcomes
  <2>6. o2 \in RunAuction(others \cup {b}, floor, at)
    OBVIOUS
  <2> HIDE DEF others
  <2> QED
    BY <2>3, <2>4, <2>5, <2>6, OwnBidIrrelevant
<1> QED
  BY <1>1, <1>2, <1>3, RunInvariant, PTL DEF Spec
-----------------------------------------------------------------------------
(* Sorting a finite set of bids. *)

LEMMA OneLess ==
  ASSUME NEW set, IsFiniteSet(set), NEW w \in set
  PROVE  /\ IsFiniteSet(set \ {w})
         /\ Cardinality(set) \in Nat /\ Cardinality(set) > 0
         /\ Cardinality(set \ {w}) = Cardinality(set) - 1
         /\ set \ {w} = {} <=> Cardinality(set) = 1
<1>1. /\ IsFiniteSet(set \ {w})
      /\ Cardinality(set \ {w}) = Cardinality(set) - 1
  BY FS_RemoveElement
<1>2. Cardinality(set) \in Nat /\ Cardinality(set \ {w}) \in Nat
  BY <1>1, FS_CardinalityType
<1>3. Cardinality(set \ {w}) = 0 <=> set \ {w} = {}
  BY <1>1, FS_EmptySet
<1> QED
  BY <1>1, <1>2, <1>3

\* Before is a strict weak order.
LEMMA BeforeOrders ==
  ASSUME NEW a, NEW b, NEW c, IsBid(a), IsBid(b), IsBid(c)
  PROVE  /\ ~Before(a, a)
         /\ Before(a, b) => ~Before(b, a)
         /\ ~Before(a, b) /\ ~Before(b, c) => ~Before(a, c)
<1>1. /\ Priority(a.dealType) \in Int /\ Priority(b.dealType) \in Int
      /\ Priority(c.dealType) \in Int
  BY PriorityInteger
<1> QED
  BY <1>1 DEF Before, IsBid

\* Among finitely many bids there is one that may come first.
LEMMA SomeLeader ==
  ASSUME NEW set, IsFiniteSet(set), set # {}, \A b \in set : IsBid(b)
  PROVE  Leaders(set) # {}
<1> DEFINE Leaderless == {U \in SUBSET set : U # {} /\ Leaders(U) = {}}
<1>1. SUFFICES ASSUME Leaderless # {} PROVE FALSE
  OBVIOUS
<1>2. Leaderless \subseteq FiniteSubsetsOf(set)
  BY FS_FiniteSubsetsOfFinite
<1>3. PICK U \in Leaderless :
        \A V \in Leaderless : <<V, U>> \notin StrictSubsetOrdering(set)
  BY <1>1, <1>2, FS_StrictSubsetOrderingWellFounded, WFMin
<1>4. PICK x \in U : IsBid(x)
  OBVIOUS
<1> DEFINE V == U \ {x}
<1>5. V \notin Leaderless
  BY <1>3, <1>4 DEF StrictSubsetOrdering
<1>6. CASE V = {}
  <2>1. x \in Leaders(U)
    BY <1>4, <1>6, BeforeOrders DEF Leaders
  <2> QED
    BY <2>1
<1>7. CASE V # {}
  <2>1. PICK y \in Leaders(V) : TRUE
    BY <1>5, <1>7
  <2>2. y \in V /\ \A c \in V : ~Before(c, y) /\ IsBid(c)
    BY <2>1 DEF Leaders
  <2>3. CASE Before(x, y)
    <3>1. ASSUME NEW c \in U PROVE ~Before(c, x)
      <4>1. CASE c = x
        BY <4>1, <1>4, BeforeOrders
      <4>2. CASE c # x
        <5>1. c \in V /\ ~Before(c, y) /\ ~Before(y, x)
          BY <1>4, <2>2, <2>3, <4>2, BeforeOrders
        <5> QED
          BY <1>4, <2>2, <5>1, BeforeOrders
      <4> QED
        BY <4>1, <4>2
    <3> QED
      BY <3>1 DEF Leaders
  <2>4. CASE ~Before(x, y)
    BY <2>2, <2>4 DEF Leaders
  <2> QED
    BY <2>3, <2>4
<1> QED
  BY <1>6, <1>7

\* A leader, put before a sorted slice of the others.
LEMMA Prepended ==
  ASSUME NEW set, IsFiniteSet(set), NEW w \in Leaders(set),
         NEW t \in SortedSlices(set \ {w})
  PROVE  \E s \in SortedSlices(set) :
           /\ s[1] = w
           /\ \A i \in 1..(Cardinality(set) - 1) : s[i + 1] = t[i]
<1> DEFINE n == Cardinality(set)
           s == [i \in 1..n |-> IF i = 1 THEN w ELSE t[i - 1]]
<1>1. w \in set /\ \A c \in set : ~Before(c, w)
  BY DEF Leaders
<1>2. n \in Nat /\ n > 0 /\ Cardinality(set \ {w}) = n - 1
  BY <1>1, OneLess
<1> HIDE DEF n
<1>3. /\ t \in [1..(n - 1) -> set \ {w}]
      /\ \A i, j \in 1..(n - 1) : i # j => t[i] # t[j]
      /\ \A i, j \in 1..(n - 1) : i < j => ~Before(t[j], t[i])
  BY <1>2 DEF SortedSlices
<1>4. s \in [1..n -> set]
  BY <1>1, <1>2, <1>3
<1>5. ASSUME NEW i \in 1..n, NEW j \in 1..n, i < j
      PROVE  s[i] # s[j] /\ ~Before(s[j], s[i])
  <2>1. j - 1 \in 1..(n - 1) /\ s[j] = t[j - 1]
    BY <1>2, <1>5
  <2>2. CASE i = 1
    BY <1>1, <1>2, <1>3, <2>1, <2>2
  <2>3. CASE i # 1
    <3>1. i - 1 \in 1..(n - 1) /\ s[i] = t[i - 1] /\ i - 1 < j - 1
      BY <1>2, <1>5, <2>3
    <3> QED
      BY <1>3, <2>1, <3>1
  <2> QED
    BY <2>2, <2>3
<1>6. s[1] = w /\ \A i \in 1..(n - 1) : s[i + 1] = t[i]
  BY <1>2
<1> HIDE DEF s
<1>7. s \in SortedSlices(set)
  <2>1. DOMAIN s = 1..n
    BY <1>4
  <2>2. \A i, j \in 1..n : i # j => s[i] # s[j]
    BY <1>2, <1>5
  <2>3. \A i, j \in 1..n : i < j => ~Before(s[j], s[i])
    BY <1>5
  <2> QED
    BY <1>4, <2>1, <2>2, <2>3 DEF SortedSlices, n
<1> QED
  BY <1>6, <1>7 DEF n

\* Every finite set of bids can be sorted.
LEMMA SomeSort ==
  ASSUME NEW set, IsFiniteSet(set), \A b \in set : IsBid(b)
  PROVE  SortedSlices(set) # {}
<1> DEFINE Unsorted == {U \in SUBSET set : SortedSlices(U) = {}}
<1>1. SUFFICES ASSUME Unsorted # {} PROVE FALSE
  OBVIOUS
<1>2. Unsorted \subseteq FiniteSubsetsOf(set)
  BY FS_FiniteSubsetsOfFinite
<1>3. PICK U \in Unsorted :
        \A V \in Unsorted : <<V, U>> \notin StrictSubsetOrdering(set)
  BY <1>1, <1>2, FS_StrictSubsetOrderingWellFounded, WFMin
<1>4. IsFiniteSet(U)
  BY FS_Subset
<1>5. CASE U = {}
  <2>1. Cardinality(U) = 0
    BY <1>5, FS_EmptySet
  <2>2. [i \in 1..0 |-> i] \in SortedSlices(U)
    BY <2>1 DEF SortedSlices
  <2> QED
    BY <2>2
<1>6. CASE U # {}
  <2>1. PICK w \in Leaders(U) : TRUE
    BY <1>4, <1>6, SomeLeader
  <2>2. w \in U
    BY DEF Leaders
  <2>3. U \ {w} \notin Unsorted
    BY <1>3, <2>2 DEF StrictSubsetOrdering
  <2>4. PICK t \in SortedSlices(U \ {w}) : TRUE
    BY <2>3
  <2> QED
    BY <1>4, <2>1, <2>4, Prepended
<1> QED
  BY <1>5, <1>6

\* A sorted slice holds every bid of the set, its leader first and then a
\* leader of the rest.
LEMMA SortedHeads ==
  ASSUME NEW set, IsFiniteSet(set), \A b \in set : IsBid(b),
         NEW s \in SortedSlices(set), Cardinality(set) > 0
  PROVE  /\ s[1] \in Leaders(set)
         /\ Cardinality(set) > 1 => s[2] \in Leaders(set \ {s[1]})
<1> DEFINE n == Cardinality(set)
<1>1. n \in Nat /\ n > 0
  BY FS_CardinalityType
<1>2. IsFiniteSet(1..n) /\ Cardinality(1..n) = n
  BY <1>1, FS_Interval
<1>3. /\ s \in [1..n -> set]
      /\ \A i, j \in 1..n : i # j => s[i] # s[j]
      /\ \A i, j \in 1..n : i < j => ~Before(s[j], s[i])
  BY DEF SortedSlices
<1>4. s \in Injection(1..n, set)
  BY <1>3 DEF Injection, IsInjective
<1>5. s \in Surjection(1..n, set)
  BY <1>2, <1>4, FS_Injection
<1> HIDE DEF n
<1>6. \A c \in set : \E j \in 1..n : c = s[j]
  BY <1>5 DEF Surjection
<1>7. ASSUME NEW i \in 1..n, NEW j \in 1..n, i <= j
      PROVE  ~Before(s[j], s[i])
  <2>1. CASE i = j
    BY <1>3, <2>1, BeforeOrders
  <2>2. CASE i < j
    BY <1>3, <2>2
  <2> QED
    BY <1>7, <2>1, <2>2
<1>8. s[1] \in Leaders(set)
  <2>1. s[1] \in set
    BY <1>1, <1>3
  <2>2. \A c \in set : ~Before(c, s[1])
    BY <1>1, <1>6, <1>7
  <2> QED
    BY <2>1, <2>2 DEF Leaders
<1>9. ASSUME n > 1 PROVE s[2] \in Leaders(set \ {s[1]})
  <2>1. s[2] \in set \ {s[1]}
    BY <1>1, <1>3, <1>9
  <2>2. ASSUME NEW c \in set \ {s[1]} PROVE ~Before(c, s[2])
    <3>1. PICK j \in 1..n : c = s[j]
      BY <1>6
    <3> QED
      BY <1>1, <1>7, <1>9, <3>1
  <2> QED
    BY <2>1, <2>2 DEF Leaders
<1> QED
  BY <1>8, <1>9 DEF n

LEMMA SliceLength ==
  ASSUME NEW set, IsFiniteSet(set), NEW s \in SortedSlices(set)
  PROVE  /\ Len(s) = Cardinality(set)
         /\ s = <<>> <=> set = {}
<1>1. Cardinality(set) \in Nat /\ s \in [1..Cardinality(set) -> set]
  BY FS_CardinalityType DEF SortedSlices
<1>2. s \in Seq(set) /\ Len(s) = Cardinality(set)
  BY <1>1
<1>3. Cardinality(set) = 0 <=> set = {}
  BY FS_EmptySet
<1> QED
  BY <1>2, <1>3

-----------------------------------------------------------------------------
(* The invariant of a run, and what it says of the outcomes.               *)

\* What was decided is an outcome for the bids there are, which are final.
Settled == Decided => result \in Outcomes

SettledInv == RunInv /\ IsFiniteSet(bids) /\ Settled

LEMMA SettledInvariant == Spec => []SettledInv
<1>1. Init => SettledInv
  BY FS_EmptySet DEF Init, SettledInv, RunInv, Settled, Decided
<1>2. SettledInv /\ [Next]_vars => SettledInv'
  <2> SUFFICES ASSUME SettledInv, [Next]_vars PROVE SettledInv'
    OBVIOUS
  <2>1. RunInv'
    BY DEF SettledInv, RunInv, Next, Decide, AppendBid, vars
  <2>2. IsFiniteSet(bids)'
    BY FS_AddElement DEF SettledInv, Next, Decide, AppendBid, vars
  <2>3. Settled'
    BY DEF SettledInv, Settled, Decided, Outcomes, Next, Decide, AppendBid, vars
  <2> QED
    BY <2>1, <2>2, <2>3 DEF SettledInv
<1> QED
  BY <1>1, <1>2, PTL DEF Spec

LEMMA ValidFinite ==
  ASSUME SettledInv
  PROVE  /\ IsFiniteSet(ValidBids) /\ floor \in Int
         /\ \A b \in bids : IsBid(b)
         /\ \A b \in ValidBids : b \in bids /\ IsBid(b) /\ b.price >= floor
<1>1. floor \in Int /\ \A b \in bids : IsBid(b)
  BY RunBids DEF SettledInv, RunInv
<1>2. ValidBids \subseteq bids
  BY DEF ValidBids, EnforceFloor
<1> QED
  BY <1>1, <1>2, FS_Subset DEF SettledInv, ValidBids, EnforceFloor

\* Outcomes, part by part.
LEMMA OutcomeParts ==
  ASSUME NEW o
  PROVE  o \in Outcomes <=>
           \E w \in Leaders(ValidBids) :
             \E p \in ClearingPrices(w, ValidBids \ {w}, floor, at) :
               o = Result(w, p)
BY DEF Outcomes, RunAuction, ValidBids

(***************************************************************************)
(* Bids, floor and result hold what they may hold; a result is a bid and a *)
(* price that is a natural number.                                         *)
(***************************************************************************)
THEOREM RunTypeCorrect == Spec => []TypeOK
<1>1. SettledInv /\ at \in AuctionTypes => TypeOK
  <2> SUFFICES ASSUME SettledInv, at \in AuctionTypes PROVE TypeOK
    OBVIOUS
  <2>1. ASSUME result # NoResult
        PROVE  result \in [winner : Bids, price : Nat]
    <3>1. result \in Outcomes
      BY <2>1 DEF SettledInv, Settled, Decided
    <3>2. PICK w, p : result = Result(w, p)
      BY <3>1, OutcomeParts
    <3>3. /\ result.winner \in bids
          /\ result.price \in Int /\ result.price >= floor
      BY <3>1, ValidFinite, NeverBelowFloor DEF Outcomes
    <3>4. floor \in Nat
      BY MaxPriceAssumption DEF SettledInv, RunInv, Prices
    <3>5. w \in Bids /\ p \in Nat
      BY <3>2, <3>3, <3>4 DEF Result, SettledInv, RunInv
    <3> QED
      BY <3>2, <3>5 DEF Result
  <2> QED
    BY <2>1 DEF TypeOK, SettledInv, RunInv
<1>2. Init => at \in AuctionTypes
  BY DEF Init
<1>3. at \in AuctionTypes /\ [Next]_vars => (at \in AuctionTypes)'
  BY DEF Next, Decide, AppendBid, vars
<1> QED
  BY <1>1, <1>2, <1>3, SettledInvariant, PTL DEF Spec

(***************************************************************************)
(* Whatever has arrived, taking a leader and then a leader of the rest is  *)
(* what sorting the slice and reading its first two elements does: every   *)
(* finite set of bids has a sorted slice that starts with any such two,    *)
(* and every sorted slice starts so.                                       *)
(***************************************************************************)
THEOREM SameAsSorting == Spec => []MatchesSortedSlice
<1> DEFINE Read(s) ==
      [winner |-> s[1],
       price  |-> IF PaysOwnBid(at) THEN s[1].price
                  ELSE IF Len(s) > 1 /\ s[2].price + MinIncrement > floor
                  THEN s[2].price + MinIncrement
                  ELSE floor]
<1>1. ASSUME SettledInv, NEW s \in SortedSlices(ValidBids), s # <<>>
      PROVE  Read(s) \in Outcomes
  <2> DEFINE w == s[1]
             rest == ValidBids \ {w}
             n == Cardinality(ValidBids)
  <2>1. Len(s) = n /\ n \in Nat /\ n > 0
    BY <1>1, ValidFinite, SliceLength, FS_EmptySet, FS_CardinalityType
  <2>2. w \in Leaders(ValidBids) /\ (n > 1 => s[2] \in Leaders(rest))
    BY <2>1, <1>1, ValidFinite, SortedHeads
  <2>3. w \in ValidBids
    BY <2>2 DEF Leaders
  <2>4. rest = {} <=> n = 1
    BY <1>1, <2>3, ValidFinite, OneLess
  <2> HIDE DEF w, rest, n
  <2>5. Read(s).price \in ClearingPrices(w, rest, floor, at)
    BY <2>1, <2>2, <2>4 DEF ClearingPrices, OneAbove, w
  <2>6. Read(s) = Result(w, Read(s).price)
    BY DEF Result, w
  <2> QED
    BY <2>2, <2>5, <2>6, OutcomeParts DEF rest
<1>2. ASSUME SettledInv, NEW o \in Outcomes
      PROVE  \E s \in SortedSlices(ValidBids) \ {<<>>} : o = Read(s)
  <2>1. PICK w, p :
          /\ w \in Leaders(ValidBids)
          /\ p \in ClearingPrices(w, ValidBids \ {w}, floor, at)
          /\ o = Result(w, p)
    BY OutcomeParts
  <2> DEFINE rest == ValidBids \ {w}
             n == Cardinality(ValidBids)
  <2>2. w \in ValidBids
    BY <2>1 DEF Leaders
  <2>3. /\ IsFiniteSet(rest) /\ \A b \in rest : IsBid(b)
        /\ n \in Nat /\ n > 0 /\ Cardinality(rest) = n - 1
        /\ rest = {} <=> n = 1
    BY <1>2, <2>2, ValidFinite, OneLess
  <2>4. \A t \in SortedSlices(rest) : \E s \in SortedSlices(ValidBids) :
          s[1] = w /\ (n > 1 => s[2] = t[1])
    <3> SUFFICES ASSUME NEW t \in SortedSlices(rest)
                 PROVE  \E s \in SortedSlices(ValidBids) :
                          s[1] = w /\ (n > 1 => s[2] = t[1])
      OBVIOUS
    <3>1. PICK s \in SortedSlices(ValidBids) :
            s[1] = w /\ \A i \in 1..(n - 1) : s[i + 1] = t[i]
      BY <1>2, <2>1, ValidFinite, Prepended
    <3>2. n > 1 => s[1 + 1] = t[1]
      BY <2>3, <3>1
    <3> QED
      BY <3>1, <3>2
  <2>5. \A s \in SortedSlices(ValidBids) : s # <<>> /\ Len(s) = n
    BY <1>2, <2>2, ValidFinite, SliceLength
  <2>6. SortedSlices(rest) # {}
    BY <2>3, SomeSort
  <2>7. \A s : Read(s) = Result(s[1], Read(s).price)
    BY DEF Result
  <2>8. CASE PaysOwnBid(at)
    <3>1. p = w.price
      BY <2>1, <2>8 DEF ClearingPrices
    <3>2. PICK s \in SortedSlices(ValidBids) : s[1] = w
      BY <2>4, <2>6
    <3>3. Read(s).price = p
      BY <2>8, <3>1, <3>2
    <3> QED
      BY <2>1, <2>5, <2>7, <3>2, <3>3
  <2>9. CASE ~PaysOwnBid(at) /\ rest = {}
    <3>1. p = floor
      BY <2>1, <2>9 DEF ClearingPrices
    <3>2. PICK s \in SortedSlices(ValidBids) : s[1] = w
      BY <2>4, <2>6
    <3>3. ~(Len(s) > 1)
      BY <2>3, <2>5, <2>9, <3>2
    <3>4. Read(s).price = p
      BY <2>9, <3>1, <3>3
    <3> QED
      BY <2>1, <2>5, <2>7, <3>2, <3>4
  <2>10. CASE ~PaysOwnBid(at) /\ rest # {}
    <3>1. PICK r \in Leaders(rest) : p = OneAbove(r, floor)
      BY <2>1, <2>10 DEF ClearingPrices
    <3>2. r \in rest /\ IsFiniteSet(rest \ {r})
          /\ \A b \in rest \ {r} : IsBid(b)
      BY <2>3, FS_RemoveElement DEF Leaders
    <3>3. PICK t \in SortedSlices(rest \ {r}) : TRUE
      BY <3>2, SomeSort
    <3>4. PICK u \in SortedSlices(rest) : u[1] = r
      BY <2>3, <3>1, <3>3, Prepended
    <3>5. PICK s \in SortedSlices(ValidBids) : s[1] = w /\ (n > 1 => s[2] = u[1])
      BY <2>4
    <3>6. n > 1 /\ Len(s) > 1 /\ s[2] = r
      BY <2>3, <2>5, <2>10, <3>4, <3>5
    <3>7. Read(s).price = p
      BY <2>10, <3>1, <3>6 DEF OneAbove
    <3> QED
      BY <2>1, <2>5, <2>7, <3>5, <3>7
  <2> QED
    BY <2>8, <2>9, <2>10
<1>3. SettledInv => MatchesSortedSlice
  <2>1. ReferenceOutcomes = {Read(s) : s \in SortedSlices(ValidBids) \ {<<>>}}
    BY DEF ReferenceOutcomes
  <2> HIDE DEF Read
  <2> QED
    BY <1>1, <1>2, <2>1 DEF MatchesSortedSlice
<1> QED
  BY <1>3, SettledInvariant, PTL

\* What a second-price outcome is made of.
LEMMA SecondPriceOutcome ==
  ASSUME SettledInv, ~PaysOwnBid(at), NEW o \in Outcomes
  PROVE  LET rest == ValidBids \ {o.winner}
         IN  /\ o.winner \in Leaders(ValidBids) /\ o.winner \in ValidBids
             /\ \/ rest = {} /\ o.price = floor
                \/ \E r \in Leaders(rest) : o.price = r.price + MinIncrement
<1> DEFINE rest == ValidBids \ {o.winner}
<1>1. o.winner \in Leaders(ValidBids)
      /\ o.price \in ClearingPrices(o.winner, rest, floor, at)
  BY ResultParts DEF Outcomes, ValidBids
<1>2. floor \in Int /\ \A b \in rest : IsBid(b) /\ b.price >= floor
  BY ValidFinite
<1>3. o.winner \in ValidBids
  BY <1>1 DEF Leaders
<1> HIDE DEF rest
<1>4. \/ rest = {} /\ o.price = floor
      \/ \E r \in Leaders(rest) : o.price = r.price + MinIncrement
  BY <1>1, <1>2, SecondPrice
<1> QED
  BY <1>1, <1>3, <1>4 DEF rest

(***************************************************************************)
(* Whatever has arrived, a winner pays more than it bid only for a runner- *)
(* up less than one increment below it, or of a lower deal priority.       *)
(***************************************************************************)
THEOREM OverchargesAreExplained == Spec => []OverchargeHasACause
<1>1. SettledInv => OverchargeHasACause
  <2> SUFFICES ASSUME SettledInv, NEW o \in Outcomes, o.price > o.winner.price
               PROVE  \E b \in ValidBids \ {o.winner} :
                        /\ o.price = b.price + MinIncrement
                        /\ \/ b.price <= o.winner.price
                           \/ Priority(b.dealType) < Priority(o.winner.dealType)
    BY DEF OverchargeHasACause
  <2> DEFINE w == o.winner
             rest == ValidBids \ {w}
  <2>1. /\ w \in ValidBids /\ w \in Leaders(ValidBids)
        /\ o.price \in ClearingPrices(w, rest, floor, at)
    BY ResultParts DEF Outcomes, ValidBids, Leaders
  <2>2. /\ floor \in Int /\ w.price \in Int /\ w.price >= floor
        /\ \A b \in ValidBids : b.price \in Int
    BY <2>1, ValidFinite DEF IsBid
  <2>3. ~PaysOwnBid(at)
    BY <2>1, <2>2 DEF ClearingPrices
  <2>4. PICK r \in Leaders(rest) : o.price = r.price + MinIncrement
    BY <2>2, <2>3, SecondPriceOutcome
  <2>5. r \in rest /\ ~Before(r, w)
    BY <2>1 DEF Leaders
  <2>6. Priority(r.dealType) \in Int /\ Priority(w.dealType) \in Int
    BY PriorityInteger
  <2>7. r.price <= w.price \/ Priority(r.dealType) < Priority(w.dealType)
    BY <2>2, <2>5, <2>6 DEF Before
  <2> QED
    BY <2>4, <2>5, <2>7
<1> QED
  BY <1>1, SettledInvariant, PTL

(***************************************************************************)
(* No impression is decided below its floor, and one is left unsold only   *)
(* when no bid reaches the floor: finitely many bids have a leader.        *)
(***************************************************************************)
THEOREM FloorIsHonoured == Spec => []FloorHonoured
<1>1. ASSUME SettledInv, Decided PROVE result.price >= floor
  <2>1. result \in Outcomes
    BY <1>1 DEF SettledInv, Settled
  <2> QED
    BY <1>1, <2>1, ValidFinite, NeverBelowFloor DEF Outcomes
<1>2. ASSUME SettledInv, NEW o \in Outcomes
      PROVE  \E b \in bids : ~(b.price < floor)
  <2>1. o.winner \in bids /\ o.winner.price >= floor
    BY ResultParts DEF Outcomes
  <2> QED
    BY <1>2, <2>1, ValidFinite DEF IsBid
<1>3. ASSUME SettledInv, NEW b \in bids, ~(b.price < floor)
      PROVE  Outcomes # {}
  <2>1. b \in ValidBids
    BY <1>3, ValidFinite DEF IsBid, ValidBids, EnforceFloor
  <2>2. PICK w : w \in Leaders(ValidBids)
    BY <1>3, <2>1, ValidFinite, SomeLeader
  <2> DEFINE rest == ValidBids \ {w}
  <2>3. rest # {} => Leaders(rest) # {}
    <3>1. IsFiniteSet(rest) /\ \A c \in rest : IsBid(c)
      BY <1>3, ValidFinite, FS_Subset
    <3> HIDE DEF rest
    <3> QED
      BY <3>1, SomeLeader
  <2>4. ClearingPrices(w, rest, floor, at) # {}
    BY <2>3 DEF ClearingPrices
  <2> QED
    BY <2>2, <2>4, OutcomeParts
<1>4. SettledInv => FloorHonoured
  BY <1>1, <1>2, <1>3 DEF FloorHonoured
<1> QED
  BY <1>4, SettledInvariant, PTL

\* One bid ranks at least as high as another.
LEMMA Ranks ==
  ASSUME NEW a, NEW b, IsBid(a), IsBid(b), ~Before(b, a)
  PROVE  /\ Priority(a.dealType) >= Priority(b.dealType)
         /\ Priority(a.dealType) > Priority(b.dealType) \/ a.price >= b.price
<1>1. Priority(a.dealType) \in Int /\ Priority(b.dealType) \in Int
  BY PriorityInteger
<1> QED
  BY <1>1 DEF Before, IsBid

\* The prices before and after one more valid bid.
LEMMA OneMoreBid ==
  ASSUME NEW valid, \A c \in valid : IsBid(c),
         NEW b, IsBid(b), b \notin valid,
         NEW w1 \in Leaders(valid), NEW r1 \in Leaders(valid \ {w1}),
         NEW w2 \in Leaders(valid \cup {b}),
         NEW r2 \in Leaders((valid \cup {b}) \ {w2}),
         r2.price < r1.price
  PROVE  Priority(b.dealType) > Priority(r1.dealType)
<1>1. /\ w1 \in valid /\ r1 \in valid /\ r1 # w1 /\ ~Before(r1, w1)
      /\ \A c \in valid \ {w1} : ~Before(c, r1)
      /\ w2 \in valid \cup {b} /\ r2 \in valid \cup {b} /\ r2 # w2
      /\ \A c \in valid \cup {b} : ~Before(c, w2)
      /\ \A c \in (valid \cup {b}) \ {w2} : ~Before(c, r2)
  BY DEF Leaders
<1>2. /\ IsBid(w1) /\ IsBid(r1) /\ IsBid(w2) /\ IsBid(r2)
  BY <1>1
<1>3. ~Before(r1, r2)
  <2>1. CASE r1 # w2
    BY <1>1, <2>1
  <2>2. CASE r1 = w2
    <3>1. ~Before(w1, r2) /\ ~Before(r1, w1)
      BY <1>1, <2>2
    <3> QED
      BY <1>2, <3>1, BeforeOrders
  <2> QED
    BY <2>1, <2>2
<1>4. /\ \A d : Priority(d) \in Int
      /\ r1.price \in Int /\ r2.price \in Int
  BY <1>2, PriorityInteger DEF IsBid
<1>5. Priority(r2.dealType) > Priority(r1.dealType)
  BY <1>2, <1>3, <1>4, Ranks
<1>6. ASSUME NEW c \in valid, c # w1
      PROVE  ~(Priority(c.dealType) > Priority(r1.dealType))
  <2>1. ~Before(c, r1)
    BY <1>1, <1>6
  <2> QED
    BY <1>2, <1>4, <2>1, Ranks
<1>7. CASE r2 = b
  BY <1>5, <1>7
<1>8. CASE r2 # b
  <2>1. r2 = w1
    BY <1>1, <1>5, <1>6, <1>8
  <2>2. Priority(w2.dealType) >= Priority(r2.dealType)
    BY <1>1, <1>2, Ranks
  <2>3. Priority(w2.dealType) > Priority(r1.dealType)
    BY <1>4, <1>5, <2>2
  <2>4. w2 = b
    BY <1>1, <1>6, <2>1, <2>3
  <2> QED
    BY <2>3, <2>4
<1> QED
  BY <1>7, <1>8

(***************************************************************************)
(* One more bid makes a second price lower only if its deal priority is    *)
(* higher than that of the runner-up it displaces.                         *)
(***************************************************************************)
THEOREM OnlyRankCheapens == Spec => CheapensOnlyByRank
<1> DEFINE Dearer ==
      ~PaysOwnBid(at) =>
        \A b \in bids' \ bids : \A o1 \in Outcomes : \A o2 \in Outcomes' :
          o2.price < o1.price =>
            \E r \in Leaders(ValidBids \ {o1.winner}) :
              Priority(b.dealType) > Priority(r.dealType)
<1>1. ASSUME SettledInv, SettledInv', [Next]_vars PROVE Dearer
  <2> SUFFICES ASSUME ~PaysOwnBid(at), NEW b \in bids' \ bids,
                      NEW o1 \in Outcomes, NEW o2 \in Outcomes',
                      o2.price < o1.price
               PROVE  \E r \in Leaders(ValidBids \ {o1.winner}) :
                        Priority(b.dealType) > Priority(r.dealType)
    OBVIOUS
  <2>1. bids' = bids \cup {b} /\ UNCHANGED <<floor, at>> /\ b \in Bids
    BY <1>1 DEF Next, Decide, AppendBid, vars
  <2>2. IsBid(b) /\ floor \in Int /\ \A c \in bids' : IsBid(c)
    BY <1>1, <2>1, ValidFinite, RunBids DEF SettledInv
  <2> DEFINE valid == ValidBids
             w1 == o1.winner
             w2 == o2.winner
  <2>3. b \notin valid /\ \A c \in valid : IsBid(c) /\ c.price >= floor
    BY <1>1, ValidFinite DEF ValidBids, EnforceFloor
  <2>4. /\ w1 \in Leaders(valid) /\ w1 \in valid
        /\ \/ valid \ {w1} = {} /\ o1.price = floor
           \/ \E r \in Leaders(valid \ {w1}) : o1.price = r.price + MinIncrement
    BY <1>1, SecondPriceOutcome
  <2>5. o2 \in RunAuction(bids', floor, at)
    BY <2>1 DEF Outcomes
  <2>6. o2.price \in Int /\ o2.price >= floor
    BY <2>2, <2>5, NeverBelowFloor
  <2>7. PICK r1 \in Leaders(valid \ {w1}) : o1.price = r1.price + MinIncrement
    <3>1. o1.price # floor
      BY <2>2, <2>6
    <3> QED
      BY <2>4, <3>1
  <2>8. b.price >= floor
    <3>1. ASSUME ~(b.price >= floor) PROVE FALSE
      <4>1. EnforceFloor(bids', floor) = EnforceFloor(bids, floor)
        BY <2>1, <3>1 DEF EnforceFloor
      <4>2. o2 \in RunAuction(bids, floor, at)
        BY <2>5, <4>1 DEF RunAuction
      <4>3. o1.price = o2.price
        BY <1>1, <2>2, <4>2, ValidFinite, TiesCostNothing DEF Outcomes
      <4> QED
        BY <2>6, <4>3
    <3> QED
      BY <3>1
  <2>9. ValidBids' = valid \cup {b}
    BY <2>1, <2>8 DEF ValidBids, EnforceFloor
  <2>10. w2 \in Leaders(valid \cup {b})
         /\ o2.price \in ClearingPrices(w2, (valid \cup {b}) \ {w2}, floor, at)
    BY <2>1, <2>5, <2>9, ResultParts DEF ValidBids
  <2>11. PICK r2 \in Leaders((valid \cup {b}) \ {w2}) :
           o2.price = r2.price + MinIncrement
    <3> DEFINE rest == (valid \cup {b}) \ {w2}
    <3>1. rest # {}
      BY <2>3, <2>4
    <3>2. \A c \in rest : IsBid(c) /\ c.price >= floor
      BY <2>2, <2>3, <2>8
    <3>3. o2.price \in ClearingPrices(w2, rest, floor, at)
      BY <2>10
    <3> HIDE DEF rest
    <3>4. \E r \in Leaders(rest) : o2.price = r.price + MinIncrement
      BY <2>2, <3>1, <3>2, <3>3, SecondPrice
    <3> QED
      BY <3>4 DEF rest
  <2>12. r1.price \in Int /\ r2.price \in Int
    BY <2>2, <2>3 DEF Leaders, IsBid
  <2>13. r2.price < r1.price
    BY <2>7, <2>11, <2>12, MinIncrementAssumption
  <2> HIDE DEF valid, w1, w2
  <2>14. Priority(b.dealType) > Priority(r1.dealType)
    BY <2>2, <2>3, <2>4, <2>10, <2>13, OneMoreBid
  <2> QED
    BY <2>14 DEF valid, w1
<1>2. SettledInv /\ SettledInv' /\ [Next]_vars => [Dearer]_vars
  BY <1>1
<1> QED
  BY <1>2, SettledInvariant, PTL DEF Spec, CheapensOnlyByRank
=============================================================================
