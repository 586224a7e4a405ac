--------------------------- MODULE AuctionTheorems ----------------------------
(***************************************************************************)
(* What RunAuction guarantees for every set of bids, every floor and every *)
(* increment.                                                              *)
(***************************************************************************)
EXTENDS Auction, TLAPS

IsBid(b) == b.price \in Int

LEMMA PriorityInteger == \A dealType : Priority(dealType) \in 0..3
  BY DEF Priority

(***************************************************************************)
(* Every bid that sort.Slice may put first is of one priority and price.   *)
(***************************************************************************)
LEMMA LeadersTie ==
  ASSUME NEW set, \A b \in set : IsBid(b),
         NEW a \in Leaders(set), NEW b \in Leaders(set)
  PROVE  /\ Priority(a.dealType) = Priority(b.dealType)
         /\ a.price = b.price
<1>1. a \in set /\ b \in set /\ ~Before(a, b) /\ ~Before(b, a)
  BY DEF Leaders
<1>2. a.price \in Int /\ b.price \in Int
  BY <1>1 DEF IsBid
<1>3. Priority(a.dealType) \in Int /\ Priority(b.dealType) \in Int
  BY PriorityInteger
<1> QED
  BY <1>1, <1>2, <1>3 DEF Before

(***************************************************************************)
(* Under second-price rules the price is one increment above some other    *)
(* valid bid that leads the rest, or the floor when there is no other.     *)
(***************************************************************************)
LEMMA SecondPrice ==
  ASSUME NEW winner, NEW rest, NEW limit \in Int, NEW type, ~PaysOwnBid(type),
         \A b \in rest : IsBid(b) /\ b.price >= limit,
         NEW p \in ClearingPrices(winner, rest, limit, type)
  PROVE  \/ rest = {} /\ p = limit
         \/ \E r \in Leaders(rest) : p = r.price + MinIncrement
<1>1. CASE rest = {}
  BY <1>1 DEF ClearingPrices
<1>2. CASE rest # {}
  <2>1. PICK r \in Leaders(rest) : p = OneAbove(r, limit)
    BY <1>2 DEF ClearingPrices
  <2>2. r.price \in Int /\ r.price >= limit
    BY <2>1 DEF Leaders, IsBid
  <2>3. OneAbove(r, limit) = r.price + MinIncrement
    BY <2>2, MinIncrementAssumption DEF OneAbove
  <2> QED
    BY <2>1, <2>3
<1> QED
  BY <1>1, <1>2

\* A result names a valid leader and one of its clearing prices.
LEMMA ResultParts ==
  ASSUME NEW set, NEW limit, NEW type, NEW o \in RunAuction(set, limit, type)
  PROVE  /\ o.winner \in Leaders(EnforceFloor(set, limit))
         /\ o.winner \in set
         /\ o.winner.price >= limit
         /\ o.price \in ClearingPrices(o.winner,
                          EnforceFloor(set, limit) \ {o.winner}, limit, type)
<1> DEFINE valid == EnforceFloor(set, limit)
<1>1. PICK w \in Leaders(valid) :
        o \in {Result(w, p) : p \in ClearingPrices(w, valid \ {w}, limit, type)}
  BY DEF RunAuction
<1>2. PICK p \in ClearingPrices(w, valid \ {w}, limit, type) : o = Result(w, p)
  BY <1>1
<1>3. o.winner = w /\ o.price = p
  BY <1>2 DEF Result
<1>4. w \in set /\ w.price >= limit
  BY DEF Leaders, EnforceFloor
<1> QED
  BY <1>1, <1>2, <1>3, <1>4

(***************************************************************************)
(* No impression is sold below its floor, and the winner bid at least the  *)
(* floor: for every set of bids and both auction types.                    *)
(***************************************************************************)
THEOREM NeverBelowFloor ==
  ASSUME NEW set, \A b \in set : IsBid(b), NEW limit \in Int, NEW type,
         NEW o \in RunAuction(set, limit, type)
  PROVE  /\ o.winner \in set
         /\ o.winner.price >= limit
         /\ o.price \in Int
         /\ o.price >= limit
<1> DEFINE rest == EnforceFloor(set, limit) \ {o.winner}
<1>1. /\ o.winner \in set /\ o.winner.price >= limit
      /\ o.price \in ClearingPrices(o.winner, rest, limit, type)
  BY ResultParts
<1>2. \A b \in rest : IsBid(b) /\ b.price >= limit
  BY DEF EnforceFloor
<1>3. CASE PaysOwnBid(type)
  <2>1. o.price = o.winner.price
    BY <1>1, <1>3 DEF ClearingPrices
  <2> QED
    BY <1>1, <2>1 DEF IsBid
<1>4. CASE ~PaysOwnBid(type)
  <2>1. CASE o.price = limit
    BY <1>1, <2>1
  <2>2. CASE \E r \in Leaders(rest) : o.price = r.price + MinIncrement
    <3>1. PICK r \in Leaders(rest) : o.price = r.price + MinIncrement
      BY <2>2
    <3>2. r.price \in Int /\ r.price >= limit
      BY <1>2 DEF Leaders, IsBid
    <3> QED
      BY <1>1, <3>1, <3>2, MinIncrementAssumption
  <2> HIDE DEF rest
  <2>3. (rest = {} /\ o.price = limit)
        \/ \E r \in Leaders(rest) : o.price = r.price + MinIncrement
    BY <1>1, <1>2, <1>4, SecondPrice
  <2> QED
    BY <2>1, <2>2, <2>3
<1> QED
  BY <1>3, <1>4

\* A bid that leads a set leads every subset it belongs to.
LEMMA LeaderOfSubset ==
  ASSUME NEW set, NEW part \in SUBSET set,
         NEW b \in Leaders(set), b \in part
  PROVE  b \in Leaders(part)
  BY DEF Leaders

(***************************************************************************)
(* Equal bids: whichever of them the unstable sort puts first, the price   *)
(* is the same.                                                            *)
(***************************************************************************)
THEOREM TiesCostNothing ==
  ASSUME NEW set, \A b \in set : IsBid(b), NEW limit \in Int, NEW type,
         NEW o1 \in RunAuction(set, limit, type),
         NEW o2 \in RunAuction(set, limit, type)
  PROVE  o1.price = o2.price
<1> DEFINE valid == EnforceFloor(set, limit)
           rest1 == valid \ {o1.winner}
           rest2 == valid \ {o2.winner}
<1>1. /\ o1.winner \in Leaders(valid)
      /\ o1.price \in ClearingPrices(o1.winner, rest1, limit, type)
  BY ResultParts
<1>2. /\ o2.winner \in Leaders(valid)
      /\ o2.price \in ClearingPrices(o2.winner, rest2, limit, type)
  BY ResultParts
<1>3. \A b \in valid : IsBid(b) /\ b.price >= limit
  BY DEF EnforceFloor
<1>4. rest1 \subseteq valid /\ rest2 \subseteq valid
  OBVIOUS
<1>5. Leaders(valid) \subseteq valid
  BY DEF Leaders
<1>6. o1.winner.price = o2.winner.price
  <2> HIDE DEF valid
  <2> QED BY <1>1, <1>2, <1>3, LeadersTie
<1>7. CASE PaysOwnBid(type)
  BY <1>1, <1>2, <1>6, <1>7 DEF ClearingPrices
<1>8. CASE ~PaysOwnBid(type)
  <2>1. (rest1 = {} /\ o1.price = limit)
        \/ \E r \in Leaders(rest1) : o1.price = r.price + MinIncrement
    <3> HIDE DEF rest1
    <3> QED BY <1>1, <1>3, <1>4, <1>8, SecondPrice
  <2>2. (rest2 = {} /\ o2.price = limit)
        \/ \E r \in Leaders(rest2) : o2.price = r.price + MinIncrement
    <3> HIDE DEF rest2
    <3> QED BY <1>2, <1>3, <1>4, <1>8, SecondPrice
  <2>3. CASE o1.winner = o2.winner
    <3>1. \A r1, r2 \in Leaders(rest1) : r1.price = r2.price
      <4> HIDE DEF rest1
      <4> QED BY <1>3, <1>4, LeadersTie
    <3>2. rest1 = rest2
      BY <2>3
    <3>3. Leaders({}) = {}
      BY DEF Leaders
    <3> HIDE DEF rest1, rest2
    <3> QED BY <2>1, <2>2, <3>1, <3>2, <3>3
  <2>4. CASE o1.winner # o2.winner
    <3>1. o2.winner \in Leaders(rest1) /\ o1.winner \in Leaders(rest2)
      <4>1. o2.winner \in rest1 /\ o1.winner \in rest2
        BY <1>1, <1>2, <1>5, <2>4
      <4> HIDE DEF valid, rest1, rest2
      <4> QED BY <1>1, <1>2, <1>4, <4>1, LeaderOfSubset
    <3>2. \A r \in Leaders(rest1) : r.price = o2.winner.price
      <4> HIDE DEF rest1
      <4> QED BY <1>3, <1>4, <3>1, LeadersTie
    <3>3. \A r \in Leaders(rest2) : r.price = o1.winner.price
      <4> HIDE DEF rest2
      <4> QED BY <1>3, <1>4, <3>1, LeadersTie
    <3>4. rest1 # {} /\ rest2 # {}
      BY <1>1, <1>2, <1>5, <2>4
    <3> HIDE DEF rest1, rest2
    <3> QED BY <1>6, <2>1, <2>2, <3>2, <3>3, <3>4
  <2> QED
    BY <2>3, <2>4
<1> QED
  BY <1>7, <1>8

(***************************************************************************)
(* Two second-price auctions that differ in the winner's own bid only      *)
(* clear at the same price.                                                *)
(***************************************************************************)
THEOREM OwnBidIrrelevant ==
  ASSUME NEW others, \A b \in others : IsBid(b), NEW limit \in Int,
         NEW type, ~PaysOwnBid(type),
         NEW w1, w1 \notin others, NEW w2, w2 \notin others,
         NEW o1 \in RunAuction(others \cup {w1}, limit, type), o1.winner = w1,
         NEW o2 \in RunAuction(others \cup {w2}, limit, type), o2.winner = w2
  PROVE  o1.price = o2.price
<1> DEFINE rest == EnforceFloor(others, limit)
<1>1. o1.price \in ClearingPrices(w1,
        EnforceFloor(others \cup {w1}, limit) \ {w1}, limit, type)
  BY ResultParts
<1>2. o2.price \in ClearingPrices(w2,
        EnforceFloor(others \cup {w2}, limit) \ {w2}, limit, type)
  BY ResultParts
<1>3. /\ EnforceFloor(others \cup {w1}, limit) \ {w1} = rest
      /\ EnforceFloor(others \cup {w2}, limit) \ {w2} = rest
  BY DEF EnforceFloor
<1>4. \A b \in rest : IsBid(b) /\ b.price >= limit
  BY DEF EnforceFloor
<1> HIDE DEF rest
<1>5. /\ o1.price \in ClearingPrices(w1, rest, limit, type)
      /\ o2.price \in ClearingPrices(w2, rest, limit, type)
  BY <1>1, <1>2, <1>3
<1>6. (rest = {} /\ o1.price = limit)
      \/ \E r \in Leaders(rest) : o1.price = r.price + MinIncrement
  BY <1>5, <1>4, SecondPrice
<1>7. (rest = {} /\ o2.price = limit)
      \/ \E r \in Leaders(rest) : o2.price = r.price + MinIncrement
  BY <1>5, <1>4, SecondPrice
<1>8. \A r1, r2 \in Leaders(rest) : r1.price = r2.price
  BY <1>4, LeadersTie
<1>9. Leaders({}) = {}
  BY DEF Leaders
<1> QED
  BY <1>6, <1>7, <1>8, <1>9
=============================================================================
