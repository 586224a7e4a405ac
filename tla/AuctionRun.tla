----------------------------- MODULE AuctionRun -----------------------------
(***************************************************************************)
(* One impression of one request: the fan-out collector appends the DSPs'  *)
(* bids in the order their answers arrive, HandleBid appends the internal  *)
(* bids, and RunAuction is called once on the slice.  The properties are   *)
(* about every outcome the call can have on the bids collected so far.     *)
(***************************************************************************)
EXTENDS Auction, Sequences

CONSTANTS BidIds,        \* places in the slice
          OfferedTypes,  \* deal types the bids carry
          MaxPrice,      \* bound on prices and floors
          AuctionTypes   \* values of req.at

ASSUME MaxPriceAssumption == MaxPrice \in Nat

Prices == 0..MaxPrice
Bids == [id : BidIds, dealType : OfferedTypes, price : Prices]

NoResult == [winner |-> "nil"]

VARIABLES bids,    \* bidsForImp
          floor,   \* imp.BidFloor
          at,      \* req.AuctionType
          result   \* NoResult until RunAuction has picked a winner

vars == <<bids, floor, at, result>>

Init == /\ bids = {}
        /\ floor \in Prices
        /\ at \in AuctionTypes
        /\ result = NoResult

AppendBid(b) ==
  /\ result = NoResult
  /\ b.id \notin {c.id : c \in bids}
  /\ bids' = bids \cup {b}
  /\ UNCHANGED <<floor, at, result>>

Decide ==
  /\ result = NoResult
  /\ result' \in RunAuction(bids, floor, at)
  /\ UNCHANGED <<bids, floor, at>>

Next == Decide \/ \E b \in Bids : AppendBid(b)

Spec == Init /\ [][Next]_vars

-----------------------------------------------------------------------------
Decided == result # NoResult
Outcomes == RunAuction(bids, floor, at)
ValidBids == EnforceFloor(bids, floor)

TypeOK ==
  /\ bids \subseteq Bids
  /\ floor \in Prices
  /\ at \in AuctionTypes
  /\ result = NoResult \/ result \in [winner : Bids, price : Nat]

\* The slices sort.Slice may leave: every ordering of the valid bids in which
\* no bid stands after one it precedes.
SortedSlices(set) ==
  {s \in [1..Cardinality(set) -> set] :
     /\ \A i, j \in DOMAIN s : i # j => s[i] # s[j]
     /\ \A i, j \in DOMAIN s : i < j => ~Before(s[j], s[i])}

\* Element by element reading of the sorted slice (validBids[0], validBids[1]).
ReferenceOutcomes ==
  {[winner |-> s[1],
    price  |-> IF PaysOwnBid(at) THEN s[1].price
               ELSE IF Len(s) > 1 /\ s[2].price + MinIncrement > floor
               THEN s[2].price + MinIncrement
               ELSE floor] : s \in SortedSlices(ValidBids) \ {<<>>}}

(***************************************************************************)
(* Taking a leader and then a leader of the rest is what sorting the whole *)
(* slice and reading its first two elements does.                          *)
(***************************************************************************)
MatchesSortedSlice == Outcomes = ReferenceOutcomes

(***************************************************************************)
(* sort.Slice is not stable and answers arrive in any order, so equal bids *)
(* may win by luck; what the winner pays never depends on it.              *)
(***************************************************************************)
PriceIndependentOfTies == \A o1, o2 \in Outcomes : o1.price = o2.price

(***************************************************************************)
(* Under second-price rules a winner cannot change what it pays by bidding *)
(* differently: any other bid of its own that still wins clears at the     *)
(* same price.                                                             *)
(***************************************************************************)
PriceIndependentOfOwnBid ==
  ~PaysOwnBid(at) =>
    \A o \in Outcomes : \A b \in {c \in Bids : c.id = o.winner.id} :
      \A o2 \in RunAuction((bids \ {o.winner}) \cup {b}, floor, at) :
        o2.winner = b => o2.price = o.price

(***************************************************************************)
(* A winner is charged more than it bid in two cases only: by at most      *)
(* MinIncrement, when the runner-up bid as much or almost as much as it;   *)
(* or when the runner-up, of a lower deal priority, outbid it              *)
(* (engine_test.go codifies the latter with a PG bid of 2.00 that pays     *)
(* 5.01).                                                                  *)
(***************************************************************************)
OverchargeHasACause ==
  \A o \in Outcomes : o.price > o.winner.price =>
    \E b \in ValidBids \ {o.winner} :
      /\ o.price = b.price + MinIncrement
      /\ \/ b.price <= o.winner.price
         \/ Priority(b.dealType) < Priority(o.winner.dealType)

(***************************************************************************)
(* The publisher's floor: no impression is sold below it, and one that has *)
(* a bid at or above it is always sold.                                    *)
(***************************************************************************)
FloorHonoured ==
  /\ Decided => result.price >= floor
  /\ (Outcomes = {}) <=> (\A b \in bids : b.price < floor)

(***************************************************************************)
(* One more bid lowers a second price only by outranking the runner-up: a  *)
(* bid of the runner-up's own deal priority, or of a lower one, never      *)
(* costs the publisher money.                                              *)
(***************************************************************************)
CheapensOnlyByRank ==
  [][~PaysOwnBid(at) =>
       \A b \in bids' \ bids : \A o1 \in Outcomes : \A o2 \in Outcomes' :
         o2.price < o1.price =>
           \E r \in Leaders(ValidBids \ {o1.winner}) :
             Priority(b.dealType) > Priority(r.dealType)]_vars
=============================================================================
