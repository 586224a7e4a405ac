------------------------------- MODULE Auction -------------------------------
(***************************************************************************)
(* internal/auction: the decision taken for one impression.  Bids carry a  *)
(* unique "id", which stands for their place in the Go slice, so that a    *)
(* set of bids is the slice up to the order of its elements; the order is  *)
(* of no consequence to RunAuction except among equal bids, where the      *)
(* unstable sort.Slice may leave any of them first.                        *)
(*                                                                         *)
(* Prices are whole numbers of a unit of which MinIncrement makes a cent   *)
(* CPM, so that bids may differ by less than the increment.  The binary    *)
(* rounding of "+ 0.01" on float64 is abstracted.                          *)
(***************************************************************************)
EXTENDS Integers, FiniteSets

CONSTANTS MinIncrement,       \* minIncrement, 0.01 in the code
          EnableFirstPrice    \* the ENABLE_FIRST_PRICE environment flag

ASSUME MinIncrementAssumption == MinIncrement \in Nat \ {0}
ASSUME FirstPriceAssumption == EnableFirstPrice \in BOOLEAN

AuctionTypeFirstPrice == 1

DealTypes == {"PG", "PMP", "Open", "Unknown"}

Priority(dealType) ==
  CASE dealType = "PG"   -> 3
    [] dealType = "PMP"  -> 2
    [] dealType = "Open" -> 1
    [] OTHER             -> 0

\* Mutants of EnforceFloor: strict comparison; one increment of tolerance.
EnforceFloorStrictly(bids, floor) == {b \in bids : b.price > floor}
EnforceFloorLoosely(bids, floor) ==
  {b \in bids : b.price + MinIncrement >= floor}

\* The bids that survive the floor.
EnforceFloor(bids, floor) == {b \in bids : b.price >= floor}

\* Mutants of Before: price forgotten; cheapest first.
BeforeByPriority(a, b) == Priority(a.dealType) > Priority(b.dealType)
BeforeCheapest(a, b) ==
  \/ Priority(a.dealType) > Priority(b.dealType)
  \/ /\ Priority(a.dealType) = Priority(b.dealType)
     /\ a.price < b.price

\* The less function given to sort.Slice.
Before(a, b) ==
  \/ Priority(a.dealType) > Priority(b.dealType)
  \/ /\ Priority(a.dealType) = Priority(b.dealType)
     /\ a.price > b.price

\* The bids that may come first once bids is sorted.
Leaders(bids) == {b \in bids : \A c \in bids : ~Before(c, b)}

PaysOwnBid(auctionType) ==
  EnableFirstPrice /\ auctionType = AuctionTypeFirstPrice

\* Mutants of OneAbove: no increment; increment taken off.
OneAboveTied(runnerUp, floor) ==
  IF runnerUp.price > floor THEN runnerUp.price ELSE floor
OneBelow(runnerUp, floor) == runnerUp.price - MinIncrement

\* The price under second-price rules when runnerUp is sorted second.
OneAbove(runnerUp, floor) ==
  IF runnerUp.price + MinIncrement > floor
  THEN runnerUp.price + MinIncrement
  ELSE floor

\* Mutant of ClearingPrices: the price is read off the head of the slice.
ClearingPricesFromHead(winner, rest, floor, auctionType) ==
  IF PaysOwnBid(auctionType) THEN {winner.price}
  ELSE IF rest = {} THEN {floor}
  ELSE {OneAbove(head, floor) : head \in Leaders(rest \cup {winner})}

\* What winner may be charged when the other valid bids are rest.
ClearingPrices(winner, rest, floor, auctionType) ==
  IF PaysOwnBid(auctionType) THEN {winner.price}
  ELSE IF rest = {} THEN {floor}
  ELSE {OneAbove(runnerUp, floor) : runnerUp \in Leaders(rest)}

Result(winner, price) == [winner |-> winner, price |-> price]

\* Every AuctionResult with a winner that RunAuction can return.  When no bid
\* is valid there is none: the code returns Winner == nil.
RunAuction(bids, floor, auctionType) ==
  LET valid == EnforceFloor(bids, floor)
  IN  UNION {{Result(w, p) :
                p \in ClearingPrices(w, valid \ {w}, floor, auctionType)} :
             w \in Leaders(valid)}
==============================================================================
