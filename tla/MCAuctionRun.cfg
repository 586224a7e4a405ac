SPECIFICATION Spec
CONSTANTS
  BidIds = {b1, b2, b3}
  OfferedTypes = {"PG", "PMP", "Open", "Unknown"}
  MaxPrice = 4
  MinIncrement = 2
  EnableFirstPrice = TRUE
  AuctionTypes = {0, 1}
SYMMETRY IdSymmetry
\* The decision is final: nothing follows it.
CHECK_DEADLOCK FALSE
INVARIANTS
  TypeOK
  MatchesSortedSlice
  PriceIndependentOfTies
  PriceIndependentOfOwnBid
  OverchargeHasACause
  FloorHonoured
PROPERTY CheapensOnlyByRank
