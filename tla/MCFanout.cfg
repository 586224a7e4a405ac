SPECIFICATION FairSpec
CONSTANTS
  DSPs = {d1, d2, d3}
  b1 = b1
  b2 = b2
  Offers <- MCOffers
\* FetchBids has returned and its goroutines are done.
CHECK_DEADLOCK FALSE
INVARIANTS
  TypeOK
  CollectsEverything
  NeverPanics
PROPERTIES
  ImplementsDemand
  FetchBidsReturns
