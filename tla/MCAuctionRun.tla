---------------------------- MODULE MCAuctionRun ----------------------------
\* AuctionRun on three bids.  Permuting the places of the slice is sound: no
\* definition tells one id from another.
EXTENDS AuctionRun, TLC

IdSymmetry == Permutations(BidIds)
=============================================================================
