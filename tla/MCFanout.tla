------------------------------ MODULE MCFanout ------------------------------
\* Fanout with small batches; a bid is a model value, and a batch a set.
EXTENDS Fanout, TLC

CONSTANTS b1, b2

MCOffers == {{b1}, {b1, b2}}

DSPSymmetry == Permutations(DSPs)
=============================================================================
