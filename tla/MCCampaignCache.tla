--------------------------- MODULE MCCampaignCache ---------------------------
\* CampaignCache with one stored campaign and room for a second.
EXTENDS CampaignCache, TLC

ListerSymmetry == Permutations(Listers)
=============================================================================
