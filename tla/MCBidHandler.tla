---------------------------- MODULE MCBidHandler ----------------------------
(***************************************************************************)
(* BidHandler on two requests.  Prices are cents.                          *)
(*                                                                         *)
(* The bodies cover every early return, both auction types, two            *)
(* impressions with ids of their own or with a common one, and two floors. *)
(* The DSPs' bids and the campaigns cover: no bid, none at the floor, one  *)
(* exactly there, a cheap direct campaign before a dear open bid, a tie,   *)
(* bids for either impression and for none, a winner with and without a    *)
(* NURL. The campaigns are read as they are, or cut short: one without its *)
(* segment rule, one without any rule, others not at all; one campaign has *)
(* no creative. The users of two impressions have a segment, which the     *)
(* lookup may miss.                                                        *)
(***************************************************************************)
EXTENDS BidHandler, TLC

MCImp(id, floor) == [id |-> id, floor |-> floor]
MCImp1 == MCImp("i1", 2)

MCDevice == [ip |-> {"10."}, ua |-> {"mobile"}]

MCBody(wellFormed, consent, valid, at, imps, segments) ==
  [wellFormed |-> wellFormed, consent |-> consent, valid |-> valid,
   imps |-> imps, at |-> at, device |-> MCDevice, segments |-> segments]

MCRejected ==
  {MCBody(FALSE, TRUE, FALSE, 0, <<>>, {}), MCBody(TRUE, TRUE, FALSE, 0, <<>>, {}),
   MCBody(TRUE, FALSE, TRUE, 0, <<MCImp1>>, {"s1"}),
   MCBody(TRUE, FALSE, FALSE, 0, <<>>, {"s1"})}

MCNarrow == {MCBody(TRUE, TRUE, TRUE, 2, <<MCImp1>>, {})}
MCWide ==
  {MCBody(TRUE, TRUE, TRUE, at, <<MCImp1, second>>, {"s1"}) :
     at \in {1, 2}, second \in {MCImp("i2", 4), MCImp("i1", 4)}}

MCBidRequests == MCRejected \cup MCNarrow \cup MCWide

MCCampaign(id, price, rules) ==
  [id |-> id, bidPriceCPM |-> price, rules |-> rules]

MCRule(type, value) == [type |-> type, value |-> value, parses |-> TRUE]
MCSegmentRule == MCRule("segment", {"s1"})
MCGeoRule     == MCRule("geo", "10.")
MCWrongRule   == MCRule("segment", {"s2"})

MCDirect  == MCCampaign("c1", 3, {MCSegmentRule, MCGeoRule})
MCOther   == MCCampaign("c2", 9, {MCWrongRule})
MCBare    == MCCampaign("c3", 9, {MCRule("device", "mobile")})
MCDesktop == MCCampaign("c4", 9, {MCRule("device", "desktop")})
MCCampaigns == {MCDirect, MCOther, MCBare, MCDesktop}

\* A campaign as a query hands it over: with some of its rules, and with or
\* without its creative.
MCRead(campaign, rules, hasCreative) ==
  [id |-> campaign.id, bidPriceCPM |-> campaign.bidPriceCPM,
   rules |-> rules, hasCreative |-> hasCreative]

MCActiveReads ==
  {{MCRead(MCDirect, MCDirect.rules, TRUE), MCRead(MCOther, MCOther.rules, TRUE),
    MCRead(MCBare, MCBare.rules, FALSE), MCRead(MCDesktop, MCDesktop.rules, TRUE)},
   {MCRead(MCDirect, {MCGeoRule}, TRUE), MCRead(MCOther, {}, TRUE)}}

MCBid(id, dsp, imp, price, nurl) ==
  [id |-> id, seat |-> dsp, imp |-> imp, dealType |-> "Open",
   price |-> price, nurl |-> nurl]

MCDSPs == {"dspA", "dspB"}
MCFanoutResults ==
  {{},
   {MCBid("d1", "dspA", "i1", 2, TRUE), MCBid("d2", "dspB", "i1", 1, TRUE)},
   {MCBid("d1", "dspA", "i1", 5, TRUE), MCBid("d2", "dspB", "i1", 5, FALSE),
    MCBid("d3", "dspB", "i2", 4, TRUE), MCBid("d4", "dspA", "i9", 9, TRUE)}}

\* The bound of the run: a request of two impressions has the process to
\* itself.  Two requests of one impression race for the queues.
WideAlone ==
  \A r, q \in Requests :
    body[r] # None /\ Len(body[r].imps) > 1 /\ q # r => pc[q] = "idle"

RequestSymmetry == Permutations(Requests)
=============================================================================
