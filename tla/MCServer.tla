------------------------------ MODULE MCServer ------------------------------
(* One bid request, one click that may be sent twice, and one caller of the  *)
(* campaign API, in a process that is stopped at any moment.  The request    *)
(* has one impression or two; the DSP bids for none, for both, or for the    *)
(* second only.                                                              *)
EXTENDS Server

MCImp(id) == [id |-> id, floor |-> 2]

MCBody(header, userID, imps) ==
  [wellFormed |-> TRUE, consent |-> TRUE, valid |-> TRUE, imps |-> imps,
   at |-> 2, device |-> [ip |-> {}, ua |-> {}], segments |-> {},
   header |-> header, cookie |-> NoUser, userID |-> userID, anon |-> "anon"]

MCBodies == {MCBody(NoUser, "u1", <<MCImp("i1"), MCImp("i2")>>),
             MCBody(NoUser, "u1", <<MCImp("i1")>>)}
MCBodiesWithHeader == {MCBody("u1", "u1", <<MCImp("i1")>>)}

MCDSPs == {"dspA"}
MCBid(imp, nurl) ==
  [id |-> "d1", seat |-> "dspA", imp |-> imp, dealType |-> "Open",
   price |-> 5, nurl |-> nurl]
MCFanoutResults ==
  {{}, {MCBid("i1", TRUE), MCBid("i2", TRUE)}, {MCBid("i2", FALSE)}}

\* The bound of the run: a click is sent, and repeated after a 500, only beside
\* a bid request of one impression.  It cuts off nothing but arrivals, of which
\* no fairness is asked.
ClickBesideNarrow ==
  \A k \in Clicks, r \in Requests :
    click[k].tries > 0 /\ body[r] # None => Len(body[r].imps) = 1
=============================================================================
