-------------------------- MODULE BidHandlerProofs --------------------------
(***************************************************************************)
(* Proofs about BidHandler for any number of requests, impressions and     *)
(* workers, any queue capacities and any demand.                           *)
(***************************************************************************)
EXTENDS BidHandler, AuctionTheorems, SequenceTheorems

\* Where a handler is says what its variables are good for: behind the checks
\* the body is valid; an award exists only for an impression the loop has
\* reached, and exists while its event and notice are being handed over.
Flow ==
  \A r \in Requests :
    /\ pc[r] \in {"pipeline", "auction", "publish", "notify"} =>
         body[r] \in BidRequests /\ body[r].valid
    /\ pc[r] \in {"publish", "notify"} =>
         pos[r] <= MaxImps /\ awards[<<r, pos[r]>>] \in Awards
    /\ pc[r] = "notify" => awards[<<r, pos[r]>>].notify

HandlerInv == HandlerTypeOK /\ Flow

\* The processing of valid bodies stays within MaxImps.
LEMMA ImpsWithinBound ==
  ASSUME NEW r \in Requests, body[r] \in BidRequests, body[r].valid
  PROVE  /\ ImpsToProcess(r) \in 1..MaxImps
         /\ body[r].imps \in Seq(Imps)
         /\ ImpsToProcess(r) <= Len(body[r].imps)
<1>1. body[r].imps \in Seq(Imps) /\ Len(body[r].imps) \in 1..MaxImps
  BY BidRequestsAssumption
<1> QED
  BY <1>1, SizesAssumption DEF ImpsToProcess

\* What the store hands over is a campaign, perhaps without some of its rules.
LEMMA ReadOfCampaign ==
  ASSUME NEW read \in CampaignReads
  PROVE  /\ \E c \in Campaigns : read.id = c.id /\ read.rules \subseteq c.rules
         /\ read.id \in STRING /\ read.bidPriceCPM \in Int
<1>1. PICK active \in ActiveReads : read \in active
  BY DEF CampaignReads
<1>2. PICK c \in Campaigns : /\ read.id = c.id /\ read.rules \subseteq c.rules
                            /\ read.bidPriceCPM = c.bidPriceCPM
  BY <1>1, ActiveReadsAssumption
<1> QED
  BY <1>2, CampaignsAssumption

\* Auction prices are integers: the bids' prices are.
LEMMA PriceIsInteger ==
  ASSUME NEW r \in Requests, HandlerTypeOK, NEW imp \in Imps, NEW at,
         NEW res \in RunAuction(BidsForImp(r, imp), imp.floor, at)
  PROVE  res.price \in Int /\ res.price >= imp.floor
<1>1. \A b \in BidsForImp(r, imp) : b.price \in Int
  <2> SUFFICES ASSUME NEW b \in BidsForImp(r, imp) PROVE b.price \in Int
    OBVIOUS
  <2>1. CASE b \in dspBids[r]
    <3>1. b \in DSPBids
      BY <2>1 DEF HandlerTypeOK
    <3> QED
      BY <3>1 DEF DSPBids
  <2>2. CASE b \in InternalBids(matchedCampaigns[r])
    <3>1. PICK c \in CampaignReads :
            b = [id |-> c.id, seat |-> Internal, imp |-> "", dealType |-> "PG",
                 price |-> c.bidPriceCPM, nurl |-> FALSE]
      BY <2>2 DEF InternalBids, HandlerTypeOK
    <3>2. b.price = c.bidPriceCPM
      BY <3>1 DEF Internal
    <3> QED
      BY <3>2, ReadOfCampaign
  <2> QED
    BY <2>1, <2>2 DEF BidsForImp
<1>2. imp.floor \in Int
  BY DEF Imps
<1> QED
  BY <1>1, <1>2, NeverBelowFloor DEF IsBid

\* An award made from an auction result is well typed.
LEMMA AwardTyped ==
  ASSUME NEW r \in Requests, HandlerTypeOK,
         NEW imp \in Imps, NEW at,
         NEW res \in RunAuction(BidsForImp(r, imp), imp.floor, at),
         res.price \in Int
  PROVE  Award(res.winner, res.price) \in Awards
<1> DEFINE w == res.winner
<1>1. w \in BidsForImp(r, imp)
  <2>1. PICK b \in Leaders(EnforceFloor(BidsForImp(r, imp), imp.floor)) :
          \E p : res = Result(b, p)
    BY DEF RunAuction
  <2> QED
    BY <2>1 DEF Leaders, EnforceFloor, Result
<1>2. CASE w \in dspBids[r]
  <2>1. w \in DSPBids
    BY <1>2 DEF HandlerTypeOK
  <2> QED
    BY <2>1 DEF DSPBids, Award, Awards
<1>3. CASE w \in InternalBids(matchedCampaigns[r])
  <2>1. PICK c \in CampaignReads :
          w = [id |-> c.id, seat |-> Internal, imp |-> "", dealType |-> "PG",
               price |-> c.bidPriceCPM, nurl |-> FALSE]
    BY <1>3 DEF InternalBids, HandlerTypeOK
  <2> HIDE DEF w
  <2>2. w.id = c.id /\ w.seat = Internal
    BY <2>1 DEF Internal
  <2>3. c.id \in STRING
    BY ReadOfCampaign
  <2>4. (w.seat # Internal /\ w.nurl) \in BOOLEAN
    BY <2>2
  <2>5. Award(w, res.price) \in Awards
    BY <2>2, <2>3, <2>4 DEF Award, Awards
  <2> QED
    BY <2>5 DEF w
<1> QED
  BY <1>1, <1>2, <1>3 DEF BidsForImp

-----------------------------------------------------------------------------
(* HandlerInv is inductive. *)

LEMMA InitHandler == Init => HandlerInv
<1> SUFFICES ASSUME Init PROVE HandlerInv
  OBVIOUS
<1>1. HandlerTypeOK
  BY SizesAssumption DEF Init, HandlerTypeOK, PCs, Responses
<1>2. Flow
  BY DEF Init, Flow
<1> QED
  BY <1>1, <1>2 DEF HandlerInv

LEMMA AnswerKeepsHandler ==
  ASSUME HandlerInv, NEW r \in Requests, NEW status \in Responses,
         NEW q \in BidRequests \cup {None},
         body' = [body EXCEPT ![r] = q],
         Answer(r, status)
  PROVE  HandlerInv'
<1>1. HandlerTypeOK'
  BY DEF Answer, HandlerInv, HandlerTypeOK, PCs, pipelineVars
<1>2. Flow'
  BY DEF Answer, HandlerInv, HandlerTypeOK, Flow
<1> QED
  BY <1>1, <1>2 DEF HandlerInv

LEMMA ReceiveKeepsHandler ==
  ASSUME HandlerInv, NEW r \in Requests, Receive(r)
  PROVE  HandlerInv'
<1>1. CASE RejectMalformed(r)
  <2>1. PICK q \in BidRequests : body' = [body EXCEPT ![r] = q]
    BY <1>1 DEF RejectMalformed
  <2> QED
    BY <1>1, <2>1, AnswerKeepsHandler DEF RejectMalformed, Responses
<1>2. CASE RejectNoConsent(r)
  <2>1. PICK q \in BidRequests : body' = [body EXCEPT ![r] = q]
    BY <1>2 DEF RejectNoConsent
  <2> QED
    BY <1>2, <2>1, AnswerKeepsHandler DEF RejectNoConsent, Responses
<1>3. CASE RejectInvalid(r)
  <2>1. PICK q \in BidRequests : body' = [body EXCEPT ![r] = q]
    BY <1>3 DEF RejectInvalid
  <2> QED
    BY <1>3, <2>1, AnswerKeepsHandler DEF RejectInvalid, Responses
<1>4. CASE StartPipeline(r)
  <2>1. PICK q \in BidRequests : q.valid /\ body' = [body EXCEPT ![r] = q]
    BY <1>4 DEF StartPipeline
  <2>2. HandlerTypeOK'
    BY <1>4, <2>1 DEF StartPipeline, HandlerInv, HandlerTypeOK, PCs,
                      pipelineVars
  <2>3. Flow'
    BY <1>4, <2>1 DEF StartPipeline, HandlerInv, HandlerTypeOK, Flow
  <2> QED
    BY <2>2, <2>3 DEF HandlerInv
<1> QED
  BY <1>1, <1>2, <1>3, <1>4 DEF Receive

LEMMA PipelineKeepsHandler ==
  ASSUME HandlerInv, NEW r \in Requests,
         \/ FetchUserSegments(r) \/ EvaluateCampaigns(r) \/ FetchBids(r)
         \/ JoinPipeline(r)
  PROVE  HandlerInv'
<1> USE DEF HandlerInv
<1>1. CASE FetchUserSegments(r)
  BY <1>1 DEF FetchUserSegments, Fetch, HandlerTypeOK, Flow
<1>2. CASE EvaluateCampaigns(r)
  <2>1. PICK active \in ActiveReads \cup {{}} :
          matchedCampaigns' = [matchedCampaigns EXCEPT ![r] =
            EvaluateTargeting(active, body[r].device, userSegments[r])]
    BY <1>2 DEF EvaluateCampaigns
  <2>2. EvaluateTargeting(active, body[r].device, userSegments[r])
          \in SUBSET CampaignReads
    BY DEF EvaluateTargeting, CampaignReads
  <2> QED
    BY <1>2, <2>1, <2>2 DEF EvaluateCampaigns, Fetch, HandlerTypeOK, Flow
<1>3. CASE FetchBids(r)
  BY <1>3, FanoutAssumption DEF FetchBids, Fetch, HandlerTypeOK, Flow
<1>4. CASE JoinPipeline(r)
  BY <1>4 DEF JoinPipeline, HandlerTypeOK, Flow, PCs, pipelineVars
<1> QED
  BY <1>1, <1>2, <1>3, <1>4

\* The auction of an impression ends in an award for its slot or in none.
LEMMA AuctionOutcome ==
  ASSUME HandlerInv, NEW r \in Requests, AuctionImp(r)
  PROVE  /\ <<r, pos[r]>> \in Slots
         /\ \/ \E award \in Awards :
                 /\ awards' = [awards EXCEPT ![<<r, pos[r]>>] = award]
                 /\ pc' = [pc EXCEPT ![r] = "publish"]
                 /\ UNCHANGED pos
            \/ /\ pos' = [pos EXCEPT ![r] = @ + 1]
               /\ UNCHANGED <<pc, awards>>
<1> DEFINE imp  == body[r].imps[pos[r]]
           slot == <<r, pos[r]>>
<1>1. pc[r] = "auction" /\ pos[r] <= ImpsToProcess(r)
  BY DEF AuctionImp
<1>2. body[r] \in BidRequests /\ body[r].valid
  BY <1>1 DEF HandlerInv, Flow
<1>3. pos[r] \in 1..MaxImps /\ imp \in Imps
  <2>1. pos[r] \in 1..MaxImps + 1
    BY DEF HandlerInv, HandlerTypeOK
  <2> QED
    BY <1>1, <1>2, <2>1, ImpsWithinBound, SizesAssumption
<1>4. slot \in Slots
  BY <1>3 DEF Slots
<1>5. \A res \in RunAuction(BidsForImp(r, imp), imp.floor, body[r].at) :
        Award(res.winner, res.price) \in Awards
  BY <1>3, PriceIsInteger, AwardTyped DEF HandlerInv
<1>6. HouseAward \in Awards
  BY HouseAdAssumption DEF HouseAward, Awards
<1> QED
  BY <1>4, <1>5, <1>6 DEF AuctionImp

LEMMA AuctionKeepsHandler ==
  ASSUME HandlerInv, NEW r \in Requests, AuctionImp(r)
  PROVE  HandlerInv'
<1> DEFINE slot == <<r, pos[r]>>
<1>1. /\ pc[r] = "auction" /\ slot \in Slots
      /\ UNCHANGED <<body, pipelineVars, response>>
  BY AuctionOutcome DEF AuctionImp
<1>2. body[r] \in BidRequests /\ body[r].valid
  BY <1>1 DEF HandlerInv, Flow
<1>3. pos[r] \in 1..MaxImps
  BY <1>1 DEF Slots
<1>4. ASSUME NEW award \in Awards,
             awards' = [awards EXCEPT ![slot] = award],
             pc' = [pc EXCEPT ![r] = "publish"], UNCHANGED pos
      PROVE  HandlerInv'
  <2>1. HandlerTypeOK'
    BY <1>1, <1>4 DEF HandlerInv, HandlerTypeOK, PCs, pipelineVars
  <2>2. ASSUME NEW q \in Requests, q # r
        PROVE  awards'[<<q, pos[q]>>] = awards[<<q, pos[q]>>]
    BY <1>4, <2>2 DEF HandlerInv, HandlerTypeOK
  <2>3. awards'[slot] = award
    BY <1>1, <1>4 DEF HandlerInv, HandlerTypeOK
  <2>4. Flow'
    BY <1>1, <1>2, <1>3, <1>4, <2>2, <2>3, SizesAssumption
       DEF HandlerInv, HandlerTypeOK, Flow
  <2> QED
    BY <2>1, <2>4 DEF HandlerInv
<1>5. CASE /\ pos' = [pos EXCEPT ![r] = @ + 1]
           /\ UNCHANGED <<pc, awards>>
  <2>1. HandlerTypeOK'
    BY <1>1, <1>3, <1>5, SizesAssumption
       DEF HandlerInv, HandlerTypeOK, pipelineVars
  <2>2. Flow'
    BY <1>1, <1>2, <1>5 DEF HandlerInv, HandlerTypeOK, Flow
  <2> QED
    BY <2>1, <2>2 DEF HandlerInv
<1> QED
  BY <1>4, <1>5, AuctionOutcome

\* The loop leaves an impression: everything but pc and pos stays.
LEMMA NextImpKeepsHandler ==
  ASSUME HandlerInv, NEW r \in Requests, pc[r] \in {"publish", "notify"},
         NextImp(r), UNCHANGED <<body, pipelineVars, awards, response>>
  PROVE  HandlerInv'
<1>1. pos[r] \in 1..MaxImps
  <2>1. pos[r] \in 1..MaxImps + 1
    BY DEF HandlerInv, HandlerTypeOK
  <2>2. pos[r] <= MaxImps
    BY DEF HandlerInv, Flow
  <2> QED
    BY <2>1, <2>2, SizesAssumption
<1>2. HandlerTypeOK'
  BY <1>1, SizesAssumption
     DEF NextImp, HandlerInv, HandlerTypeOK, PCs, pipelineVars
<1>3. body[r] \in BidRequests /\ body[r].valid
  BY DEF HandlerInv, Flow
<1>4. Flow'
  BY <1>3 DEF NextImp, HandlerInv, HandlerTypeOK, Flow
<1> QED
  BY <1>2, <1>4 DEF HandlerInv

LEMMA LoopKeepsHandler ==
  ASSUME HandlerInv, NEW r \in Requests,
         PublishImpressionEvent(r) \/ FireNURL(r) \/ Respond(r)
  PROVE  HandlerInv'
<1>1. CASE PublishImpressionEvent(r)
  <2>1. /\ pc[r] = "publish"
        /\ UNCHANGED <<body, pipelineVars, awards, response>>
    BY <1>1 DEF PublishImpressionEvent
  <2>2. CASE awards[<<r, pos[r]>>].notify
    <3>1. pc' = [pc EXCEPT ![r] = "notify"] /\ UNCHANGED pos
      BY <1>1, <2>2 DEF PublishImpressionEvent
    <3>2. HandlerTypeOK'
      BY <2>1, <3>1 DEF HandlerInv, HandlerTypeOK, PCs, pipelineVars
    <3>3. Flow'
      BY <2>1, <2>2, <3>1 DEF HandlerInv, HandlerTypeOK, Flow
    <3> QED
      BY <3>2, <3>3 DEF HandlerInv
  <2>3. CASE ~awards[<<r, pos[r]>>].notify
    <3>1. NextImp(r)
      BY <1>1, <2>3 DEF PublishImpressionEvent
    <3> QED
      BY <2>1, <3>1, NextImpKeepsHandler
  <2> QED
    BY <2>2, <2>3
<1>2. CASE FireNURL(r)
  BY <1>2, NextImpKeepsHandler DEF FireNURL
<1>3. CASE Respond(r)
  <2>1. body' = [body EXCEPT ![r] = body[r]] /\ body[r] \in BidRequests \cup {None}
    BY <1>3 DEF Respond, HandlerInv, HandlerTypeOK
  <2> QED
    BY <1>3, <2>1, AnswerKeepsHandler DEF Respond, Responses
<1> QED
  BY <1>1, <1>2, <1>3

-----------------------------------------------------------------------------
(* The queues and the workers. *)

LEMMA InitQueues == Init => EventTypeOK /\ NoticeTypeOK
<1> SUFFICES ASSUME Init PROVE EventTypeOK /\ NoticeTypeOK
  OBVIOUS
<1>1. EventTypeOK
  BY SizesAssumption DEF Init, EventTypeOK
<1>2. NoticeTypeOK
  BY SizesAssumption DEF Init, NoticeTypeOK
<1> QED
  BY <1>1, <1>2

\* The slot of an impression being reported exists.
LEMMA SlotInLoop ==
  ASSUME HandlerInv, NEW r \in Requests, pc[r] \in {"publish", "notify"}
  PROVE  <<r, pos[r]>> \in Slots
<1>1. pos[r] \in 1..MaxImps + 1
  BY DEF HandlerInv, HandlerTypeOK
<1>2. pos[r] <= MaxImps
  BY DEF HandlerInv, Flow
<1>3. pos[r] \in 1..MaxImps
  BY <1>1, <1>2, SizesAssumption
<1> QED
  BY <1>3 DEF Slots

LEMMA RequestKeepsQueues ==
  ASSUME HandlerInv, EventTypeOK, NoticeTypeOK, NEW r \in Requests,
         Receive(r) \/ RequestStep(r)
  PROVE  EventTypeOK' /\ NoticeTypeOK'
<1>1. CASE PublishImpressionEvent(r)
  <2>1. <<r, pos[r]>> \in Slots
    BY <1>1, SlotInLoop DEF PublishImpressionEvent
  <2>2. UNCHANGED <<eventWorker, attempt, kafka, acked, noticeVars>>
    BY <1>1 DEF PublishImpressionEvent
  <2>3. NoticeTypeOK'
    BY <2>2 DEF NoticeTypeOK, noticeVars
  <2>4. CASE /\ Len(eventQueue) < EventQueueCap
             /\ eventQueue' = Append(eventQueue, <<r, pos[r]>>)
             /\ UNCHANGED abandoned
    <3>1. /\ eventQueue' \in Seq(Slots)
          /\ Len(eventQueue') = Len(eventQueue) + 1
      BY <2>1, <2>4, AppendProperties DEF EventTypeOK
    <3>2. Len(eventQueue) \in Nat
      BY LenProperties DEF EventTypeOK
    <3>3. Len(eventQueue') <= EventQueueCap
      BY <2>4, <3>1, <3>2, SizesAssumption
    <3> QED
      BY <2>2, <2>3, <2>4, <3>1, <3>3 DEF EventTypeOK
  <2>5. CASE /\ abandoned' = abandoned \cup {<<r, pos[r]>>}
             /\ UNCHANGED eventQueue
    BY <2>1, <2>2, <2>3, <2>5 DEF EventTypeOK
  <2> QED
    BY <1>1, <2>4, <2>5 DEF PublishImpressionEvent
<1>2. CASE FireNURL(r)
  <2>1. <<r, pos[r]>> \in Slots
    BY <1>2, SlotInLoop DEF FireNURL
  <2>2. UNCHANGED <<eventVars, nurlWorker, fires>>
    BY <1>2 DEF FireNURL
  <2>3. EventTypeOK'
    BY <2>2 DEF EventTypeOK, eventVars
  <2>4. CASE /\ Len(nurlQueue) < NurlQueueCap
             /\ nurlQueue' = Append(nurlQueue, <<r, pos[r]>>)
             /\ UNCHANGED missed
    <3>1. /\ nurlQueue' \in Seq(Slots)
          /\ Len(nurlQueue') = Len(nurlQueue) + 1
      BY <2>1, <2>4, AppendProperties DEF NoticeTypeOK
    <3>2. Len(nurlQueue) \in Nat
      BY LenProperties DEF NoticeTypeOK
    <3>3. Len(nurlQueue') <= NurlQueueCap
      BY <2>4, <3>1, <3>2, SizesAssumption
    <3> QED
      BY <2>2, <2>3, <2>4, <3>1, <3>3 DEF NoticeTypeOK
  <2>5. CASE /\ missed' = missed \cup {<<r, pos[r]>>}
             /\ UNCHANGED nurlQueue
    BY <2>1, <2>2, <2>3, <2>5 DEF NoticeTypeOK
  <2> QED
    BY <1>2, <2>4, <2>5 DEF FireNURL
<1>3. CASE UNCHANGED <<eventVars, noticeVars>>
  BY <1>3 DEF EventTypeOK, NoticeTypeOK, eventVars, noticeVars
<1>4. \/ PublishImpressionEvent(r) \/ FireNURL(r)
      \/ UNCHANGED <<eventVars, noticeVars>>
  <2>1. CASE Receive(r)
    BY <2>1 DEF Receive, RejectMalformed, RejectNoConsent, RejectInvalid,
                StartPipeline, Answer
  <2>2. CASE FetchUserSegments(r) \/ EvaluateCampaigns(r) \/ FetchBids(r)
    BY <2>2 DEF FetchUserSegments, EvaluateCampaigns, FetchBids, Fetch
  <2>3. CASE JoinPipeline(r) \/ AuctionImp(r) \/ Respond(r)
    BY <2>3 DEF JoinPipeline, AuctionImp, Respond, Answer
  <2> QED
    BY <2>1, <2>2, <2>3 DEF RequestStep
<1> QED
  BY <1>1, <1>2, <1>3, <1>4

LEMMA EventWorkerKeepsType ==
  ASSUME EventTypeOK, NEW w \in EventWorkers, EventWorkerStep(w)
  PROVE  EventTypeOK'
<1> DEFINE slot == eventWorker[w]
<1>1. slot # None => slot \in Slots
  BY DEF EventTypeOK
<1>2. CASE TakeEvent(w)
  <2>1. eventQueue \in Seq(Slots) /\ eventQueue # <<>>
    BY <1>2 DEF TakeEvent, EventTypeOK
  <2>2. /\ Head(eventQueue) \in Slots
        /\ Tail(eventQueue) \in Seq(Slots)
        /\ Len(Tail(eventQueue)) = Len(eventQueue) - 1
    BY <2>1, HeadTailProperties
  <2>3. Len(eventQueue) \in Nat
    BY <2>1, LenProperties
  <2>4. Len(eventQueue') <= EventQueueCap
    BY <1>2, <2>2, <2>3, SizesAssumption DEF TakeEvent, EventTypeOK
  <2> QED
    BY <1>2, <2>2, <2>4, SizesAssumption DEF TakeEvent, EventTypeOK
<1>3. CASE WriteMessage(w)
  BY <1>1, <1>3 DEF WriteMessage, EventTypeOK
<1>4. CASE WriteFails(w)
  <2>1. PICK applied \in {0, 1} : kafka' = [kafka EXCEPT ![slot] = @ + applied]
    BY <1>4 DEF WriteFails
  <2>2. kafka' \in [Slots -> Nat]
    <3>1. applied \in Nat
      OBVIOUS
    <3>2. \A s \in Slots : kafka[s] \in Nat /\ kafka[s] + applied \in Nat
      BY <3>1 DEF EventTypeOK
    <3> QED
      BY <2>1, <3>2 DEF EventTypeOK
  <2>3. attempt' \in [EventWorkers -> 0..MaxRetries]
    BY <1>4, SizesAssumption DEF WriteFails, RetryLimit, EventTypeOK
  <2> QED
    BY <1>4, <2>2, <2>3 DEF WriteFails, EventTypeOK
<1>5. CASE GiveUp(w)
  BY <1>1, <1>5 DEF GiveUp, EventTypeOK
<1> QED
  BY <1>2, <1>3, <1>4, <1>5 DEF EventWorkerStep

LEMMA NurlWorkerKeepsType ==
  ASSUME NoticeTypeOK, NEW w \in NurlWorkers, NurlWorkerStep(w)
  PROVE  NoticeTypeOK'
<1>1. nurlWorker[w] # None => nurlWorker[w] \in Slots
  BY DEF NoticeTypeOK
<1>2. CASE TakeNotice(w)
  <2>1. nurlQueue \in Seq(Slots) /\ nurlQueue # <<>>
    BY <1>2 DEF TakeNotice, NoticeTypeOK
  <2>2. /\ Head(nurlQueue) \in Slots
        /\ Tail(nurlQueue) \in Seq(Slots)
        /\ Len(Tail(nurlQueue)) = Len(nurlQueue) - 1
    BY <2>1, HeadTailProperties
  <2>3. Len(nurlQueue) \in Nat
    BY <2>1, LenProperties
  <2>4. Len(nurlQueue') <= NurlQueueCap
    BY <1>2, <2>2, <2>3, SizesAssumption DEF TakeNotice, NoticeTypeOK
  <2> QED
    BY <1>2, <2>2, <2>4 DEF TakeNotice, NoticeTypeOK
<1>3. CASE FireNotice(w)
  BY <1>1, <1>3 DEF FireNotice, NoticeTypeOK
<1>4. CASE SkipNotice(w)
  BY <1>1, <1>4 DEF SkipNotice, NoticeTypeOK
<1> QED
  BY <1>2, <1>3, <1>4 DEF NurlWorkerStep

-----------------------------------------------------------------------------
TypeInv == TypeOK /\ Flow

LEMMA InitTypeInv == Init => TypeInv
BY InitHandler, InitQueues DEF TypeInv, TypeOK, HandlerInv

LEMMA NextTypeInv == TypeInv /\ [Next]_vars => TypeInv'
<1> SUFFICES ASSUME TypeInv, [Next]_vars PROVE TypeInv'
  OBVIOUS
<1> USE DEF TypeInv, TypeOK, HandlerInv
<1>1. ASSUME NEW r \in Requests, Receive(r) \/ RequestStep(r)
      PROVE  TypeInv'
  <2>1. HandlerInv'
    BY <1>1, ReceiveKeepsHandler, PipelineKeepsHandler, AuctionKeepsHandler,
       LoopKeepsHandler DEF RequestStep
  <2> QED
    BY <1>1, <2>1, RequestKeepsQueues
<1>2. ASSUME UNCHANGED handlerVars PROVE HandlerInv'
  BY <1>2 DEF handlerVars, pipelineVars, HandlerTypeOK, Flow
<1>3. ASSUME NEW w \in EventWorkers, EventWorkerStep(w) PROVE TypeInv'
  <2>1. UNCHANGED handlerVars /\ UNCHANGED noticeVars
    BY <1>3 DEF EventWorkerStep, TakeEvent, WriteMessage, WriteFails, GiveUp
  <2>2. NoticeTypeOK'
    BY <2>1 DEF noticeVars, NoticeTypeOK
  <2> QED
    BY <1>2, <1>3, <2>1, <2>2, EventWorkerKeepsType
<1>4. ASSUME NEW w \in NurlWorkers, NurlWorkerStep(w) PROVE TypeInv'
  <2>1. UNCHANGED handlerVars /\ UNCHANGED eventVars
    BY <1>4 DEF NurlWorkerStep, TakeNotice, FireNotice, SkipNotice
  <2>2. EventTypeOK'
    BY <2>1 DEF eventVars, EventTypeOK
  <2> QED
    BY <1>2, <1>4, <2>1, <2>2, NurlWorkerKeepsType
<1>5. CASE UNCHANGED vars
  <2>1. EventTypeOK' /\ NoticeTypeOK'
    BY <1>5 DEF vars, eventVars, noticeVars, EventTypeOK, NoticeTypeOK
  <2> QED
    BY <1>2, <1>5, <2>1 DEF vars
<1> QED
  BY <1>1, <1>3, <1>4, <1>5 DEF Next

(***************************************************************************)
(* However requests and workers interleave, the queues stay within their   *)
(* capacities, no worker counts beyond maxRetries, and the loop never      *)
(* indexes an impression the body does not have.                           *)
(***************************************************************************)
THEOREM TypeCorrect == Spec => []TypeOK
<1>1. TypeInv => TypeOK
  BY DEF TypeInv
<1> QED
  BY InitTypeInv, NextTypeInv, <1>1, PTL DEF Spec

-----------------------------------------------------------------------------
(* What was used and sold, and on which body. *)

Accepted(r) == body[r].wellFormed /\ body[r].consent /\ body[r].valid

\* The body of a request is never replaced once something of it was used: it
\* arrives in "idle", where nothing is fetched and nothing awarded.
SaleInv ==
  \A r \in Requests :
    /\ pc[r] \in {"pipeline", "auction", "publish", "notify"} => Accepted(r)
    /\ fetched[r] # {} => pc[r] # "idle" /\ Accepted(r)
    /\ \A i \in 1..MaxImps : awards[<<r, i>>] # None =>
         /\ pc[r] \notin {"idle", "pipeline"} /\ Accepted(r)
         /\ awards[<<r, i>>].seat # HouseAd =>
              awards[<<r, i>>].price >= body[r].imps[i].floor

LEMMA InitSale == Init => SaleInv
BY DEF Init, SaleInv, Slots

\* Steps that award nothing and leave the bodies alone.
LEMMA AwardlessKeepsSale ==
  ASSUME SaleInv, TypeInv, NEW r \in Requests, UNCHANGED <<body, awards>>,
         \/ UNCHANGED <<pc, fetched>>
         \/ /\ pc[r] \in {"pipeline", "auction", "publish", "notify"}
            /\ \E p \in {"auction", "notify", "done"} :
                 pc' = [pc EXCEPT ![r] = p]
            /\ UNCHANGED fetched
         \/ /\ pc[r] = "pipeline" /\ UNCHANGED pc
            /\ \E what : fetched' = [fetched EXCEPT ![r] = @ \cup {what}]
  PROVE  SaleInv'
<1>1. CASE UNCHANGED <<pc, fetched>>
  BY <1>1 DEF SaleInv, Accepted
<1>2. CASE /\ pc[r] \in {"pipeline", "auction", "publish", "notify"}
           /\ \E p \in {"auction", "notify", "done"} :
                pc' = [pc EXCEPT ![r] = p]
           /\ UNCHANGED fetched
  BY <1>2 DEF SaleInv, Accepted, TypeInv, TypeOK, HandlerTypeOK
<1>3. CASE /\ pc[r] = "pipeline" /\ UNCHANGED pc
           /\ \E what : fetched' = [fetched EXCEPT ![r] = @ \cup {what}]
  BY <1>3 DEF SaleInv, Accepted, TypeInv, TypeOK, HandlerTypeOK
<1> QED
  BY <1>1, <1>2, <1>3

LEMMA ReceiveKeepsSale ==
  ASSUME SaleInv, TypeInv, NEW r \in Requests, Receive(r)
  PROVE  SaleInv'
<1>1. pc[r] = "idle" /\ UNCHANGED <<fetched, awards>>
  BY DEF Receive, RejectMalformed, RejectNoConsent, RejectInvalid,
         StartPipeline, Answer, pipelineVars
<1>2. PICK q \in BidRequests, p \in {"pipeline", "done"} :
        /\ body' = [body EXCEPT ![r] = q] /\ pc' = [pc EXCEPT ![r] = p]
        /\ p = "pipeline" => q.wellFormed /\ q.consent /\ q.valid
  BY DEF Receive, RejectMalformed, RejectNoConsent, RejectInvalid,
         StartPipeline, Answer
<1>3. fetched[r] = {} /\ \A i \in 1..MaxImps : awards[<<r, i>>] = None
  BY <1>1 DEF SaleInv
<1> QED
  BY <1>1, <1>2, <1>3
     DEF SaleInv, Accepted, TypeInv, TypeOK, HandlerTypeOK

LEMMA AuctionKeepsSale ==
  ASSUME SaleInv, TypeInv, NEW r \in Requests, AuctionImp(r)
  PROVE  SaleInv'
<1> DEFINE imp  == body[r].imps[pos[r]]
           slot == <<r, pos[r]>>
<1>1. /\ pc[r] = "auction" /\ pos[r] <= ImpsToProcess(r)
      /\ UNCHANGED <<body, fetched>>
  BY DEF AuctionImp, pipelineVars
<1>2. body[r] \in BidRequests /\ body[r].valid
  BY <1>1 DEF TypeInv, Flow
<1>3. pos[r] \in 1..MaxImps /\ imp \in Imps
  <2>1. pos[r] \in 1..MaxImps + 1
    BY DEF TypeInv, TypeOK, HandlerTypeOK
  <2> QED
    BY <1>1, <1>2, <2>1, ImpsWithinBound, SizesAssumption
<1>4. slot \in Slots
  BY <1>3 DEF Slots
<1>5. ASSUME NEW award, awards' = [awards EXCEPT ![slot] = award],
             award.seat # HouseAd => award.price >= imp.floor,
             pc' = [pc EXCEPT ![r] = "publish"]
      PROVE  SaleInv'
  <2>1. Accepted(r)
    BY <1>1 DEF SaleInv
  <2>2. \A s \in Slots : awards'[s] = IF s = slot THEN award ELSE awards[s]
    BY <1>4, <1>5 DEF TypeInv, TypeOK, HandlerTypeOK
  <2>3. \A q \in Requests : pc'[q] = IF q = r THEN "publish" ELSE pc[q]
    BY <1>5 DEF TypeInv, TypeOK, HandlerTypeOK
  <2>4. ASSUME NEW q \in Requests, NEW i \in 1..MaxImps,
               awards'[<<q, i>>] # None
        PROVE  /\ pc'[q] \notin {"idle", "pipeline"} /\ Accepted(q)
               /\ awards'[<<q, i>>].seat # HouseAd =>
                    awards'[<<q, i>>].price >= body[q].imps[i].floor
    <3>1. <<q, i>> \in Slots
      BY DEF Slots
    <3>2. CASE <<q, i>> = slot
      BY <1>5, <2>1, <2>2, <2>3, <3>1, <3>2
    <3>3. CASE <<q, i>> # slot
      BY <2>1, <2>2, <2>3, <2>4, <3>1, <3>3 DEF SaleInv
    <3> QED
      BY <3>2, <3>3
  <2> QED
    BY <1>1, <2>1, <2>3, <2>4 DEF SaleInv, Accepted
<1>6. CASE \E res \in RunAuction(BidsForImp(r, imp), imp.floor, body[r].at) :
             /\ awards' = [awards EXCEPT ![slot] = Award(res.winner, res.price)]
             /\ pc' = [pc EXCEPT ![r] = "publish"]
  <2>1. PICK res \in RunAuction(BidsForImp(r, imp), imp.floor, body[r].at) :
             /\ awards' = [awards EXCEPT ![slot] = Award(res.winner, res.price)]
             /\ pc' = [pc EXCEPT ![r] = "publish"]
    BY <1>6
  <2>2. res.price >= imp.floor
    BY <1>3, PriceIsInteger DEF TypeInv, TypeOK
  <2>3. Award(res.winner, res.price).price = res.price
    BY DEF Award
  <2> QED
    BY <1>5, <2>1, <2>2, <2>3
<1>7. CASE /\ awards' = [awards EXCEPT ![slot] = HouseAward]
           /\ pc' = [pc EXCEPT ![r] = "publish"]
  BY <1>5, <1>7 DEF HouseAward
<1>8. CASE UNCHANGED <<pc, awards>>
  BY <1>1, <1>8, AwardlessKeepsSale
<1> QED
  BY <1>6, <1>7, <1>8 DEF AuctionImp

LEMMA NextSale == SaleInv /\ TypeInv /\ [Next]_vars => SaleInv'
<1> SUFFICES ASSUME SaleInv, TypeInv, [Next]_vars PROVE SaleInv'
  OBVIOUS
<1>1. ASSUME NEW r \in Requests, RequestStep(r) PROVE SaleInv'
  <2>1. CASE FetchUserSegments(r) \/ EvaluateCampaigns(r) \/ FetchBids(r)
    BY <2>1, AwardlessKeepsSale
       DEF FetchUserSegments, EvaluateCampaigns, FetchBids, Fetch
  <2>2. CASE JoinPipeline(r)
    BY <2>2, AwardlessKeepsSale DEF JoinPipeline, pipelineVars
  <2>3. CASE AuctionImp(r)
    BY <2>3, AuctionKeepsSale
  <2>4. CASE PublishImpressionEvent(r)
    BY <2>4, AwardlessKeepsSale
       DEF PublishImpressionEvent, NextImp, pipelineVars
  <2>5. CASE FireNURL(r)
    BY <2>5, AwardlessKeepsSale DEF FireNURL, NextImp, pipelineVars
  <2>6. CASE Respond(r)
    BY <2>6, AwardlessKeepsSale DEF Respond, Answer, pipelineVars
  <2> QED
    BY <1>1, <2>1, <2>2, <2>3, <2>4, <2>5, <2>6 DEF RequestStep
<1>2. CASE UNCHANGED handlerVars
  BY <1>2 DEF handlerVars, pipelineVars, SaleInv, Accepted
<1>3. CASE \E w \in EventWorkers : EventWorkerStep(w)
  BY <1>2, <1>3 DEF EventWorkerStep, TakeEvent, WriteMessage, WriteFails, GiveUp
<1>4. CASE \E w \in NurlWorkers : NurlWorkerStep(w)
  BY <1>2, <1>4 DEF NurlWorkerStep, TakeNotice, FireNotice, SkipNotice
<1>5. CASE UNCHANGED vars
  BY <1>2, <1>5 DEF vars
<1> QED
  BY <1>1, <1>3, <1>4, <1>5, ReceiveKeepsSale DEF Next

LEMMA SaleInvariant == Spec => []SaleInv
BY InitTypeInv, NextTypeInv, InitSale, NextSale, PTL DEF Spec

(***************************************************************************)
(* With any demand, any floors and any number of impressions per request,  *)
(* an auctioned impression is sold at or above its own floor.              *)
(***************************************************************************)
THEOREM NeverSoldBelowFloor == Spec => []SoldAtOrAboveFloor
<1>1. SaleInv => SoldAtOrAboveFloor
  BY DEF SaleInv, SoldAtOrAboveFloor
<1> QED
  BY <1>1, SaleInvariant, PTL

-----------------------------------------------------------------------------
(* What has been handed to the queues. *)

Reported == {s \in Slots : Published(s)}
Noticed  == {s \in Slots : Notified(s)}

\* The loop has awarded nothing beyond the impression it is at, and that one
\* only once it is handing over its event and notice.
Fresh ==
  \A s \in Slots : awards[s] # None =>
    \/ s[2] < pos[s[1]]
    \/ s[2] = pos[s[1]] /\ pc[s[1]] \in {"publish", "notify"}

LEMMA SlotParts ==
  ASSUME NEW s \in Slots
  PROVE  s[1] \in Requests /\ s[2] \in 1..MaxImps /\ s = <<s[1], s[2]>>
BY DEF Slots

\* A handler that is outside publish and notify before and after the step.
LEMMA MoveKeepsReports ==
  ASSUME TypeInv, Fresh, NEW r \in Requests, NEW p,
         pc' = [pc EXCEPT ![r] = p], UNCHANGED <<pos, awards>>,
         {pc[r], p} \cap {"publish", "notify"} = {}
  PROVE  Fresh' /\ Reported' = Reported /\ Noticed' = Noticed
<1>1. \A q \in Requests : q # r => pc'[q] = pc[q]
  BY DEF TypeInv, TypeOK, HandlerTypeOK
<1>2. pc'[r] = p
  BY DEF TypeInv, TypeOK, HandlerTypeOK
<1>3. Fresh'
  BY <1>1, <1>2, SlotParts DEF Fresh
<1>4. \A s \in Slots : Published(s)' <=> Published(s)
  BY <1>1, <1>2, SlotParts DEF Published
<1>5. \A s \in Slots : Notified(s)' <=> Notified(s)
  BY SlotParts DEF Notified
<1> QED
  BY <1>3, <1>4, <1>5 DEF Reported, Noticed

LEMMA AuctionKeepsReports ==
  ASSUME TypeInv, Fresh, NEW r \in Requests, AuctionImp(r)
  PROVE  Fresh' /\ Reported' = Reported /\ Noticed' = Noticed
<1> DEFINE slot == <<r, pos[r]>>
<1>1. pc[r] = "auction" /\ pos[r] \in Nat
  BY DEF AuctionImp, TypeInv, TypeOK, HandlerTypeOK
<1>2. slot \in Slots => awards[slot] = None
  BY <1>1 DEF Fresh
<1>3. \A q \in Requests : pos[q] \in Nat
  BY DEF TypeInv, TypeOK, HandlerTypeOK
<1>4. CASE /\ \E award : awards' = [awards EXCEPT ![slot] = award]
           /\ pc' = [pc EXCEPT ![r] = "publish"] /\ UNCHANGED pos
  <2>1. \A s \in Slots : s # slot => awards'[s] = awards[s]
    BY <1>4 DEF TypeInv, TypeOK, HandlerTypeOK
  <2>2. \A q \in Requests : pc'[q] = IF q = r THEN "publish" ELSE pc[q]
    BY <1>4 DEF TypeInv, TypeOK, HandlerTypeOK
  <2>3. ASSUME NEW s \in Slots
        PROVE  /\ awards'[s] # None =>
                    \/ s[2] < pos[s[1]]
                    \/ s[2] = pos[s[1]] /\ pc'[s[1]] \in {"publish", "notify"}
               /\ Published(s)' <=> Published(s)
               /\ Notified(s)' <=> Notified(s)
    <3>1. CASE s = slot
      <4>1. s[1] = r /\ s[2] = pos[r]
        BY <3>1
      <4> QED
        BY <1>1, <1>4, <2>2, <4>1 DEF Published, Notified
    <3>2. CASE s # slot
      <4>1. /\ s[1] \in Requests /\ s[2] \in 1..MaxImps
            /\ s[1] = r => s[2] # pos[r]
        BY <3>2, SlotParts
      <4> QED
        BY <1>1, <1>3, <1>4, <2>1, <2>2, <3>2, <4>1
           DEF Published, Notified, Fresh
    <3> QED
      BY <3>1, <3>2
  <2> QED
    BY <1>4, <2>3 DEF Fresh, Reported, Noticed
<1>5. CASE pos' = [pos EXCEPT ![r] = @ + 1] /\ UNCHANGED <<pc, awards>>
  <2>1. \A q \in Requests : pos'[q] = IF q = r THEN pos[q] + 1 ELSE pos[q]
    BY <1>5 DEF TypeInv, TypeOK, HandlerTypeOK
  <2>2. ASSUME NEW s \in Slots
        PROVE  /\ awards[s] # None =>
                    \/ s[2] < pos'[s[1]]
                    \/ s[2] = pos'[s[1]] /\ pc[s[1]] \in {"publish", "notify"}
               /\ Published(s)' <=> Published(s)
               /\ Notified(s)' <=> Notified(s)
    <3>1. s[1] \in Requests /\ s[2] \in 1..MaxImps /\ s = <<s[1], s[2]>>
      BY SlotParts
    <3>2. awards[s] # None /\ s[1] = r => s[2] < pos[r]
      BY <1>1, <3>1 DEF Fresh
    <3> QED
      BY <1>1, <1>3, <1>5, <2>1, <3>1, <3>2 DEF Published, Notified, Fresh
  <2> QED
    BY <1>5, <2>2 DEF Fresh, Reported, Noticed
<1> QED
  BY <1>4, <1>5 DEF AuctionImp

\* The slot of the impression at hand is reported, and noticed if it is to be,
\* when the loop leaves it.
LEMMA LeavingReports ==
  ASSUME TypeInv, Fresh, NEW r \in Requests, pc[r] \in {"publish", "notify"},
         NextImp(r), UNCHANGED awards
  PROVE  /\ Fresh'
         /\ Reported' = Reported \cup {<<r, pos[r]>>}
         /\ Noticed' = Noticed \cup (IF awards[<<r, pos[r]>>].notify
                                     THEN {<<r, pos[r]>>} ELSE {})
<1>1. PICK slot \in Slots : /\ slot = <<r, pos[r]>>
                           /\ awards[slot] \in Awards /\ awards[slot] # None
  <2>1. <<r, pos[r]>> \in Slots /\ awards[<<r, pos[r]>>] \in Awards
    BY SlotInLoop DEF TypeInv, TypeOK, HandlerInv, Flow
  <2> QED
    BY <2>1, NoneAssumption
<1>2. \A q \in Requests : /\ pos[q] \in Nat
                          /\ pos'[q] = IF q = r THEN pos[q] + 1 ELSE pos[q]
                          /\ pc'[q] = IF q = r THEN "auction" ELSE pc[q]
  BY DEF NextImp, TypeInv, TypeOK, HandlerTypeOK
<1>3. ASSUME NEW s \in Slots, s # slot
      PROVE  /\ awards[s] # None =>
                  \/ s[2] < pos'[s[1]]
                  \/ s[2] = pos'[s[1]] /\ pc'[s[1]] \in {"publish", "notify"}
             /\ Published(s)' <=> Published(s)
             /\ Notified(s)' <=> Notified(s)
  <2>1. /\ s[1] \in Requests /\ s[2] \in 1..MaxImps
        /\ s[1] = r => s[2] # pos[r]
    BY <1>1, <1>3, SlotParts
  <2>2. awards[s] # None /\ s[1] = r => s[2] < pos[r]
    BY <1>3, <2>1 DEF Fresh
  <2> QED
    BY <1>2, <2>1, <2>2 DEF Published, Notified, Fresh
<1>4. /\ Published(slot)' /\ (Notified(slot)' <=> awards[slot].notify)
      /\ slot[2] < pos'[slot[1]]
  <2>1. slot[1] = r /\ slot[2] = pos[r] /\ pos[r] < pos'[r]
    BY <1>1, <1>2
  <2> QED
    BY <1>1, <2>1 DEF Published, Notified
<1>5. ~Notified(slot)
  BY <1>1, <1>2 DEF Notified
<1>6. Fresh'
  BY <1>3, <1>4 DEF Fresh
<1>7. Reported' = Reported \cup {slot}
  BY <1>1, <1>3, <1>4 DEF Reported
<1>8. Noticed' = Noticed \cup (IF awards[slot].notify THEN {slot} ELSE {})
  BY <1>1, <1>3, <1>4, <1>5 DEF Noticed
<1> QED
  BY <1>1, <1>6, <1>7, <1>8

LEMMA PublishReports ==
  ASSUME TypeInv, Fresh, NEW r \in Requests, PublishImpressionEvent(r)
  PROVE  /\ Fresh' /\ Noticed' = Noticed
         /\ <<r, pos[r]>> \in Slots \ Reported
         /\ Reported' = Reported \cup {<<r, pos[r]>>}
<1>1. pc[r] = "publish" /\ UNCHANGED awards
  BY DEF PublishImpressionEvent
<1>2. PICK slot \in Slots : /\ slot = <<r, pos[r]>>
                           /\ awards[slot] \in Awards /\ awards[slot] # None
  <2>1. <<r, pos[r]>> \in Slots /\ awards[<<r, pos[r]>>] \in Awards
    BY <1>1, SlotInLoop DEF TypeInv, TypeOK, HandlerInv, Flow
  <2> QED
    BY <2>1, NoneAssumption
<1>3. \A q \in Requests : pos[q] \in Nat
  BY DEF TypeInv, TypeOK, HandlerTypeOK
<1>4. ~Published(slot)
  BY <1>1, <1>2, <1>3 DEF Published
<1>5. CASE ~awards[slot].notify
  <2>1. NextImp(r)
    BY <1>2, <1>5 DEF PublishImpressionEvent
  <2> QED
    BY <1>1, <1>2, <1>4, <1>5, <2>1, LeavingReports DEF Reported
<1>6. CASE awards[slot].notify
  <2>1. pc' = [pc EXCEPT ![r] = "notify"] /\ UNCHANGED pos
    BY <1>2, <1>6 DEF PublishImpressionEvent
  <2>2. \A q \in Requests : pc'[q] = IF q = r THEN "notify" ELSE pc[q]
    BY <2>1 DEF TypeInv, TypeOK, HandlerTypeOK
  <2>3. Fresh'
    BY <1>1, <2>1, <2>2, SlotParts DEF Fresh
  <2>4. Noticed' = Noticed
    BY <1>1, <2>1 DEF Noticed, Notified
  <2>5. Published(slot)'
    BY <1>1, <1>2, <2>1, <2>2 DEF Published
  <2>6. ASSUME NEW s \in Slots, s # slot
        PROVE  Published(s)' <=> Published(s)
    <3>1. s[1] \in Requests /\ (s[1] = r => s[2] # pos[r])
      BY <1>2, <2>6, SlotParts
    <3> QED
      BY <1>1, <2>1, <2>2, <3>1 DEF Published
  <2>7. Reported' = Reported \cup {slot} /\ slot \in Slots \ Reported
    BY <1>2, <1>4, <2>5, <2>6 DEF Reported
  <2> QED
    BY <1>2, <2>3, <2>4, <2>7
<1> QED
  BY <1>5, <1>6

LEMMA NotifyReports ==
  ASSUME TypeInv, Fresh, NEW r \in Requests, FireNURL(r)
  PROVE  /\ Fresh' /\ Reported' = Reported
         /\ <<r, pos[r]>> \in Slots \ Noticed
         /\ Noticed' = Noticed \cup {<<r, pos[r]>>}
<1> DEFINE slot == <<r, pos[r]>>
<1>1. pc[r] = "notify" /\ UNCHANGED awards /\ NextImp(r)
  BY DEF FireNURL
<1>2. slot \in Slots /\ awards[slot] \in Awards /\ awards[slot] # None
      /\ awards[slot].notify
  <2>1. slot \in Slots /\ awards[slot] \in Awards /\ awards[slot].notify
    BY <1>1, SlotInLoop DEF TypeInv, TypeOK, HandlerInv, Flow
  <2> QED
    BY <2>1, NoneAssumption
<1>3. pos[r] \in Nat
  BY DEF TypeInv, TypeOK, HandlerTypeOK
<1>4. Published(slot) /\ ~Notified(slot)
  BY <1>1, <1>2, <1>3 DEF Published, Notified
<1> QED
  BY <1>1, <1>2, <1>4, LeavingReports DEF Reported, Noticed

\* The other steps of a request report nothing.
LEMMA SilentSteps ==
  ASSUME TypeInv, Fresh, NEW r \in Requests,
         Receive(r) \/ RequestStep(r),
         ~PublishImpressionEvent(r), ~FireNURL(r)
  PROVE  /\ Fresh' /\ Reported' = Reported /\ Noticed' = Noticed
         /\ UNCHANGED <<eventVars, noticeVars>>
<1>1. CASE Receive(r)
  <2>1. /\ pc[r] = "idle" /\ UNCHANGED <<pos, awards, eventVars, noticeVars>>
        /\ \E p \in {"pipeline", "done"} : pc' = [pc EXCEPT ![r] = p]
    BY <1>1 DEF Receive, RejectMalformed, RejectNoConsent, RejectInvalid,
                StartPipeline, Answer
  <2> QED
    BY <2>1, MoveKeepsReports
<1>2. CASE FetchUserSegments(r) \/ EvaluateCampaigns(r) \/ FetchBids(r)
  <2>1. UNCHANGED <<pc, pos, awards, eventVars, noticeVars>>
    BY <1>2 DEF FetchUserSegments, EvaluateCampaigns, FetchBids, Fetch
  <2> QED
    BY <2>1 DEF Fresh, Reported, Noticed, Published, Notified
<1>3. CASE JoinPipeline(r) \/ Respond(r)
  <2>1. /\ pc[r] \in {"pipeline", "auction"}
        /\ UNCHANGED <<pos, awards, eventVars, noticeVars>>
        /\ \E p \in {"auction", "done"} : pc' = [pc EXCEPT ![r] = p]
    BY <1>3 DEF JoinPipeline, Respond, Answer
  <2> QED
    BY <2>1, MoveKeepsReports
<1>4. CASE AuctionImp(r)
  BY <1>4, AuctionKeepsReports DEF AuctionImp
<1> QED
  BY <1>1, <1>2, <1>3, <1>4 DEF RequestStep

-----------------------------------------------------------------------------
(* Queues and workers as sets of the slots they hold. *)

Queued(queue) == {s \in Slots : Holds(queue, s)}
Held(worker)  == {s \in Slots : InHand(worker, s)}

LEMMA QueueGains ==
  ASSUME NEW q \in Seq(Slots), NEW s \in Slots, s \notin Queued(q), NoRepeats(q)
  PROVE  /\ Queued(Append(q, s)) = Queued(q) \cup {s}
         /\ NoRepeats(Append(q, s))
<1> DEFINE t == Append(q, s)
<1>1. /\ DOMAIN t = 1..Len(q) + 1 /\ DOMAIN q = 1..Len(q)
      /\ Len(q) \in Nat /\ t[Len(q) + 1] = s
      /\ \A i \in 1..Len(q) : t[i] = q[i]
  <2>1. Append(q, s) \in Seq(Slots) /\ Len(Append(q, s)) = Len(q) + 1
    BY AppendProperties
  <2> QED
    BY <2>1, AppendProperties, LenProperties
<1> HIDE DEF t
<1>2. \A i \in DOMAIN t : i = Len(q) + 1 \/ i \in DOMAIN q
  BY <1>1
<1>3. \A i \in DOMAIN q : i \in DOMAIN t
  BY <1>1
<1>4. Len(q) + 1 \in DOMAIN t
  BY <1>1
<1>5. \A u : Holds(t, u) <=> Holds(q, u) \/ u = s
  BY <1>1, <1>2, <1>3, <1>4 DEF Holds
<1>6. \A i \in DOMAIN q : q[i] # s
  BY DEF Queued, Holds
<1>7. NoRepeats(t)
  BY <1>1, <1>2, <1>6 DEF NoRepeats
<1> QED
  BY <1>1, <1>5, <1>7 DEF Queued, t

LEMMA QueueLoses ==
  ASSUME NEW q \in Seq(Slots), q # <<>>, NoRepeats(q)
  PROVE  /\ Head(q) \in Queued(q)
         /\ Queued(Tail(q)) = Queued(q) \ {Head(q)}
         /\ NoRepeats(Tail(q))
<1> DEFINE t == Tail(q)
<1>1. /\ Head(q) = q[1] /\ Head(q) \in Slots
      /\ DOMAIN t = 1..Len(q) - 1 /\ DOMAIN q = 1..Len(q)
      /\ Len(q) \in Nat /\ Len(q) >= 1
      /\ \A i \in 1..Len(q) - 1 : t[i] = q[i + 1]
  <2>1. Tail(q) \in Seq(Slots) /\ Len(Tail(q)) = Len(q) - 1
    BY HeadTailProperties
  <2> QED
    BY <2>1, HeadTailProperties, LenProperties, EmptySeq
<1> HIDE DEF t
<1>2. 1 \in DOMAIN q /\ \A i \in DOMAIN t : i + 1 \in DOMAIN q /\ i + 1 # 1
  BY <1>1
<1>3. \A i \in DOMAIN q : i = 1 \/ (i - 1 \in DOMAIN t /\ t[i - 1] = q[i])
  BY <1>1
<1>4. \A u : Holds(q, u) <=> Holds(t, u) \/ u = q[1]
  BY <1>1, <1>2, <1>3 DEF Holds
<1>5. \A i \in DOMAIN t : t[i] # q[1]
  BY <1>1, <1>2 DEF NoRepeats
<1>6. NoRepeats(t)
  <2> SUFFICES ASSUME NEW i \in DOMAIN t, NEW j \in DOMAIN t, t[i] = t[j]
               PROVE  i = j
    BY DEF NoRepeats
  <2>1. i + 1 = j + 1
    BY <1>1, <1>2 DEF NoRepeats
  <2> QED
    BY <1>1, <2>1
<1>7. ~Holds(t, q[1])
  BY <1>5 DEF Holds
<1> QED
  BY <1>1, <1>4, <1>6, <1>7 DEF Queued, t

LEMMA WorkerTakes ==
  ASSUME NEW W, NEW f \in [W -> Slots \cup {None}], OneHolder(f),
         NEW w \in W, f[w] = None, NEW s \in Slots, s \notin Held(f),
         NEW g, DOMAIN g = W,
         \A v \in W : g[v] = IF v = w THEN s ELSE f[v]
  PROVE  Held(g) = Held(f) \cup {s} /\ OneHolder(g)
<1>1. /\ DOMAIN g = W /\ DOMAIN f = W
      /\ \A v \in W : g[v] = IF v = w THEN s ELSE f[v]
  OBVIOUS
<1>2. None \notin Slots
  BY NoneAssumption
<1>3. \A v \in W : f[v] # s
  BY <1>1 DEF Held, InHand
<1>4. \A u \in Slots : InHand(g, u) <=> InHand(f, u) \/ u = s
  BY <1>1, <1>2 DEF InHand
<1>5. OneHolder(g)
  BY <1>1, <1>3 DEF OneHolder
<1> QED
  BY <1>1, <1>4, <1>5 DEF Held

LEMMA WorkerDrops ==
  ASSUME NEW W, NEW f \in [W -> Slots \cup {None}], OneHolder(f),
         NEW w \in W, f[w] # None,
         NEW g, g = [f EXCEPT ![w] = None]
  PROVE  f[w] \in Held(f) /\ Held(g) = Held(f) \ {f[w]} /\ OneHolder(g)
<1>1. /\ DOMAIN g = W /\ DOMAIN f = W
      /\ \A v \in W : g[v] = IF v = w THEN None ELSE f[v]
  OBVIOUS
<1>2. None \notin Slots
  BY NoneAssumption
<1>3. f[w] \in Slots /\ InHand(f, f[w])
  BY <1>1 DEF InHand
<1>4. \A u \in Slots : InHand(g, u) <=> InHand(f, u) /\ u # f[w]
  BY <1>1, <1>2 DEF InHand, OneHolder
<1>5. OneHolder(g)
  BY <1>1 DEF OneHolder
<1> QED
  BY <1>1, <1>3, <1>4, <1>5 DEF Held

-----------------------------------------------------------------------------
(* Each report is in one place. *)

\* The four sets share whole out among themselves.
Partition(whole, a, b, c, d) ==
  /\ whole = a \cup b \cup c \cup d
  /\ a \cap b = {} /\ a \cap c = {} /\ a \cap d = {}
  /\ b \cap c = {} /\ b \cap d = {} /\ c \cap d = {}

\* Once fired, twice never.
Fired == {s \in Slots : fires[s] > 0}

EventInv ==
  /\ NoRepeats(eventQueue) /\ OneHolder(eventWorker)
  /\ Partition(Reported, Queued(eventQueue), Held(eventWorker), acked, abandoned)

NoticeInv ==
  /\ NoRepeats(nurlQueue) /\ OneHolder(nurlWorker)
  /\ Partition(Noticed, Queued(nurlQueue), Held(nurlWorker), Fired, missed)
  /\ \A s \in Slots : fires[s] <= 1

\* Each write of the event in a worker's hands but the last has failed, and was
\* counted as an attempt.
KafkaInv ==
  /\ \A s \in Slots :
       /\ kafka[s] <= MaxRetries
       /\ s \in acked => kafka[s] > 0
       /\ kafka[s] > 0 => s \in Held(eventWorker) \cup acked \cup abandoned
  /\ \A w \in EventWorkers :
       eventWorker[w] # None => kafka[eventWorker[w]] <= attempt[w]

ReportInv == Fresh /\ EventInv /\ NoticeInv /\ KafkaInv

LEMMA InitReport == Init => ReportInv
<1> SUFFICES ASSUME Init PROVE ReportInv
  OBVIOUS
<1>1. Fresh /\ Reported = {} /\ Noticed = {}
  BY DEF Init, Fresh, Reported, Noticed, Published, Notified
<1>2. NoRepeats(<<>>) /\ Queued(<<>>) = {}
  BY DEF NoRepeats, Queued, Holds
<1>3. Held(eventWorker) = {} /\ Held(nurlWorker) = {}
  BY NoneAssumption DEF Init, Held, InHand
<1>4. OneHolder(eventWorker) /\ OneHolder(nurlWorker)
  BY DEF Init, OneHolder
<1>5. Fired = {} /\ \A s \in Slots : fires[s] <= 1
  BY DEF Init, Fired
<1>6. KafkaInv
  BY SizesAssumption DEF Init, KafkaInv
<1> QED
  BY <1>1, <1>2, <1>3, <1>4, <1>5, <1>6
     DEF Init, ReportInv, EventInv, NoticeInv, Partition

LEMMA PublishKeepsReport ==
  ASSUME TypeInv, ReportInv, NEW r \in Requests, PublishImpressionEvent(r)
  PROVE  ReportInv'
<1>1. PICK slot \in Slots \ Reported :
        /\ slot = <<r, pos[r]>> /\ Fresh' /\ Noticed' = Noticed
        /\ Reported' = Reported \cup {slot}
  BY PublishReports DEF ReportInv
<1>2. UNCHANGED <<eventWorker, attempt, kafka, acked, noticeVars>>
  BY DEF PublishImpressionEvent
<1>3. slot \notin Queued(eventQueue) /\ eventQueue \in Seq(Slots)
  BY <1>1 DEF ReportInv, EventInv, Partition, TypeInv, TypeOK, EventTypeOK
<1>4. CASE eventQueue' = Append(eventQueue, slot) /\ UNCHANGED abandoned
  <2>1. /\ NoRepeats(eventQueue')
        /\ Queued(eventQueue') = Queued(eventQueue) \cup {slot}
    BY <1>3, <1>4, QueueGains DEF ReportInv, EventInv
  <2>2. EventInv'
    BY <1>1, <1>2, <1>4, <2>1 DEF ReportInv, EventInv, Partition
  <2>3. NoticeInv' /\ KafkaInv'
    BY <1>1, <1>2, <1>4 DEF ReportInv, NoticeInv, KafkaInv, noticeVars, Fired
  <2> QED
    BY <1>1, <2>2, <2>3 DEF ReportInv
<1>5. CASE abandoned' = abandoned \cup {slot} /\ UNCHANGED eventQueue
  <2>1. EventInv'
    BY <1>1, <1>2, <1>5 DEF ReportInv, EventInv, Partition
  <2>2. NoticeInv' /\ KafkaInv'
    BY <1>1, <1>2, <1>5 DEF ReportInv, NoticeInv, KafkaInv, noticeVars, Fired
  <2> QED
    BY <1>1, <2>1, <2>2 DEF ReportInv
<1> QED
  BY <1>1, <1>4, <1>5 DEF PublishImpressionEvent

LEMMA NotifyKeepsReport ==
  ASSUME TypeInv, ReportInv, NEW r \in Requests, FireNURL(r)
  PROVE  ReportInv'
<1>1. PICK slot \in Slots \ Noticed :
        /\ slot = <<r, pos[r]>> /\ Fresh' /\ Reported' = Reported
        /\ Noticed' = Noticed \cup {slot}
  BY NotifyReports DEF ReportInv
<1>2. UNCHANGED <<eventVars, nurlWorker, fires>>
  BY DEF FireNURL
<1>3. EventInv' /\ KafkaInv'
  BY <1>1, <1>2 DEF ReportInv, EventInv, KafkaInv, eventVars
<1>4. slot \notin Queued(nurlQueue) /\ nurlQueue \in Seq(Slots)
  BY <1>1 DEF ReportInv, NoticeInv, Partition, TypeInv, TypeOK, NoticeTypeOK
<1>5. Fired' = Fired
  BY <1>2 DEF Fired
<1>6. CASE nurlQueue' = Append(nurlQueue, slot) /\ UNCHANGED missed
  <2>1. /\ NoRepeats(nurlQueue')
        /\ Queued(nurlQueue') = Queued(nurlQueue) \cup {slot}
    BY <1>4, <1>6, QueueGains DEF ReportInv, NoticeInv
  <2>2. NoticeInv'
    BY <1>1, <1>2, <1>5, <1>6, <2>1 DEF ReportInv, NoticeInv, Partition
  <2> QED
    BY <1>1, <1>3, <2>2 DEF ReportInv
<1>7. CASE missed' = missed \cup {slot} /\ UNCHANGED nurlQueue
  <2>1. NoticeInv'
    BY <1>1, <1>2, <1>5, <1>7 DEF ReportInv, NoticeInv, Partition
  <2> QED
    BY <1>1, <1>3, <2>1 DEF ReportInv
<1> QED
  BY <1>1, <1>6, <1>7 DEF FireNURL

\* Steps that hand nothing over, take nothing and write nothing.
LEMMA SilentKeepsReport ==
  ASSUME ReportInv, Fresh', Reported' = Reported, Noticed' = Noticed,
         UNCHANGED <<eventVars, noticeVars>>
  PROVE  ReportInv'
BY DEF ReportInv, EventInv, NoticeInv, KafkaInv, Fired, eventVars, noticeVars

\* The workers do not touch what the handlers know.
LEMMA WorkersKeepReports ==
  ASSUME Fresh, UNCHANGED handlerVars
  PROVE  Fresh' /\ Reported' = Reported /\ Noticed' = Noticed
BY DEF handlerVars, Fresh, Reported, Noticed, Published, Notified

LEMMA EventWorkerKeepsReport ==
  ASSUME TypeInv, ReportInv, NEW w \in EventWorkers, EventWorkerStep(w)
  PROVE  ReportInv'
<1> DEFINE slot == eventWorker[w]
<1>1. /\ eventWorker \in [EventWorkers -> Slots \cup {None}]
      /\ attempt \in [EventWorkers -> 0..MaxRetries]
      /\ kafka \in [Slots -> Nat] /\ eventQueue \in Seq(Slots)
  BY DEF TypeInv, TypeOK, EventTypeOK
<1>2. UNCHANGED handlerVars /\ UNCHANGED noticeVars
  BY DEF EventWorkerStep, TakeEvent, WriteMessage, WriteFails, GiveUp
<1>3. Fresh' /\ Reported' = Reported /\ NoticeInv'
  <2>1. Fresh' /\ Reported' = Reported /\ Noticed' = Noticed
    BY <1>2, WorkersKeepReports DEF ReportInv
  <2> QED
    BY <1>2, <2>1 DEF ReportInv, NoticeInv, noticeVars, Fired
<1>4. \A v \in EventWorkers : eventWorker[v] # None =>
        eventWorker[v] \in Held(eventWorker)
  BY <1>1 DEF Held, InHand
<1>5. CASE TakeEvent(w)
  <2>1. PICK s \in Slots : s = Head(eventQueue)
    BY <1>1, <1>5, HeadTailProperties DEF TakeEvent
  <2>2. /\ s \in Queued(eventQueue) /\ NoRepeats(eventQueue')
        /\ Queued(eventQueue') = Queued(eventQueue) \ {s}
    BY <1>1, <1>5, <2>1, QueueLoses DEF TakeEvent, ReportInv, EventInv
  <2>3. s \notin Held(eventWorker) \cup acked \cup abandoned
    BY <2>2 DEF ReportInv, EventInv, Partition
  <2>4. /\ Held(eventWorker') = Held(eventWorker) \cup {s}
        /\ OneHolder(eventWorker')
    <3>1. eventWorker' = [eventWorker EXCEPT ![w] = s]
      BY <1>5, <2>1 DEF TakeEvent
    <3>2. /\ DOMAIN eventWorker' = EventWorkers
          /\ \A v \in EventWorkers : eventWorker'[v] = IF v = w THEN s ELSE eventWorker[v]
      BY <1>1, <3>1
    <3>3. /\ eventWorker[w] = None /\ OneHolder(eventWorker)
          /\ w \in EventWorkers /\ s \in Slots \ Held(eventWorker)
          /\ eventWorker \in [EventWorkers -> Slots \cup {None}]
      BY <1>1, <1>5, <2>1, <2>3 DEF TakeEvent, ReportInv, EventInv
    <3> QED
      BY <3>2, <3>3, WorkerTakes
  <2>5. EventInv'
    BY <1>3, <1>5, <2>2, <2>4
       DEF TakeEvent, ReportInv, EventInv, Partition
  <2>6. kafka[s] = 0
    BY <1>1, <2>3 DEF ReportInv, KafkaInv
  <2>7. \A v \in EventWorkers :
          /\ eventWorker'[v] = IF v = w THEN s ELSE eventWorker[v]
          /\ attempt'[v] = IF v = w THEN 0 ELSE attempt[v]
    BY <1>1, <1>5, <2>1 DEF TakeEvent
  <2>8. UNCHANGED <<kafka, acked, abandoned>>
    BY <1>5 DEF TakeEvent
  <2>9. \A v \in EventWorkers : eventWorker'[v] # None =>
          kafka'[eventWorker'[v]] <= attempt'[v]
    BY <2>6, <2>7, <2>8 DEF ReportInv, KafkaInv
  <2>10. KafkaInv'
    BY <2>4, <2>8, <2>9 DEF ReportInv, KafkaInv
  <2> QED
    BY <1>3, <2>5, <2>10 DEF ReportInv
<1>6. ASSUME slot # None
      PROVE  /\ slot \in Slots /\ slot \in Held(eventWorker)
             /\ slot \notin Queued(eventQueue) \cup acked \cup abandoned
             /\ \A v \in EventWorkers \ {w} : eventWorker[v] # slot
             /\ kafka[slot] <= attempt[w] /\ kafka[slot] \in Nat
             /\ attempt[w] \in Nat /\ attempt[w] <= MaxRetries
  <2>1. slot \in Slots /\ slot \in Held(eventWorker)
    BY <1>1, <1>4, <1>6
  <2>2. slot \notin Queued(eventQueue) \cup acked \cup abandoned
    BY <2>1 DEF ReportInv, EventInv, Partition
  <2>3. \A v \in EventWorkers \ {w} : eventWorker[v] # slot
    BY <1>1, <1>6 DEF ReportInv, EventInv, OneHolder
  <2>4. kafka[slot] <= attempt[w] /\ kafka[slot] \in Nat
    BY <1>1, <1>6, <2>1 DEF ReportInv, KafkaInv
  <2>5. attempt[w] \in Nat /\ attempt[w] <= MaxRetries
    BY <1>1, SizesAssumption
  <2> QED
    BY <2>1, <2>2, <2>3, <2>4, <2>5
<1>7. ASSUME slot # None, eventWorker' = [eventWorker EXCEPT ![w] = None]
      PROVE  /\ Held(eventWorker') = Held(eventWorker) \ {slot}
             /\ OneHolder(eventWorker')
             /\ \A v \in EventWorkers : eventWorker'[v] # None =>
                  v # w /\ eventWorker'[v] = eventWorker[v]
                  /\ eventWorker[v] # slot /\ eventWorker[v] \in Slots
  <2>1. /\ Held(eventWorker') = Held(eventWorker) \ {slot}
        /\ OneHolder(eventWorker')
    BY <1>1, <1>7, WorkerDrops DEF ReportInv, EventInv
  <2> QED
    BY <1>1, <1>6, <1>7, <2>1
<1>8. CASE WriteMessage(w)
  <2>1. PICK s \in Slots : s = slot
    BY <1>6, <1>8 DEF WriteMessage
  <2>2. /\ slot # None /\ eventWorker' = [eventWorker EXCEPT ![w] = None]
        /\ kafka' = [kafka EXCEPT ![s] = @ + 1] /\ acked' = acked \cup {s}
        /\ attempt[w] < MaxRetries
        /\ UNCHANGED <<eventQueue, attempt, abandoned>>
    BY <1>8, <2>1 DEF WriteMessage, RetryLimit
  <2>3. EventInv'
    BY <1>3, <1>6, <1>7, <2>1, <2>2 DEF ReportInv, EventInv, Partition
  <2>4. \A u \in Slots : kafka'[u] = IF u = s THEN kafka[u] + 1 ELSE kafka[u]
    BY <1>1, <2>2
  <2>5. \A u \in Slots : /\ kafka'[u] <= MaxRetries
                         /\ u \in acked' => kafka'[u] > 0
    BY <1>1, <1>6, <2>1, <2>2, <2>4, SizesAssumption DEF ReportInv, KafkaInv
  <2>6. \A u \in Slots : kafka'[u] > 0 =>
          u \in Held(eventWorker') \cup acked' \cup abandoned'
    BY <1>7, <2>1, <2>2, <2>4 DEF ReportInv, KafkaInv
  <2>7. \A v \in EventWorkers : eventWorker'[v] # None =>
          kafka'[eventWorker'[v]] <= attempt'[v]
    BY <1>7, <2>1, <2>2, <2>4 DEF ReportInv, KafkaInv
  <2>8. KafkaInv'
    BY <2>5, <2>6, <2>7 DEF KafkaInv
  <2> QED
    BY <1>3, <2>3, <2>8 DEF ReportInv
<1>9. CASE WriteFails(w)
  <2>1. PICK s \in Slots : s = slot
    BY <1>6, <1>9 DEF WriteFails
  <2>2. PICK applied \in {0, 1} : kafka' = [kafka EXCEPT ![s] = @ + applied]
    BY <1>9, <2>1 DEF WriteFails
  <2>3. /\ slot # None /\ attempt[w] < MaxRetries
        /\ attempt' = [attempt EXCEPT ![w] = @ + 1]
        /\ UNCHANGED <<eventQueue, eventWorker, acked, abandoned>>
    BY <1>9 DEF WriteFails, RetryLimit
  <2>4. EventInv'
    BY <1>3, <2>3 DEF ReportInv, EventInv
  <2>5. \A u \in Slots :
          kafka'[u] = IF u = s THEN kafka[u] + applied ELSE kafka[u]
    BY <1>1, <2>2
  <2>6. \A v \in EventWorkers :
          attempt'[v] = IF v = w THEN attempt[v] + 1 ELSE attempt[v]
    BY <1>1, <2>3
  <2>7. \A u \in Slots : /\ kafka'[u] <= MaxRetries
                         /\ u \in acked' => kafka'[u] > 0
    <3> SUFFICES ASSUME NEW u \in Slots
                 PROVE  kafka'[u] <= MaxRetries /\ (u \in acked' => kafka'[u] > 0)
      OBVIOUS
    <3>1. kafka[u] <= MaxRetries /\ (u \in acked => kafka[u] > 0)
      BY DEF ReportInv, KafkaInv
    <3>2. CASE u = s
      <4>1. kafka'[u] = kafka[s] + applied /\ kafka[s] <= attempt[w]
            /\ kafka[s] \in Nat /\ attempt[w] \in Nat
            /\ attempt[w] < MaxRetries /\ u \notin acked'
        BY <1>6, <2>1, <2>3, <2>5, <3>2
      <4> QED
        BY <4>1, SizesAssumption
    <3>3. CASE u # s
      BY <2>3, <2>5, <3>1, <3>3
    <3> QED
      BY <3>2, <3>3
  <2>8. \A u \in Slots : kafka'[u] > 0 =>
          u \in Held(eventWorker') \cup acked' \cup abandoned'
    BY <1>6, <2>1, <2>3, <2>5 DEF ReportInv, KafkaInv
  <2>9. ASSUME NEW v \in EventWorkers, eventWorker[v] # None
        PROVE  kafka'[eventWorker[v]] <= attempt'[v]
    <3>1. eventWorker[v] \in Slots
      BY <1>1, <2>9
    <3>2. CASE v = w
      BY <1>6, <2>1, <2>3, <2>5, <2>6, <3>2
    <3>3. CASE v # w
      BY <1>6, <2>1, <2>3, <2>5, <2>6, <2>9, <3>1, <3>3
         DEF ReportInv, KafkaInv
    <3> QED
      BY <3>2, <3>3
  <2>10. KafkaInv'
    BY <2>3, <2>7, <2>8, <2>9 DEF KafkaInv
  <2> QED
    BY <1>3, <2>4, <2>10 DEF ReportInv
<1>10. CASE GiveUp(w)
  <2>1. PICK s \in Slots : s = slot
    BY <1>6, <1>10 DEF GiveUp
  <2>2. /\ slot # None /\ eventWorker' = [eventWorker EXCEPT ![w] = None]
        /\ abandoned' = abandoned \cup {s}
        /\ UNCHANGED <<eventQueue, attempt, kafka, acked>>
    BY <1>10, <2>1 DEF GiveUp
  <2>3. EventInv'
    BY <1>3, <1>6, <1>7, <2>1, <2>2 DEF ReportInv, EventInv, Partition
  <2>4. KafkaInv'
    BY <1>7, <2>1, <2>2 DEF ReportInv, KafkaInv
  <2> QED
    BY <1>3, <2>3, <2>4 DEF ReportInv
<1> QED
  BY <1>5, <1>8, <1>9, <1>10 DEF EventWorkerStep

LEMMA NurlWorkerKeepsReport ==
  ASSUME TypeInv, ReportInv, NEW w \in NurlWorkers, NurlWorkerStep(w)
  PROVE  ReportInv'
<1> DEFINE slot == nurlWorker[w]
<1>1. /\ nurlWorker \in [NurlWorkers -> Slots \cup {None}]
      /\ fires \in [Slots -> Nat] /\ nurlQueue \in Seq(Slots)
  BY DEF TypeInv, TypeOK, NoticeTypeOK
<1>2. UNCHANGED handlerVars /\ UNCHANGED eventVars
  BY DEF NurlWorkerStep, TakeNotice, FireNotice, SkipNotice
<1>3. Fresh' /\ Noticed' = Noticed /\ EventInv' /\ KafkaInv'
  <2>1. Fresh' /\ Reported' = Reported /\ Noticed' = Noticed
    BY <1>2, WorkersKeepReports DEF ReportInv
  <2> QED
    BY <1>2, <2>1 DEF ReportInv, EventInv, KafkaInv, eventVars
<1>4. CASE TakeNotice(w)
  <2>1. PICK s \in Slots : s = Head(nurlQueue)
    BY <1>1, <1>4, HeadTailProperties DEF TakeNotice
  <2>2. /\ s \in Queued(nurlQueue) /\ NoRepeats(nurlQueue')
        /\ Queued(nurlQueue') = Queued(nurlQueue) \ {s}
    BY <1>1, <1>4, <2>1, QueueLoses DEF TakeNotice, ReportInv, NoticeInv
  <2>3. s \notin Held(nurlWorker)
    BY <2>2 DEF ReportInv, NoticeInv, Partition
  <2>4. /\ Held(nurlWorker') = Held(nurlWorker) \cup {s}
        /\ OneHolder(nurlWorker')
    <3>1. nurlWorker' = [nurlWorker EXCEPT ![w] = s]
      BY <1>4, <2>1 DEF TakeNotice
    <3>2. /\ DOMAIN nurlWorker' = NurlWorkers
          /\ \A v \in NurlWorkers : nurlWorker'[v] = IF v = w THEN s ELSE nurlWorker[v]
      BY <1>1, <3>1
    <3>3. /\ nurlWorker[w] = None /\ OneHolder(nurlWorker)
          /\ w \in NurlWorkers /\ s \in Slots \ Held(nurlWorker)
          /\ nurlWorker \in [NurlWorkers -> Slots \cup {None}]
      BY <1>1, <1>4, <2>1, <2>3 DEF TakeNotice, ReportInv, NoticeInv
    <3> QED
      BY <3>2, <3>3, WorkerTakes
  <2>5. UNCHANGED <<fires, missed, Fired>>
    BY <1>4 DEF TakeNotice, Fired
  <2>6. NoticeInv'
    BY <1>3, <2>2, <2>4, <2>5 DEF ReportInv, NoticeInv, Partition
  <2> QED
    BY <1>3, <2>6 DEF ReportInv
<1>5. CASE (FireNotice(w) \/ SkipNotice(w))
  <2>1. PICK s \in Slots : s = slot
    BY <1>1, <1>5 DEF FireNotice, SkipNotice
  <2>2. slot # None /\ nurlWorker' = [nurlWorker EXCEPT ![w] = None]
        /\ UNCHANGED nurlQueue
    BY <1>5 DEF FireNotice, SkipNotice
  <2>3. /\ Held(nurlWorker') = Held(nurlWorker) \ {s}
        /\ s \in Held(nurlWorker) /\ OneHolder(nurlWorker')
    BY <1>1, <2>1, <2>2, WorkerDrops DEF ReportInv, NoticeInv
  <2>4. s \notin Queued(nurlQueue) \cup Fired \cup missed
    BY <2>3 DEF ReportInv, NoticeInv, Partition
  <2>5. CASE FireNotice(w)
    <3>1. fires' = [fires EXCEPT ![s] = @ + 1] /\ UNCHANGED missed
      BY <2>1, <2>5 DEF FireNotice
    <3>2. fires[s] = 0
      BY <1>1, <2>4 DEF Fired
    <3>3. \A u \in Slots : fires'[u] = IF u = s THEN 1 ELSE fires[u]
      BY <1>1, <3>1, <3>2
    <3>4. Fired' = Fired \cup {s} /\ \A u \in Slots : fires'[u] <= 1
      BY <3>3 DEF Fired, ReportInv, NoticeInv
    <3>5. NoticeInv'
      BY <1>3, <2>2, <2>3, <2>4, <3>1, <3>4 DEF ReportInv, NoticeInv, Partition
    <3> QED
      BY <1>3, <3>5 DEF ReportInv
  <2>6. CASE SkipNotice(w)
    <3>1. missed' = missed \cup {s} /\ UNCHANGED <<fires, Fired>>
      BY <2>1, <2>6 DEF SkipNotice, Fired
    <3>2. NoticeInv'
      BY <1>3, <2>2, <2>3, <2>4, <3>1 DEF ReportInv, NoticeInv, Partition
    <3> QED
      BY <1>3, <3>2 DEF ReportInv
  <2> QED
    BY <1>5, <2>5, <2>6
<1> QED
  BY <1>4, <1>5 DEF NurlWorkerStep

LEMMA NextReport == ReportInv /\ TypeInv /\ [Next]_vars => ReportInv'
<1> SUFFICES ASSUME ReportInv, TypeInv, [Next]_vars PROVE ReportInv'
  OBVIOUS
<1>1. ASSUME NEW r \in Requests, Receive(r) \/ RequestStep(r)
      PROVE  ReportInv'
  <2>1. CASE ~PublishImpressionEvent(r) /\ ~FireNURL(r)
    BY <1>1, <2>1, SilentSteps, SilentKeepsReport DEF ReportInv
  <2> QED
    BY <2>1, PublishKeepsReport, NotifyKeepsReport
<1>2. CASE UNCHANGED vars
  <2>1. UNCHANGED <<handlerVars, eventVars, noticeVars>>
    BY <1>2 DEF vars
  <2> QED
    BY <2>1, WorkersKeepReports, SilentKeepsReport DEF ReportInv
<1> QED
  BY <1>1, <1>2, EventWorkerKeepsReport, NurlWorkerKeepsReport DEF Next

LEMMA ReportInvariant == Spec => [](TypeInv /\ ReportInv)
BY InitTypeInv, NextTypeInv, InitReport, NextReport, PTL DEF Spec

\* What the invariants say, in the words of the properties.
LEMMA EventsInPlace == ReportInv => EventAccounted
<1> SUFFICES ASSUME ReportInv PROVE EventAccounted
  OBVIOUS
<1>1. \A s \in Slots :
        /\ EventAt(s, "queue") <=> s \in Queued(eventQueue)
        /\ EventAt(s, "worker") <=> s \in Held(eventWorker)
        /\ EventAt(s, "acked") <=> s \in acked
        /\ EventAt(s, "abandoned") <=> s \in abandoned
  BY DEF EventAt, Queued, Held
<1>2. \A s \in Slots : Published(s) <=> s \in Reported
  BY DEF Reported
<1>3. EventPlaces = {"queue", "worker", "acked", "abandoned"}
  BY DEF EventPlaces
<1>4. \A s \in Slots :
        Published(s) <=> \E p \in EventPlaces : EventAt(s, p)
  BY <1>1, <1>2, <1>3 DEF ReportInv, EventInv, Partition
<1>5. ASSUME NEW s \in Slots, NEW p \in EventPlaces, NEW q \in EventPlaces,
             EventAt(s, p), EventAt(s, q)
      PROVE  p = q
  BY <1>1, <1>3, <1>5 DEF ReportInv, EventInv, Partition
<1> QED
  BY <1>4, <1>5 DEF ReportInv, EventInv, EventAccounted

LEMMA CopiesWithinLimit == ReportInv => KafkaCopies
BY DEF ReportInv, KafkaInv, KafkaCopies, Held

(***************************************************************************)
(* With any number of requests, workers and impressions, any capacities    *)
(* and any failures of the writes, each event is in one place, once, and   *)
(* belongs to an impression in a response.                                 *)
(***************************************************************************)
THEOREM EventsAccountedFor == Spec => []EventAccounted
BY EventsInPlace, ReportInvariant, PTL

(***************************************************************************)
(* The topic never holds more copies of an event than writes are allowed,  *)
(* and holds each acknowledged one, for any maxRetries.                    *)
(***************************************************************************)
THEOREM CopiesBounded == Spec => []KafkaCopies
BY CopiesWithinLimit, ReportInvariant, PTL

-----------------------------------------------------------------------------
(* What an award is made from, and which impressions have one. *)

\* The body of a request that is being served, and what the segments and the
\* campaigns fetched for it are.
Inputs(r) ==
  /\ pc[r] # "idle" => body[r] \in BidRequests
  /\ pc[r] = "idle" => userSegments[r] = {} /\ matchedCampaigns[r] = {}
  /\ userSegments[r] \in {{}, body[r].segments}
  /\ \A c \in matchedCampaigns[r] :
       MatchesTargeting(c, body[r].device, body[r].segments)

\* An award is a house ad for want of a valid bid, or a valid bid of the
\* request for that impression, of a DSP or of a matched campaign; and the
\* impression is one of those to be processed.
WellAwarded(r, i, award) ==
  /\ i <= ImpsToProcess(r)
  /\ award.seat = HouseAd => NoValidBid(r, body[r].imps[i])
  /\ award.seat \in DSPs => \E b \in dspBids[r] :
       /\ b.imp = body[r].imps[i].id /\ b.price >= body[r].imps[i].floor
       /\ <<b.seat, b.id, b.nurl>> = <<award.seat, award.deal, award.notify>>
  /\ award.seat = Internal => \E c \in matchedCampaigns[r] : c.id = award.deal
  /\ award.notify => award.seat \in DSPs

Deals(r) ==
  \A i \in 1..MaxImps :
    awards[<<r, i>>] # None => WellAwarded(r, i, awards[<<r, i>>])

Sellable(r, i) == HouseAdsEnabled \/ ~NoValidBid(r, body[r].imps[i])

\* The impressions behind the loop have an award if they can have one.
Decided(r) ==
  /\ pc[r] \in {"idle", "pipeline"} => pos[r] = 1
  /\ pc[r] = "auction" => pos[r] <= ImpsToProcess(r) + 1
  /\ pc[r] \in {"publish", "notify"} =>
       pos[r] <= ImpsToProcess(r) /\ Sellable(r, pos[r])
  /\ pc[r] \in {"auction", "publish", "notify"} =>
       \A i \in 1..MaxImps : i < pos[r] =>
         (awards[<<r, i>>] # None <=> Sellable(r, i))

Complete(r) ==
  /\ \A i \in 1..MaxImps :
       awards[<<r, i>>] # None <=> i <= ImpsToProcess(r) /\ Sellable(r, i)
  /\ response[r] = "204" <=> Awarded(r) = {}

Answered(r) ==
  /\ pc[r] # "done" => response[r] = "none"
  /\ response[r] \in {"200", "204"} => Complete(r)

DealOf(r) == Inputs(r) /\ Deals(r) /\ Decided(r) /\ Answered(r)
DealInv   == \A r \in Requests : DealOf(r)

\* Everything that DealOf(r) looks at.
Same(r) ==
  /\ pc'[r] = pc[r] /\ body'[r] = body[r] /\ pos'[r] = pos[r]
  /\ userSegments'[r] = userSegments[r] /\ dspBids'[r] = dspBids[r]
  /\ matchedCampaigns'[r] = matchedCampaigns[r] /\ response'[r] = response[r]
  /\ \A i \in 1..MaxImps : awards'[<<r, i>>] = awards[<<r, i>>]

\* What can be sold depends on the inputs of the request only.
LEMMA InputsDecide ==
  ASSUME NEW r \in Requests, body'[r] = body[r], dspBids'[r] = dspBids[r],
         matchedCampaigns'[r] = matchedCampaigns[r]
  PROVE  /\ \A i : Sellable(r, i)' <=> Sellable(r, i)
         /\ \A i, award : WellAwarded(r, i, award)' <=> WellAwarded(r, i, award)
         /\ ImpsToProcess(r)' = ImpsToProcess(r)
<1>1. \A imp : NoValidBid(r, imp)' <=> NoValidBid(r, imp)
  BY DEF NoValidBid, BidsForImp
<1>2. \A i : Sellable(r, i)' <=> Sellable(r, i)
  BY <1>1 DEF Sellable
<1>3. \A i, award : WellAwarded(r, i, award)' <=> WellAwarded(r, i, award)
  BY <1>1 DEF WellAwarded, ImpsToProcess
<1> QED
  BY <1>2, <1>3 DEF ImpsToProcess

LEMMA SameKeepsDeal ==
  ASSUME NEW r \in Requests, DealOf(r), Same(r)
  PROVE  DealOf(r)'
<1> USE DEF DealOf
<1>1. /\ \A i : Sellable(r, i)' <=> Sellable(r, i)
      /\ \A i, award : WellAwarded(r, i, award)' <=> WellAwarded(r, i, award)
      /\ ImpsToProcess(r)' = ImpsToProcess(r)
  BY InputsDecide DEF Same
<1>2. Inputs(r)'
  BY DEF Same, Inputs
<1>3. Deals(r)'
  BY <1>1 DEF Same, Deals
<1>4. Decided(r)'
  BY <1>1 DEF Same, Decided
<1>5. Awarded(r)' = Awarded(r)
  BY DEF Same, Awarded
<1>6. Complete(r)' <=> Complete(r)
  BY <1>1, <1>5 DEF Same, Complete
<1>7. Answered(r)'
  BY <1>6 DEF Same, Answered
<1> QED
  BY <1>2, <1>3, <1>4, <1>7

\* A step of one request leaves the others alone.
LEMMA OthersSame ==
  ASSUME TypeInv, NEW r \in Requests, Receive(r) \/ RequestStep(r),
         NEW q \in Requests, q # r
  PROVE  Same(q)
<1> USE DEF TypeInv, TypeOK, HandlerTypeOK
<1>1. CASE Receive(r)
  BY <1>1 DEF Receive, RejectMalformed, RejectNoConsent, RejectInvalid,
              StartPipeline, Answer, pipelineVars, Same
<1>2. CASE FetchUserSegments(r) \/ EvaluateCampaigns(r) \/ FetchBids(r)
  BY <1>2 DEF FetchUserSegments, EvaluateCampaigns, FetchBids, Fetch, Same
<1>3. CASE JoinPipeline(r)
  BY <1>3 DEF JoinPipeline, pipelineVars, Same
<1>4. CASE AuctionImp(r)
  <2>1. UNCHANGED <<body, pipelineVars, response>>
    BY <1>4 DEF AuctionImp
  <2>2. pc'[q] = pc[q] /\ pos'[q] = pos[q]
    BY <1>4 DEF AuctionImp
  <2>3. \A i \in 1..MaxImps : awards'[<<q, i>>] = awards[<<q, i>>]
    <3>1. awards' = awards
          \/ \E award : awards' = [awards EXCEPT ![<<r, pos[r]>>] = award]
      BY <1>4 DEF AuctionImp
    <3> QED
      BY <3>1 DEF Slots
  <2> QED
    BY <2>1, <2>2, <2>3 DEF Same, pipelineVars
<1>5. CASE PublishImpressionEvent(r)
  BY <1>5 DEF PublishImpressionEvent, NextImp, pipelineVars, Same
<1>6. CASE FireNURL(r)
  BY <1>6 DEF FireNURL, NextImp, pipelineVars, Same
<1>7. CASE Respond(r)
  BY <1>7 DEF Respond, Answer, pipelineVars, Same
<1> QED
  BY <1>1, <1>2, <1>3, <1>4, <1>5, <1>6, <1>7 DEF RequestStep

LEMMA InitDeal == Init => DealInv
<1> SUFFICES ASSUME Init, NEW r \in Requests PROVE DealOf(r)
  BY DEF DealInv
<1>1. \A i \in 1..MaxImps : awards[<<r, i>>] = None
  BY DEF Init, Slots
<1>2. Inputs(r)
  BY DEF Init, Inputs
<1>3. Deals(r)
  BY <1>1 DEF Deals
<1>4. Decided(r) /\ Answered(r)
  BY DEF Init, Decided, Answered
<1> QED
  BY <1>2, <1>3, <1>4 DEF DealOf

LEMMA ReceiveKeepsDeal ==
  ASSUME TypeInv, SaleInv, NEW r \in Requests, DealOf(r), Receive(r)
  PROVE  DealOf(r)'
<1>1. /\ pc[r] = "idle"
      /\ UNCHANGED <<userSegments, matchedCampaigns, dspBids, pos, awards>>
  BY DEF Receive, RejectMalformed, RejectNoConsent, RejectInvalid,
         StartPipeline, Answer, pipelineVars
<1>2. \/ pc'[r] = "pipeline" /\ response'[r] = response[r]
      \/ pc'[r] = "done" /\ response'[r] \in {"400", "200 empty"}
  BY DEF Receive, RejectMalformed, RejectNoConsent, RejectInvalid,
         StartPipeline, Answer, TypeInv, TypeOK, HandlerTypeOK
<1>3. \A i \in 1..MaxImps : awards[<<r, i>>] = None
  BY <1>1 DEF SaleInv
<1>4. Inputs(r)'
  <2>1. body'[r] \in BidRequests
    BY DEF Receive, RejectMalformed, RejectNoConsent, RejectInvalid,
           StartPipeline, TypeInv, TypeOK, HandlerTypeOK
  <2> QED
    BY <1>1, <1>2, <2>1 DEF DealOf, Inputs
<1>5. Deals(r)'
  BY <1>1, <1>3 DEF Deals
<1>6. Decided(r)'
  BY <1>1, <1>2 DEF DealOf, Decided
<1>7. Answered(r)'
  BY <1>1, <1>2 DEF DealOf, Answered
<1> QED
  BY <1>4, <1>5, <1>6, <1>7 DEF DealOf

\* The targeting of a request without its segments is the stricter one.
LEMMA TargetingFailsClosed ==
  ASSUME NEW c, NEW device, NEW segments, MatchesTargeting(c, device, {})
  PROVE  MatchesTargeting(c, device, segments)
BY DEF MatchesTargeting, MatchesRule, MatchSegment

LEMMA PipelineKeepsDeal ==
  ASSUME TypeInv, SaleInv, NEW r \in Requests, DealOf(r),
         \/ FetchUserSegments(r) \/ EvaluateCampaigns(r) \/ FetchBids(r)
         \/ JoinPipeline(r)
  PROVE  DealOf(r)'
<1>1. /\ pc[r] = "pipeline" /\ UNCHANGED <<body, pos, awards, response>>
      /\ pc'[r] \in {"pipeline", "auction"}
  BY DEF FetchUserSegments, EvaluateCampaigns, FetchBids, Fetch, JoinPipeline,
         TypeInv, TypeOK, HandlerTypeOK
<1>2. \A i \in 1..MaxImps : awards[<<r, i>>] = None
  BY <1>1 DEF SaleInv
<1>3. Inputs(r)'
  <2>1. CASE FetchUserSegments(r)
    <3>1. /\ userSegments'[r] \in {{}, body[r].segments}
          /\ UNCHANGED matchedCampaigns
      BY <2>1 DEF FetchUserSegments, TypeInv, TypeOK, HandlerTypeOK
    <3> QED
      BY <1>1, <3>1 DEF DealOf, Inputs
  <2>2. CASE EvaluateCampaigns(r)
    <3>1. PICK active \in ActiveReads \cup {{}} : matchedCampaigns'[r] =
            EvaluateTargeting(active, body[r].device, userSegments[r])
      BY <2>2 DEF EvaluateCampaigns, TypeInv, TypeOK, HandlerTypeOK
    <3>2. \A c \in matchedCampaigns'[r] :
            MatchesTargeting(c, body[r].device, body[r].segments)
      BY <3>1, TargetingFailsClosed DEF EvaluateTargeting, DealOf, Inputs
    <3> QED
      BY <1>1, <2>2, <3>2 DEF EvaluateCampaigns, DealOf, Inputs
  <2>3. CASE FetchBids(r) \/ JoinPipeline(r)
    BY <1>1, <2>3
       DEF FetchBids, Fetch, JoinPipeline, pipelineVars, DealOf, Inputs
  <2> QED
    BY <2>1, <2>2, <2>3
<1>4. Deals(r)'
  BY <1>1, <1>2 DEF Deals
<1>5. Decided(r)'
  <2>1. pos[r] = 1
    BY <1>1 DEF DealOf, Decided
  <2>2. ImpsToProcess(r) \in Nat /\ ImpsToProcess(r)' = ImpsToProcess(r)
    <3>1. body[r] \in BidRequests /\ body[r].valid
      BY <1>1 DEF TypeInv, Flow
    <3> QED
      BY <1>1, <3>1, ImpsWithinBound, SizesAssumption DEF ImpsToProcess
  <2> QED
    BY <1>1, <2>1, <2>2 DEF Decided
<1>6. Answered(r)'
  BY <1>1 DEF DealOf, Answered
<1> QED
  BY <1>3, <1>4, <1>5, <1>6 DEF DealOf

\* The award that an auction result becomes.
LEMMA AuctionedWell ==
  ASSUME TypeInv, NEW r \in Requests, NEW i, NEW at,
         i <= ImpsToProcess(r), body[r].imps[i] \in Imps,
         NEW res \in RunAuction(BidsForImp(r, body[r].imps[i]),
                                body[r].imps[i].floor, at)
  PROVE  /\ WellAwarded(r, i, Award(res.winner, res.price))
         /\ Sellable(r, i)
<1> DEFINE imp == body[r].imps[i]
           award == Award(res.winner, res.price)
<1>1. PICK w : w = res.winner
  OBVIOUS
<1>2. w \in BidsForImp(r, imp) /\ w.price >= imp.floor
  BY <1>1, ResultParts
<1>3. Sellable(r, i)
  BY <1>2 DEF Sellable, NoValidBid, EnforceFloor
<1>4. /\ award.seat = w.seat /\ award.deal = w.id
      /\ award.notify = (w.seat # Internal /\ w.nurl)
  BY <1>1 DEF Award
<1> HIDE DEF award
<1>5. CASE w \in dspBids[r] /\ w.imp = imp.id
  <2>1. w \in DSPBids
    BY <1>5 DEF TypeInv, TypeOK, HandlerTypeOK
  <2>2. w.seat \in DSPs /\ w.nurl \in BOOLEAN
    BY <2>1 DEF DSPBids
  <2>3. w.seat # Internal /\ w.seat # HouseAd
    BY <2>2, SeatsAssumption DEF Internal, HouseAd
  <2>4. award.notify = w.nurl
    BY <1>4, <2>2, <2>3
  <2> QED
    BY <1>2, <1>3, <1>4, <1>5, <2>2, <2>3, <2>4 DEF WellAwarded, award
<1>6. CASE w \in InternalBids(matchedCampaigns[r])
  <2>1. PICK c \in matchedCampaigns[r] :
          w = [id |-> c.id, seat |-> Internal, imp |-> "", dealType |-> "PG",
               price |-> c.bidPriceCPM, nurl |-> FALSE]
    BY <1>6 DEF InternalBids
  <2>2. w.id = c.id /\ w.seat = Internal
    BY <2>1
  <2>3. Internal \notin DSPs /\ Internal # HouseAd
    BY SeatsAssumption DEF Internal, HouseAd
  <2> QED
    BY <1>3, <1>4, <2>2, <2>3 DEF WellAwarded, award
<1> QED
  BY <1>2, <1>3, <1>5, <1>6 DEF BidsForImp, award

LEMMA AuctionKeepsDeal ==
  ASSUME TypeInv, Fresh, NEW r \in Requests, DealOf(r), AuctionImp(r)
  PROVE  DealOf(r)'
<1>1. /\ pc[r] = "auction" /\ pos[r] <= ImpsToProcess(r)
      /\ UNCHANGED <<body, pipelineVars, response>>
  BY DEF AuctionImp
<1>2. body[r] \in BidRequests /\ body[r].valid
  BY <1>1 DEF TypeInv, Flow
<1>3. /\ ImpsToProcess(r) \in 1..MaxImps /\ pos[r] \in 1..MaxImps
      /\ body[r].imps[pos[r]] \in Imps
  <2>1. pos[r] \in 1..MaxImps + 1
    BY DEF TypeInv, TypeOK, HandlerTypeOK
  <2> QED
    BY <1>1, <1>2, <2>1, ImpsWithinBound, SizesAssumption
<1>4. PICK k \in 1..MaxImps : k = pos[r]
  BY <1>3
<1>5. /\ <<r, k>> \in Slots /\ awards[<<r, k>>] = None
  <2>1. <<r, k>> \in Slots
    BY DEF Slots
  <2> QED
    BY <1>1, <1>4, <2>1 DEF Fresh
<1>6. /\ \A i : Sellable(r, i)' <=> Sellable(r, i)
      /\ \A i, award : WellAwarded(r, i, award)' <=> WellAwarded(r, i, award)
      /\ ImpsToProcess(r)' = ImpsToProcess(r)
  BY <1>1, InputsDecide DEF pipelineVars
<1>7. Inputs(r)'
  <2>1. pc'[r] # "idle"
    BY <1>1 DEF AuctionImp, TypeInv, TypeOK, HandlerTypeOK
  <2> QED
    BY <1>1, <2>1 DEF DealOf, Inputs, pipelineVars
<1>8. Answered(r)'
  <2>1. response[r] = "none"
    BY <1>1 DEF DealOf, Answered
  <2> QED
    BY <1>1, <2>1 DEF Answered
<1>9. ASSUME NEW award, award # None, WellAwarded(r, k, award), Sellable(r, k),
             awards' = [awards EXCEPT ![<<r, k>>] = award],
             pc' = [pc EXCEPT ![r] = "publish"], UNCHANGED pos
      PROVE  DealOf(r)'
  <2>1. pc'[r] = "publish"
    BY <1>9 DEF TypeInv, TypeOK, HandlerTypeOK
  <2>2. \A i \in 1..MaxImps :
          awards'[<<r, i>>] = IF i = k THEN award ELSE awards[<<r, i>>]
    BY <1>9 DEF TypeInv, TypeOK, HandlerTypeOK, Slots
  <2>3. Deals(r)'
    BY <1>6, <1>9, <2>2 DEF DealOf, Deals
  <2>4. Decided(r)'
    BY <1>1, <1>3, <1>4, <1>6, <1>9, <2>1, <2>2 DEF DealOf, Decided
  <2> QED
    BY <1>7, <1>8, <2>3, <2>4 DEF DealOf
<1>10. ASSUME NEW res \in RunAuction(BidsForImp(r, body[r].imps[k]),
                                     body[r].imps[k].floor, body[r].at),
              awards' = [awards EXCEPT ![<<r, k>>] = Award(res.winner, res.price)],
              pc' = [pc EXCEPT ![r] = "publish"], UNCHANGED pos
       PROVE  DealOf(r)'
  <2>1. /\ WellAwarded(r, k, Award(res.winner, res.price))
        /\ Sellable(r, k)
    BY <1>1, <1>3, <1>4, AuctionedWell
  <2>2. Award(res.winner, res.price) # None
    <3>1. HandlerTypeOK /\ body[r].imps[k] \in Imps
      BY <1>3, <1>4 DEF TypeInv, TypeOK
    <3>2. res.price \in Int
      BY <3>1, PriceIsInteger
    <3>3. Award(res.winner, res.price) \in Awards
      BY <3>1, <3>2, AwardTyped
    <3> QED
      BY <3>3, NoneAssumption
  <2> QED
    BY <1>9, <1>10, <2>1, <2>2
<1>11. ASSUME HouseAdDue(r, body[r].imps[k]),
              awards' = [awards EXCEPT ![<<r, k>>] = HouseAward],
              pc' = [pc EXCEPT ![r] = "publish"], UNCHANGED pos
       PROVE  DealOf(r)'
  <2>1. HouseAward \in Awards
    BY HouseAdAssumption DEF HouseAward, Awards
  <2>2. HouseAward # None
    BY <2>1, NoneAssumption
  <2>3. HouseAd \notin DSPs /\ HouseAd # Internal
    BY SeatsAssumption DEF HouseAd, Internal
  <2>4. WellAwarded(r, k, HouseAward) /\ Sellable(r, k)
    BY <1>1, <1>4, <1>11, <2>3 DEF HouseAdDue, HouseAward, WellAwarded, Sellable
  <2> QED
    BY <1>9, <1>11, <2>2, <2>4
<1>12. ASSUME NoValidBid(r, body[r].imps[k]), ~HouseAdDue(r, body[r].imps[k]),
              pos' = [pos EXCEPT ![r] = @ + 1], UNCHANGED <<pc, awards>>
       PROVE  DealOf(r)'
  <2>1. pos'[r] = k + 1
    BY <1>4, <1>12 DEF TypeInv, TypeOK, HandlerTypeOK
  <2>2. ~Sellable(r, k)
    BY <1>12 DEF Sellable, HouseAdDue
  <2>3. Deals(r)'
    BY <1>6, <1>12 DEF DealOf, Deals
  <2>4. \A i \in 1..MaxImps : i < k + 1 => i < k \/ i = k
    BY <1>3
  <2>5. Decided(r)'
    BY <1>1, <1>3, <1>4, <1>5, <1>6, <1>12, <2>1, <2>2, <2>4
       DEF DealOf, Decided
  <2> QED
    BY <1>7, <1>8, <2>3, <2>5 DEF DealOf
<1> QED
  BY <1>4, <1>10, <1>11, <1>12 DEF AuctionImp

LEMMA LoopKeepsDeal ==
  ASSUME TypeInv, Fresh, NEW r \in Requests, DealOf(r),
         PublishImpressionEvent(r) \/ FireNURL(r) \/ Respond(r)
  PROVE  DealOf(r)'
<1>1. /\ UNCHANGED <<body, pipelineVars, awards>>
      /\ pc[r] \in {"publish", "notify", "auction"}
  BY DEF PublishImpressionEvent, FireNURL, Respond, Answer
<1>2. /\ \A i : Sellable(r, i)' <=> Sellable(r, i)
      /\ \A i, award : WellAwarded(r, i, award)' <=> WellAwarded(r, i, award)
      /\ ImpsToProcess(r)' = ImpsToProcess(r)
  BY <1>1, InputsDecide DEF pipelineVars
<1>3. pc'[r] # "idle"
  BY DEF PublishImpressionEvent, FireNURL, NextImp, Respond, Answer,
         TypeInv, TypeOK, HandlerTypeOK
<1>4. Inputs(r)'
  BY <1>1, <1>3 DEF DealOf, Inputs, pipelineVars
<1>5. Deals(r)'
  BY <1>1, <1>2 DEF DealOf, Deals
<1>6. pos[r] \in Nat /\ ImpsToProcess(r) \in 1..MaxImps
  <2>1. body[r] \in BidRequests /\ body[r].valid
    BY <1>1 DEF TypeInv, Flow
  <2> QED
    BY <2>1, ImpsWithinBound DEF TypeInv, TypeOK, HandlerTypeOK
<1>7. CASE /\ pc[r] = "publish" /\ pc' = [pc EXCEPT ![r] = "notify"]
           /\ UNCHANGED <<pos, response>>
  <2>1. pc'[r] = "notify"
    BY <1>7 DEF TypeInv, TypeOK, HandlerTypeOK
  <2>2. Decided(r)'
    BY <1>1, <1>2, <1>7, <2>1 DEF DealOf, Decided
  <2>3. Answered(r)'
    BY <1>7, <2>1 DEF DealOf, Answered
  <2> QED
    BY <1>4, <1>5, <2>2, <2>3 DEF DealOf
<1>8. CASE /\ pc[r] \in {"publish", "notify"} /\ NextImp(r)
           /\ UNCHANGED response
  <2>1. pc'[r] = "auction" /\ pos'[r] = pos[r] + 1
    BY <1>8 DEF NextImp, TypeInv, TypeOK, HandlerTypeOK
  <2>2. \A i \in 1..MaxImps : i < pos[r] + 1 => i < pos[r] \/ i = pos[r]
    BY <1>6
  <2>3. awards[<<r, pos[r]>>] # None
    BY <1>8, NoneAssumption DEF TypeInv, Flow
  <2>4. pos[r] + 1 <= ImpsToProcess(r) + 1
    BY <1>6, <1>8 DEF DealOf, Decided
  <2>5. Decided(r)'
    BY <1>1, <1>2, <1>8, <2>1, <2>2, <2>3, <2>4 DEF DealOf, Decided
  <2>6. Answered(r)'
    BY <1>8, <2>1 DEF DealOf, Answered
  <2> QED
    BY <1>4, <1>5, <2>5, <2>6 DEF DealOf
<1>9. CASE Respond(r)
  <2>1. /\ pc[r] = "auction" /\ pos[r] > ImpsToProcess(r)
        /\ pc'[r] = "done"
        /\ response'[r] = IF Awarded(r) = {} THEN "204" ELSE "200"
    BY <1>9 DEF Respond, Answer, TypeInv, TypeOK, HandlerTypeOK
  <2>2. pos[r] = ImpsToProcess(r) + 1
    BY <1>6, <2>1 DEF DealOf, Decided
  <2>3. ASSUME NEW i \in 1..MaxImps
        PROVE  awards[<<r, i>>] # None <=> i <= ImpsToProcess(r) /\ Sellable(r, i)
    <3>1. CASE i <= ImpsToProcess(r)
      <4>1. i < pos[r]
        BY <1>6, <2>2, <3>1
      <4> QED
        BY <2>1, <3>1, <4>1 DEF DealOf, Decided
    <3>2. CASE ~(i <= ImpsToProcess(r))
      <4>1. ~(i < pos[r])
        BY <1>6, <2>2, <3>2
      <4>2. <<r, i>> \in Slots
        BY DEF Slots
      <4>3. awards[<<r, i>>] = None
        BY <2>1, <4>1, <4>2 DEF Fresh
      <4> QED
        BY <3>2, <4>3
    <3> QED
      BY <3>1, <3>2
  <2>4. Awarded(r)' = Awarded(r)
    BY <1>1 DEF Awarded
  <2>5. response'[r] = "204" <=> Awarded(r) = {}
    BY <2>1
  <2>6. Complete(r)'
    BY <1>1, <1>2, <2>3, <2>4, <2>5 DEF Complete
  <2>7. Decided(r)' /\ Answered(r)'
    BY <2>1, <2>6 DEF Decided, Answered
  <2> QED
    BY <1>4, <1>5, <2>7 DEF DealOf
<1>10. CASE PublishImpressionEvent(r)
  BY <1>7, <1>8, <1>10 DEF PublishImpressionEvent
<1>11. CASE FireNURL(r)
  BY <1>8, <1>11 DEF FireNURL
<1> QED
  BY <1>9, <1>10, <1>11

BidInv == TypeInv /\ SaleInv /\ ReportInv /\ DealInv

LEMMA NextDeal == BidInv /\ [Next]_vars => DealInv'
<1> SUFFICES ASSUME BidInv, [Next]_vars PROVE DealInv'
  OBVIOUS
<1> USE DEF BidInv
<1>1. ASSUME NEW r \in Requests, Receive(r) \/ RequestStep(r)
      PROVE  DealInv'
  <2>1. DealOf(r)'
    BY <1>1, ReceiveKeepsDeal, PipelineKeepsDeal, AuctionKeepsDeal,
       LoopKeepsDeal DEF RequestStep, DealInv, ReportInv
  <2>2. ASSUME NEW q \in Requests, q # r PROVE DealOf(q)'
    BY <1>1, <2>2, OthersSame, SameKeepsDeal DEF DealInv
  <2> QED
    BY <2>1, <2>2 DEF DealInv
<1>2. CASE UNCHANGED handlerVars
  <2>1. \A q \in Requests : Same(q)
    BY <1>2 DEF handlerVars, pipelineVars, Same
  <2> QED
    BY <2>1, SameKeepsDeal DEF DealInv
<1>3. CASE \E w \in EventWorkers : EventWorkerStep(w)
  BY <1>2, <1>3 DEF EventWorkerStep, TakeEvent, WriteMessage, WriteFails, GiveUp
<1>4. CASE \E w \in NurlWorkers : NurlWorkerStep(w)
  BY <1>2, <1>4 DEF NurlWorkerStep, TakeNotice, FireNotice, SkipNotice
<1>5. CASE UNCHANGED vars
  BY <1>2, <1>5 DEF vars
<1> QED
  BY <1>1, <1>3, <1>4, <1>5 DEF Next

LEMMA InitBid == Init => BidInv
BY InitTypeInv, InitSale, InitReport, InitDeal DEF BidInv

LEMMA NextBid == BidInv /\ [Next]_vars => BidInv'
BY NextTypeInv, NextSale, NextReport, NextDeal DEF BidInv

LEMMA BidInvariant == Spec => []BidInv
BY InitBid, NextBid, PTL DEF Spec

\* The award of a slot is well made.
LEMMA SlotAwarded ==
  ASSUME BidInv, NEW r \in Requests, NEW i \in 1..MaxImps,
         awards[<<r, i>>] # None
  PROVE  WellAwarded(r, i, awards[<<r, i>>]) /\ Accepted(r)
BY DEF BidInv, DealInv, DealOf, Deals, SaleInv

LEMMA NoticesInPlace == BidInv => NoticeAccounted
<1> SUFFICES ASSUME BidInv PROVE NoticeAccounted
  OBVIOUS
<1>1. \A s \in Slots :
        /\ NoticeAt(s, "queue") <=> s \in Queued(nurlQueue)
        /\ NoticeAt(s, "worker") <=> s \in Held(nurlWorker)
        /\ NoticeAt(s, "fired") <=> s \in Fired
        /\ NoticeAt(s, "missed") <=> s \in missed
  BY DEF NoticeAt, Queued, Held, Fired
<1>2. \A s \in Slots : Notified(s) <=> s \in Noticed
  BY DEF Noticed
<1>3. NoticePlaces = {"queue", "worker", "fired", "missed"}
  BY DEF NoticePlaces
<1>4. \A s \in Slots :
        Notified(s) <=> \E p \in NoticePlaces : NoticeAt(s, p)
  BY <1>1, <1>2, <1>3 DEF BidInv, ReportInv, NoticeInv, Partition
<1>5. ASSUME NEW s \in Slots, NEW p \in NoticePlaces, NEW q \in NoticePlaces,
             NoticeAt(s, p), NoticeAt(s, q)
      PROVE  p = q
  BY <1>1, <1>3, <1>5 DEF BidInv, ReportInv, NoticeInv, Partition
<1>6. ASSUME NEW s \in Slots, Notified(s) PROVE awards[s].seat \in DSPs
  BY <1>6, SlotParts, SlotAwarded DEF Notified, WellAwarded
<1> QED
  BY <1>4, <1>5, <1>6 DEF BidInv, ReportInv, NoticeInv, NoticeAccounted

LEMMA BidsForImpsOnly == BidInv => BidForItsImp
BY SlotAwarded DEF BidForItsImp, WellAwarded

\* An internal award comes from a campaign as it was read, which accepts the
\* request by the user's real segments.
LEMMA InternalAward ==
  ASSUME BidInv, NEW s \in Slots, awards[s] # None, awards[s].seat = Internal
  PROVE  \E read \in matchedCampaigns[s[1]] :
           /\ read \in CampaignReads /\ read.id = awards[s].deal
           /\ MatchesTargeting(read, body[s[1]].device, body[s[1]].segments)
<1>1. s[1] \in Requests /\ s[2] \in 1..MaxImps /\ s = <<s[1], s[2]>>
  BY SlotParts
<1>2. PICK read \in matchedCampaigns[s[1]] : read.id = awards[s].deal
  BY <1>1, SlotAwarded DEF WellAwarded
<1>3. read \in CampaignReads
  BY <1>1, <1>2 DEF BidInv, TypeInv, TypeOK, HandlerTypeOK
<1>4. MatchesTargeting(read, body[s[1]].device, body[s[1]].segments)
  BY <1>1, <1>2 DEF BidInv, DealInv, DealOf, Inputs
<1> QED
  BY <1>2, <1>3, <1>4

LEMMA OnTarget == BidInv => ServedOnlyOnTarget
<1> SUFFICES ASSUME BidInv, NEW s \in Slots, awards[s] # None,
                    awards[s].seat = Internal
             PROVE  \E c \in Campaigns, read \in matchedCampaigns[s[1]] :
                      /\ c.id = awards[s].deal /\ read.id = awards[s].deal
                      /\ read.rules \subseteq c.rules
                      /\ \A rule \in c.rules :
                           \/ rule \notin read.rules
                           \/ MatchesRule(rule, body[s[1]].device,
                                          body[s[1]].segments)
  BY DEF ServedOnlyOnTarget
<1>1. PICK read \in matchedCampaigns[s[1]] :
        /\ read \in CampaignReads /\ read.id = awards[s].deal
        /\ MatchesTargeting(read, body[s[1]].device, body[s[1]].segments)
  BY InternalAward
<1>2. PICK c \in Campaigns : read.id = c.id /\ read.rules \subseteq c.rules
  BY <1>1, ReadOfCampaign
<1> QED
  BY <1>1, <1>2 DEF MatchesTargeting

LEMMA NoBidForHouseAd == BidInv => HouseAdIsLastResort
<1> SUFFICES ASSUME BidInv, NEW r \in Requests, NEW i \in 1..MaxImps,
                    awards[<<r, i>>] # None, awards[<<r, i>>].seat = HouseAd
             PROVE  LET imp == body[r].imps[i]
                    IN  /\ \A b \in dspBids[r] :
                             b.imp = imp.id => b.price < imp.floor
                        /\ \A c \in matchedCampaigns[r] :
                             \/ ~c.hasCreative
                             \/ c.bidPriceCPM <= 0
                             \/ c.bidPriceCPM < imp.floor
  BY DEF HouseAdIsLastResort
<1> DEFINE imp == body[r].imps[i]
<1>1. NoValidBid(r, imp)
  BY SlotAwarded DEF WellAwarded
<1>2. \A b \in BidsForImp(r, imp) : ~(b.price >= imp.floor)
  BY <1>1 DEF NoValidBid, EnforceFloor
<1>3. imp.floor \in Int
  <2>1. i <= ImpsToProcess(r) /\ Accepted(r)
    BY SlotAwarded DEF WellAwarded
  <2>2. body[r] \in BidRequests
    BY DEF BidInv, SaleInv, DealInv, DealOf, Inputs
  <2>3. i \in 1..Len(body[r].imps) /\ body[r].imps \in Seq(Imps)
    BY <2>1, <2>2, ImpsWithinBound, LenProperties, SizesAssumption DEF Accepted
  <2>4. imp \in Imps
    BY <2>3, ElementOfSeq
  <2> QED
    BY <2>4 DEF Imps
<1>4. ASSUME NEW b \in dspBids[r], b.imp = imp.id PROVE b.price < imp.floor
  <2>1. b \in DSPBids
    BY DEF BidInv, TypeInv, TypeOK, HandlerTypeOK
  <2>2. b.price \in Int
    BY <2>1 DEF DSPBids
  <2>3. ~(b.price >= imp.floor)
    BY <1>2, <1>4 DEF BidsForImp
  <2> QED
    BY <1>3, <2>2, <2>3
<1>5. ASSUME NEW c \in matchedCampaigns[r]
      PROVE  \/ ~c.hasCreative
             \/ c.bidPriceCPM <= 0
             \/ c.bidPriceCPM < imp.floor
  <2>1. c \in CampaignReads
    BY DEF BidInv, TypeInv, TypeOK, HandlerTypeOK
  <2>2. c.bidPriceCPM \in Int
    BY <2>1, ReadOfCampaign
  <2>3. ASSUME c.hasCreative, c.bidPriceCPM > 0
        PROVE  ~(c.bidPriceCPM >= imp.floor)
    <3> DEFINE bid == [id |-> c.id, seat |-> Internal, imp |-> "",
                       dealType |-> "PG", price |-> c.bidPriceCPM,
                       nurl |-> FALSE]
    <3>1. bid \in BidsForImp(r, imp)
      BY <2>3 DEF BidsForImp, InternalBids
    <3>2. bid.price = c.bidPriceCPM
      OBVIOUS
    <3> HIDE DEF bid
    <3> QED
      BY <1>2, <3>1, <3>2
  <2> QED
    BY <1>3, <2>2, <2>3
<1> QED
  BY <1>4, <1>5

LEMMA AnswersComplete == BidInv => AnswerComplete
BY DEF BidInv, DealInv, DealOf, Answered, Complete, Sellable, AnswerComplete

(***************************************************************************)
(* Win notices: one place, one GET, and none for a DSP that did not win.   *)
(***************************************************************************)
THEOREM NoticesAccountedFor == Spec => []NoticeAccounted
BY NoticesInPlace, BidInvariant, PTL

(***************************************************************************)
(* Whatever was fetched for the other impressions, a DSP wins one by a bid *)
(* for its id and at its floor.                                            *)
(***************************************************************************)
THEOREM BidsStayWithTheirImp == Spec => []BidForItsImp
BY BidsForImpsOnly, BidInvariant, PTL

(***************************************************************************)
(* A campaign is served only to a request that accepts all of its rules    *)
(* that were read, whatever became of the other lookups.                   *)
(***************************************************************************)
THEOREM CampaignsServedOnTarget == Spec => []ServedOnlyOnTarget
BY OnTarget, BidInvariant, PTL

\* The campaign accepts the request by every rule it was created with.
ServedToItsAudience ==
  \A s \in Slots :
    awards[s] # None /\ awards[s].seat = Internal =>
      \E c \in Campaigns :
        /\ c.id = awards[s].deal
        /\ MatchesTargeting(c, body[s[1]].device, body[s[1]].segments)

(***************************************************************************)
(* The incomplete read is the only way off target: while the store hands   *)
(* every campaign over with all of its rules, a campaign is served only to *)
(* its audience, also when the segments were lost.                         *)
(***************************************************************************)
THEOREM CompleteReadsStayOnTarget ==
  ASSUME \A read \in CampaignReads : \A c \in Campaigns :
           read.id = c.id => read.rules = c.rules
  PROVE  Spec => []ServedToItsAudience
<1>1. ASSUME BidInv PROVE ServedToItsAudience
  <2> SUFFICES ASSUME NEW s \in Slots, awards[s] # None,
                      awards[s].seat = Internal
               PROVE  \E c \in Campaigns :
                        /\ c.id = awards[s].deal
                        /\ MatchesTargeting(c, body[s[1]].device,
                                            body[s[1]].segments)
    BY DEF ServedToItsAudience
  <2>1. PICK read \in CampaignReads :
          /\ read.id = awards[s].deal
          /\ MatchesTargeting(read, body[s[1]].device, body[s[1]].segments)
    BY <1>1, InternalAward
  <2>2. PICK c \in Campaigns : read.id = c.id
    BY ReadOfCampaign
  <2>3. read.rules = c.rules
    BY <2>2
  <2> QED
    BY <2>1, <2>2, <2>3 DEF MatchesTargeting
<1>2. BidInv => ServedToItsAudience
  BY <1>1
<1> QED
  BY <1>2, BidInvariant, PTL

(***************************************************************************)
(* A house ad means that no bid for the impression reached its floor.      *)
(***************************************************************************)
THEOREM HouseAdsAreLastResort == Spec => []HouseAdIsLastResort
BY NoBidForHouseAd, BidInvariant, PTL

(***************************************************************************)
(* When a request is answered, every impression to be processed has been   *)
(* decided, however many there are, and the status says whether any sold.  *)
(***************************************************************************)
THEOREM AnswersAreComplete == Spec => []AnswerComplete
BY AnswersComplete, BidInvariant, PTL
-----------------------------------------------------------------------------
(* Each step is a step of AwardReporting, or none that it can see. *)

EventAfter(s) ==
  IF awards[s] = None THEN "none"
  ELSE IF s \notin Reported THEN "due"
  ELSE IF s \in acked THEN "acked"
  ELSE IF s \in abandoned THEN "abandoned" ELSE "queued"

NoticeAfter(s) ==
  IF awards[s] = None \/ ~awards[s].notify THEN "none"
  ELSE IF s \notin Noticed THEN "due"
  ELSE IF fires[s] > 0 THEN "fired"
  ELSE IF fires[s] = 0 /\ s \in missed THEN "missed" ELSE "queued"

LEMMA Fates ==
  \A s \in Slots :
    /\ EventFate(s) = EventAfter(s) /\ EventFate(s)' = EventAfter(s)'
    /\ NoticeFate(s) = NoticeAfter(s) /\ NoticeFate(s)' = NoticeAfter(s)'
<1> SUFFICES ASSUME NEW s \in Slots
             PROVE  /\ EventFate(s) = EventAfter(s)
                    /\ EventFate(s)' = EventAfter(s)'
                    /\ NoticeFate(s) = NoticeAfter(s)
                    /\ NoticeFate(s)' = NoticeAfter(s)'
  OBVIOUS
<1>1. EventFate(s) = EventAfter(s)
  BY DEF EventFate, EventAfter, Reported, Published
<1>2. EventFate(s)' = EventAfter(s)'
  BY DEF EventFate, EventAfter, Reported, Published
<1>3. NoticeFate(s) = NoticeAfter(s)
  BY DEF NoticeFate, NoticeAfter, Noticed, Notified
<1>4. NoticeFate(s)' = NoticeAfter(s)'
  BY DEF NoticeFate, NoticeAfter, Noticed, Notified
<1> QED
  BY <1>1, <1>2, <1>3, <1>4

EventsKept  == \A s \in Slots : EventFate(s)' = EventFate(s)
NoticesKept == \A s \in Slots : NoticeFate(s)' = NoticeFate(s)
AnswersKept == \A r \in Requests : pc'[r] = "done" <=> pc[r] = "done"

EventBecomes(slot, fate) ==
  \A s \in Slots : EventFate(s)' = IF s = slot THEN fate ELSE EventFate(s)
NoticeBecomes(slot, fate) ==
  \A s \in Slots : NoticeFate(s)' = IF s = slot THEN fate ELSE NoticeFate(s)

\* What these say of the variables of AwardReporting.
LEMMA Mapped ==
  LET event  == [s \in Slots |-> EventFate(s)]
      notice == [s \in Slots |-> NoticeFate(s)]
      done   == {r \in Requests : pc[r] = "done"}
  IN  /\ EventsKept => event' = event
      /\ NoticesKept => notice' = notice
      /\ AnswersKept => done' = done
      /\ \A slot \in Slots : \A fate :
           /\ EventBecomes(slot, fate) => event' = [event EXCEPT ![slot] = fate]
           /\ NoticeBecomes(slot, fate) => notice' = [notice EXCEPT ![slot] = fate]
BY DEF EventsKept, NoticesKept, AnswersKept, EventBecomes, NoticeBecomes

LEMMA NothingSeen ==
  ASSUME EventsKept, NoticesKept, AnswersKept
  PROVE  UNCHANGED Reporting!vars
BY Mapped DEF Reporting!vars

LEMMA FatesKept ==
  ASSUME UNCHANGED awards, Reported' = Reported, Noticed' = Noticed
  PROVE  /\ UNCHANGED <<acked, abandoned>> => EventsKept
         /\ UNCHANGED <<fires, missed>> => NoticesKept
BY Fates DEF EventsKept, NoticesKept, EventAfter, NoticeAfter

\* The steps of a request before the loop, and after it.
LEMMA ReceiveImplements ==
  ASSUME BidInv, NEW r \in Requests, Receive(r) \/ Respond(r)
  PROVE  [Reporting!Next]_Reporting!vars
<1> USE DEF BidInv
<1>1. /\ pc[r] \in {"idle", "auction"}
      /\ UNCHANGED <<awards, eventVars, noticeVars>>
      /\ \E p \in {"pipeline", "done"} : pc' = [pc EXCEPT ![r] = p]
  BY DEF Receive, RejectMalformed, RejectNoConsent, RejectInvalid,
         StartPipeline, Respond, Answer
<1>2. Reported' = Reported /\ Noticed' = Noticed
  <2>1. ~PublishImpressionEvent(r) /\ ~FireNURL(r)
    BY <1>1 DEF PublishImpressionEvent, FireNURL
  <2> QED
    BY <2>1, SilentSteps DEF RequestStep, ReportInv
<1>3. EventsKept /\ NoticesKept
  BY <1>1, <1>2, FatesKept DEF eventVars, noticeVars
<1>4. PICK p \in {"pipeline", "done"} :
        \A q \in Requests : pc'[q] = IF q = r THEN p ELSE pc[q]
  BY <1>1 DEF TypeInv, TypeOK, HandlerTypeOK
<1>5. CASE p = "pipeline"
  <2>1. AnswersKept
    BY <1>1, <1>4, <1>5 DEF AnswersKept
  <2> QED
    BY <1>3, <2>1, NothingSeen
<1>6. CASE p = "done"
  <2>1. ASSUME NEW s \in Slots, s[1] = r
        PROVE  EventFate(s) # "due" /\ NoticeFate(s) # "due"
    <3>1. awards[s] # None => s[2] < pos[s[1]]
      BY <1>1, <2>1 DEF ReportInv, Fresh
    <3>2. awards[s] # None =>
            s \in Reported /\ (awards[s].notify => s \in Noticed)
      BY <3>1 DEF Reported, Noticed, Published, Notified
    <3> QED
      BY <3>2, Fates DEF EventAfter, NoticeAfter
  <2>2. {q \in Requests : pc[q] = "done"}' =
          {q \in Requests : pc[q] = "done"} \cup {r}
    BY <1>4, <1>6
  <2>3. Reporting!AnswerRequest(r)
    BY <1>1, <1>3, <2>1, <2>2, Mapped DEF Reporting!AnswerRequest
  <2> QED
    BY <2>3 DEF Reporting!Next
<1> QED
  BY <1>4, <1>5, <1>6

LEMMA FetchImplements ==
  ASSUME BidInv, NEW r \in Requests,
         \/ FetchUserSegments(r) \/ EvaluateCampaigns(r) \/ FetchBids(r)
         \/ JoinPipeline(r)
  PROVE  UNCHANGED Reporting!vars
<1> USE DEF BidInv
<1>1. /\ pc[r] = "pipeline"
      /\ UNCHANGED <<pos, awards, eventVars, noticeVars>>
      /\ pc' \in {pc, [pc EXCEPT ![r] = "auction"]}
  BY DEF FetchUserSegments, EvaluateCampaigns, FetchBids, Fetch, JoinPipeline
<1>2. Reported' = Reported /\ Noticed' = Noticed
  <2>1. ~PublishImpressionEvent(r) /\ ~FireNURL(r)
    BY <1>1 DEF PublishImpressionEvent, FireNURL
  <2> QED
    BY <2>1, SilentSteps DEF RequestStep, ReportInv
<1>3. AnswersKept
  BY <1>1 DEF AnswersKept, TypeInv, TypeOK, HandlerTypeOK
<1> QED
  BY <1>1, <1>2, <1>3, FatesKept, NothingSeen DEF eventVars, noticeVars

\* An award becomes due.
LEMMA AuctionImplements ==
  ASSUME BidInv, NEW r \in Requests, AuctionImp(r)
  PROVE  [Reporting!Next]_Reporting!vars
<1> USE DEF BidInv
<1>1. /\ pc[r] = "auction"
      /\ UNCHANGED <<eventVars, noticeVars>>
      /\ Reported' = Reported /\ Noticed' = Noticed
  BY AuctionKeepsReports DEF AuctionImp, ReportInv
<1>2. CASE UNCHANGED <<pc, awards>>
  <2>1. AnswersKept /\ EventsKept /\ NoticesKept
    BY <1>1, <1>2, FatesKept DEF AnswersKept, eventVars, noticeVars
  <2> QED
    BY <2>1, NothingSeen
<1>3. ASSUME NEW slot \in Slots, slot = <<r, pos[r]>>,
             NEW award \in Awards,
             awards' = [awards EXCEPT ![slot] = award],
             pc' = [pc EXCEPT ![r] = "publish"]
      PROVE  [Reporting!Next]_Reporting!vars
  <2>1. awards[slot] = None /\ slot[1] = r
    <3>1. pos[r] \in Nat
      BY DEF TypeInv, TypeOK, HandlerTypeOK
    <3> QED
      BY <1>1, <1>3, <3>1 DEF ReportInv, Fresh
  <2>2. slot \notin Reported /\ slot \notin Noticed
    BY <2>1 DEF Reported, Noticed, Published, Notified
  <2>3. \A s \in Slots : awards'[s] = IF s = slot THEN award ELSE awards[s]
    BY <1>3 DEF TypeInv, TypeOK, HandlerTypeOK
  <2>4. award # None /\ award.notify \in BOOLEAN
    BY <1>3, NoneAssumption DEF Awards
  <2>5. EventBecomes(slot, "due")
    <3> SUFFICES ASSUME NEW s \in Slots
                 PROVE  EventAfter(s)' = IF s = slot THEN "due" ELSE EventAfter(s)
      BY Fates DEF EventBecomes
    <3> QED
      BY <1>1, <2>2, <2>3, <2>4 DEF EventAfter, eventVars
  <2>6. /\ award.notify => NoticeBecomes(slot, "due")
        /\ ~award.notify => NoticesKept
    <3> SUFFICES ASSUME NEW s \in Slots
                 PROVE  NoticeAfter(s)' = IF s = slot /\ award.notify THEN "due"
                                          ELSE NoticeAfter(s)
      BY Fates DEF NoticeBecomes, NoticesKept
    <3> QED
      BY <1>1, <2>1, <2>2, <2>3, <2>4 DEF NoticeAfter, noticeVars
  <2>7. AnswersKept
    BY <1>1, <1>3 DEF AnswersKept, TypeInv, TypeOK, HandlerTypeOK
  <2>8. EventFate(slot) = "none" /\ pc[slot[1]] # "done"
    BY <1>1, <2>1, Fates DEF EventAfter
  <2>9. Reporting!Award(slot, award.notify)
    BY <2>4, <2>5, <2>6, <2>7, <2>8, Mapped DEF Reporting!Award
  <2> QED
    BY <2>4, <2>9 DEF Reporting!Next
<1> QED
  BY <1>2, <1>3, AuctionOutcome DEF TypeInv, TypeOK, HandlerInv

\* The event at hand is queued or, with the queue full, abandoned.
LEMMA PublishImplements ==
  ASSUME BidInv, NEW r \in Requests, PublishImpressionEvent(r)
  PROVE  Reporting!Next
<1> USE DEF BidInv
<1>1. PICK slot \in Slots \ Reported :
        /\ slot = <<r, pos[r]>> /\ Noticed' = Noticed
        /\ Reported' = Reported \cup {slot}
  BY PublishReports DEF ReportInv
<1>2. pc[r] = "publish" /\ UNCHANGED <<awards, acked, noticeVars>>
  BY DEF PublishImpressionEvent
<1>3. awards[slot] # None
  BY <1>1, <1>2, NoneAssumption DEF TypeInv, Flow
<1>4. slot \notin acked /\ slot \notin abandoned
  BY <1>1 DEF ReportInv, EventInv, Partition
<1>5. AnswersKept
  BY <1>2 DEF PublishImpressionEvent, NextImp, AnswersKept, TypeInv, TypeOK,
              HandlerTypeOK
<1>6. NoticesKept
  BY <1>1, <1>2, Fates DEF NoticesKept, NoticeAfter, noticeVars
<1>7. PICK fate \in {"queued", "abandoned"} :
        /\ fate = "queued" => abandoned' = abandoned
        /\ fate = "abandoned" => abandoned' = abandoned \cup {slot}
  BY <1>1 DEF PublishImpressionEvent
<1>8. EventBecomes(slot, fate)
  BY <1>1, <1>2, <1>3, <1>4, <1>7, Fates DEF EventBecomes, EventAfter
<1>9. EventFate(slot) = "due"
  BY <1>1, <1>3, Fates DEF EventAfter
<1>10. Reporting!HandOverEvent(slot, fate)
  BY <1>5, <1>6, <1>8, <1>9, Mapped DEF Reporting!HandOverEvent
<1> QED
  BY <1>10 DEF Reporting!Next

\* The notice at hand is queued or, with the queue full, missed.
LEMMA NotifyImplements ==
  ASSUME BidInv, NEW r \in Requests, FireNURL(r)
  PROVE  Reporting!Next
<1> USE DEF BidInv
<1>1. PICK slot \in Slots \ Noticed :
        /\ slot = <<r, pos[r]>> /\ Reported' = Reported
        /\ Noticed' = Noticed \cup {slot}
  BY NotifyReports DEF ReportInv
<1>2. pc[r] = "notify" /\ UNCHANGED <<awards, eventVars, fires>>
  BY DEF FireNURL
<1>3. awards[slot] # None /\ awards[slot].notify
  BY <1>1, <1>2, NoneAssumption DEF TypeInv, Flow
<1>4. slot \notin Fired /\ slot \notin missed
  BY <1>1 DEF ReportInv, NoticeInv, Partition
<1>5. fires[slot] = 0
  BY <1>4 DEF Fired, TypeInv, TypeOK, NoticeTypeOK
<1>6. AnswersKept
  BY <1>2 DEF FireNURL, NextImp, AnswersKept, TypeInv, TypeOK, HandlerTypeOK
<1>7. EventsKept
  BY <1>1, <1>2, FatesKept, Fates DEF EventsKept, EventAfter, eventVars
<1>8. PICK fate \in {"queued", "missed"} :
        /\ fate = "queued" => missed' = missed
        /\ fate = "missed" => missed' = missed \cup {slot}
  BY <1>1 DEF FireNURL
<1>9. NoticeBecomes(slot, fate)
  BY <1>1, <1>2, <1>3, <1>4, <1>5, <1>8, Fates DEF NoticeBecomes, NoticeAfter
<1>10. NoticeFate(slot) = "due" /\ EventFate(slot) # "due"
  <2>1. slot \in Reported
    BY <1>1, <1>2, <1>3 DEF Reported, Published
  <2> QED
    BY <1>1, <1>3, <2>1, Fates DEF EventAfter, NoticeAfter
<1>11. Reporting!HandOverNotice(slot, fate)
  BY <1>6, <1>7, <1>9, <1>10, Mapped DEF Reporting!HandOverNotice
<1> QED
  BY <1>11 DEF Reporting!Next

\* A worker settles what it holds, or does something that cannot be seen.
LEMMA EventWorkerImplements ==
  ASSUME BidInv, NEW w \in EventWorkers, EventWorkerStep(w)
  PROVE  [Reporting!Next]_Reporting!vars
<1> USE DEF BidInv
<1>1. UNCHANGED handlerVars /\ UNCHANGED noticeVars
  BY DEF EventWorkerStep, TakeEvent, WriteMessage, WriteFails, GiveUp
<1>2. Reported' = Reported /\ Noticed' = Noticed
  BY <1>1, WorkersKeepReports DEF ReportInv
<1>3. NoticesKept /\ AnswersKept /\ UNCHANGED awards
  BY <1>1, <1>2, FatesKept DEF handlerVars, noticeVars, AnswersKept
<1>4. CASE TakeEvent(w) \/ WriteFails(w)
  <2>1. EventsKept
    BY <1>2, <1>3, <1>4, FatesKept DEF TakeEvent, WriteFails
  <2> QED
    BY <1>3, <2>1, NothingSeen
<1>5. ASSUME NEW slot \in Slots, slot = eventWorker[w],
             NEW fate \in {"acked", "abandoned"},
             acked' = IF fate = "acked" THEN acked \cup {slot} ELSE acked,
             abandoned' = IF fate = "acked" THEN abandoned
                          ELSE abandoned \cup {slot}
      PROVE  [Reporting!Next]_Reporting!vars
  <2>1. slot \in Held(eventWorker)
    BY <1>5 DEF Held, InHand, TypeInv, TypeOK, EventTypeOK
  <2>2. slot \in Reported /\ slot \notin acked /\ slot \notin abandoned
    BY <2>1 DEF ReportInv, EventInv, Partition
  <2>3. awards[slot] # None
    BY <2>2 DEF Reported, Published
  <2>4. EventBecomes(slot, fate)
    BY <1>2, <1>3, <1>5, <2>2, <2>3, Fates DEF EventBecomes, EventAfter
  <2>5. EventFate(slot) = "queued"
    BY <2>2, <2>3, Fates DEF EventAfter
  <2>6. Reporting!SettleEvent(slot, fate)
    BY <1>3, <2>4, <2>5, Mapped DEF Reporting!SettleEvent
  <2> QED
    BY <2>6 DEF Reporting!Next
<1>6. CASE WriteMessage(w) \/ GiveUp(w)
  <2>1. PICK slot \in Slots : slot = eventWorker[w]
    BY <1>6 DEF WriteMessage, GiveUp, TypeInv, TypeOK, EventTypeOK
  <2> QED
    BY <1>5, <1>6, <2>1 DEF WriteMessage, GiveUp
<1> QED
  BY <1>4, <1>6 DEF EventWorkerStep

LEMMA NurlWorkerImplements ==
  ASSUME BidInv, NEW w \in NurlWorkers, NurlWorkerStep(w)
  PROVE  [Reporting!Next]_Reporting!vars
<1> USE DEF BidInv
<1>1. UNCHANGED handlerVars /\ UNCHANGED eventVars
  BY DEF NurlWorkerStep, TakeNotice, FireNotice, SkipNotice
<1>2. Reported' = Reported /\ Noticed' = Noticed
  BY <1>1, WorkersKeepReports DEF ReportInv
<1>3. EventsKept /\ AnswersKept /\ UNCHANGED awards
  BY <1>1, <1>2, FatesKept DEF handlerVars, eventVars, AnswersKept
<1>4. CASE TakeNotice(w)
  <2>1. NoticesKept
    BY <1>2, <1>3, <1>4, FatesKept DEF TakeNotice
  <2> QED
    BY <1>3, <2>1, NothingSeen
<1>5. ASSUME NEW slot \in Slots, slot = nurlWorker[w],
             NEW fate \in {"fired", "missed"},
             \A s \in Slots : fires'[s] = IF s = slot /\ fate = "fired"
                                          THEN fires[s] + 1 ELSE fires[s],
             missed' = IF fate = "fired" THEN missed ELSE missed \cup {slot}
      PROVE  [Reporting!Next]_Reporting!vars
  <2>1. slot \in Held(nurlWorker)
    BY <1>5 DEF Held, InHand, TypeInv, TypeOK, NoticeTypeOK
  <2>2. slot \in Noticed /\ slot \notin Fired /\ slot \notin missed
    BY <2>1 DEF ReportInv, NoticeInv, Partition
  <2>3. fires[slot] = 0
    BY <2>2 DEF Fired, TypeInv, TypeOK, NoticeTypeOK
  <2>4. awards[slot] # None /\ awards[slot].notify
    BY <2>2 DEF Noticed, Notified
  <2>5. NoticeBecomes(slot, fate)
    BY <1>2, <1>3, <1>5, <2>2, <2>3, <2>4, Fates
       DEF NoticeBecomes, NoticeAfter
  <2>6. NoticeFate(slot) = "queued"
    BY <2>2, <2>3, <2>4, Fates DEF NoticeAfter
  <2>7. Reporting!SettleNotice(slot, fate)
    BY <1>3, <2>5, <2>6, Mapped DEF Reporting!SettleNotice
  <2> QED
    BY <2>7 DEF Reporting!Next
<1>6. CASE FireNotice(w) \/ SkipNotice(w)
  <2>1. PICK slot \in Slots : slot = nurlWorker[w]
    BY <1>6 DEF FireNotice, SkipNotice, TypeInv, TypeOK, NoticeTypeOK
  <2>2. fires \in [Slots -> Nat]
    BY DEF TypeInv, TypeOK, NoticeTypeOK
  <2> QED
    BY <1>5, <1>6, <2>1, <2>2 DEF FireNotice, SkipNotice
<1> QED
  BY <1>4, <1>6 DEF NurlWorkerStep

LEMMA InitReporting == Init => Reporting!Init
<1> SUFFICES ASSUME Init PROVE Reporting!Init
  OBVIOUS
<1>1. \A s \in Slots : EventFate(s) = "none" /\ NoticeFate(s) = "none"
  BY Fates DEF EventAfter, NoticeAfter, Init
<1>2. {r \in Requests : pc[r] = "done"} = {}
  BY DEF Init
<1> QED
  BY <1>1, <1>2 DEF Reporting!Init

LEMMA NextReporting == BidInv /\ [Next]_vars => [Reporting!Next]_Reporting!vars
<1> SUFFICES ASSUME BidInv, [Next]_vars PROVE [Reporting!Next]_Reporting!vars
  OBVIOUS
<1>1. ASSUME NEW r \in Requests, Receive(r) \/ RequestStep(r)
      PROVE  [Reporting!Next]_Reporting!vars
  BY <1>1, ReceiveImplements, FetchImplements, AuctionImplements,
     PublishImplements, NotifyImplements DEF RequestStep
<1>2. ASSUME NEW w \in EventWorkers, EventWorkerStep(w)
      PROVE  [Reporting!Next]_Reporting!vars
  BY <1>2, EventWorkerImplements
<1>3. ASSUME NEW w \in NurlWorkers, NurlWorkerStep(w)
      PROVE  [Reporting!Next]_Reporting!vars
  BY <1>3, NurlWorkerImplements
<1>4. CASE UNCHANGED vars
  <2>1. UNCHANGED handlerVars /\ UNCHANGED eventVars /\ UNCHANGED noticeVars
    BY <1>4 DEF vars
  <2>2. Reported' = Reported /\ Noticed' = Noticed
    BY <2>1 DEF handlerVars, Reported, Noticed, Published, Notified
  <2>3. EventsKept /\ NoticesKept /\ AnswersKept
    BY <2>1, <2>2, FatesKept DEF handlerVars, eventVars, noticeVars, AnswersKept
  <2> QED
    BY <2>3, NothingSeen
<1> QED
  BY <1>1, <1>2, <1>3, <1>4 DEF Next

(***************************************************************************)
(* The bid path keeps the promise AwardReporting states: no answer leaves  *)
(* before the event and the notice of each of its awards are with, or were *)
(* refused by, their queues, and the fate of a report is settled once.     *)
(***************************************************************************)
THEOREM BidPathReportsAwards == Spec => ImplementsReporting
<1>1. Spec => Init /\ [][Next]_vars
  BY DEF Spec
<1> QED
  BY <1>1, InitReporting, NextReporting, BidInvariant, PTL
     DEF ImplementsReporting, Reporting!Spec
=============================================================================
