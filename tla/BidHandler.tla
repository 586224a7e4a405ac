----------------------------- MODULE BidHandler -----------------------------
(***************************************************************************)
(* internal/handler/bid.go: POST /bid from the parsed body to the answer,  *)
(* for any number of concurrent requests, with the two bounded queues they *)
(* share and the workers that drain them.                                  *)
(*                                                                         *)
(* A slot <<r, i>> is the i-th impression of request r.  What the handler  *)
(* puts into the response for a slot is its award; the impression event    *)
(* and the win notice of a slot are named by the slot, because all their   *)
(* fields are functions of the award.                                      *)
(*                                                                         *)
(* External parts are nondeterministic: what Redis, the campaign store and *)
(* the DSPs answer, whether a Kafka write is applied and whether its       *)
(* acknowledgement arrives.                                                *)
(***************************************************************************)
EXTENDS Auction, Targeting, Sequences

CONSTANTS
  Requests,         \* requests being served
  BidRequests,      \* bodies a client may send
  MaxImps,          \* bound on the impressions of one body
  Campaigns,        \* the campaigns that were created
  ActiveReads,      \* sets of campaigns that GetActiveCampaigns may return
  DSPs,             \* names of the configured demand partners
  FanoutResults,    \* sets of bids FetchBids may return
  EventWorkers, NurlWorkers,
  EventQueueCap, NurlQueueCap,
  MaxRetries,       \* maxRetries of the Kafka producer
  None,             \* no slot, no award, no body
  EnableMultiImp,   \* the ENABLE_MULTI_IMP environment flag
  HouseAdsEnabled, HouseAdPrice

Imps    == [id : STRING, floor : Nat]
DSPBids == [id : STRING, seat : DSPs, imp : STRING, dealType : {"Open"},
            price : Int, nurl : BOOLEAN]

ASSUME BidRequestsAssumption ==
  \A q \in BidRequests :
    /\ q.wellFormed \in BOOLEAN /\ q.consent \in BOOLEAN /\ q.valid \in BOOLEAN
    /\ q.valid => q.imps \in Seq(Imps) /\ Len(q.imps) \in 1..MaxImps
ASSUME CampaignsAssumption ==
  \A c \in Campaigns : c.id \in STRING /\ c.bidPriceCPM \in Int
\* A result set that is cut short leaves rules or creatives out, and nobody
\* asks rows.Err; and what was read may come from the cache.
ASSUME ActiveReadsAssumption ==
  \A active \in ActiveReads : \A read \in active : \E c \in Campaigns :
    /\ read.id = c.id /\ read.bidPriceCPM = c.bidPriceCPM
    /\ read.rules \subseteq c.rules
    /\ read.hasCreative \in BOOLEAN
ASSUME FanoutAssumption == \A bids \in FanoutResults : bids \subseteq DSPBids
ASSUME SizesAssumption ==
  /\ MaxImps \in Nat \ {0}      /\ MaxRetries \in Nat \ {0}
  /\ EventQueueCap \in Nat \ {0} /\ NurlQueueCap \in Nat \ {0}
ASSUME FlagsAssumption ==
  EnableMultiImp \in BOOLEAN /\ HouseAdsEnabled \in BOOLEAN
ASSUME HouseAdAssumption == HouseAdPrice \in Int
\* On the operator: ParseConfig takes any name for a DSP, these two included.
ASSUME SeatsAssumption == DSPs \cap {"internal", "house-ad"} = {}

Internal == "internal"
HouseAd  == "house-ad"
HouseDeal == "house-deal"

\* The campaigns as the store may hand them over.
CampaignReads == UNION ActiveReads

Slots  == Requests \X (1..MaxImps)
Awards == [seat : DSPs \cup {Internal, HouseAd},
           deal : STRING \cup {HouseDeal}, price : Int, notify : BOOLEAN]

ASSUME NoneAssumption == None \notin Slots \cup Awards \cup BidRequests

VARIABLES
  pc,           \* where each request's handler is
  body,         \* the request's parsed body
  fetched,      \* the pipeline results already written
  userSegments, matchedCampaigns, dspBids,   \* those results
  pos,          \* index of the impression being auctioned
  awards,       \* seatBidsMap, by slot
  response,     \* what the client was sent
  eventQueue,   \* channel of impression events
  eventWorker,  \* the event each event worker is publishing
  attempt,      \* writes that have failed for that event (i in writeWithRetry)
  kafka,        \* copies of each event in the impression topic
  acked,        \* events whose publishing returned nil
  abandoned,    \* events dropped on a full queue or given up by a worker
  nurlQueue,    \* channel of win notices
  nurlWorker,   \* the notice each NURL worker is firing
  fires,        \* calls of client.Do for each notice
  missed        \* notices dropped on a full queue

pipelineVars == <<fetched, userSegments, matchedCampaigns, dspBids>>
eventVars    == <<eventQueue, eventWorker, attempt, kafka, acked, abandoned>>
noticeVars   == <<nurlQueue, nurlWorker, fires, missed>>
handlerVars  == <<pc, body, pipelineVars, pos, awards, response>>
vars         == <<handlerVars, eventVars, noticeVars>>

Init ==
  /\ pc = [r \in Requests |-> "idle"]
  /\ body = [r \in Requests |-> None]
  /\ fetched = [r \in Requests |-> {}]
  /\ userSegments = [r \in Requests |-> {}]
  /\ matchedCampaigns = [r \in Requests |-> {}]
  /\ dspBids = [r \in Requests |-> {}]
  /\ pos = [r \in Requests |-> 1]
  /\ awards = [s \in Slots |-> None]
  /\ response = [r \in Requests |-> "none"]
  /\ eventQueue = <<>>
  /\ eventWorker = [w \in EventWorkers |-> None]
  /\ attempt = [w \in EventWorkers |-> 0]
  /\ kafka = [s \in Slots |-> 0]
  /\ acked = {}
  /\ abandoned = {}
  /\ nurlQueue = <<>>
  /\ nurlWorker = [w \in NurlWorkers |-> None]
  /\ fires = [s \in Slots |-> 0]
  /\ missed = {}
-----------------------------------------------------------------------------
(* HandleBid up to the pipeline. *)

\* Every early return and the end of the handler.
Answer(r, status) ==
  /\ pc' = [pc EXCEPT ![r] = "done"]
  /\ response' = [response EXCEPT ![r] = status]
  /\ UNCHANGED <<pipelineVars, pos, awards, eventVars, noticeVars>>

\* A body arrives; the checks stand in the order of the code.  A body that
\* parses has its user id resolved, put into Locals and logged before consent
\* is looked at, and whatever becomes of it; only segments and events use the
\* id, so that it is no state of its own.
RejectMalformed(r) ==
  /\ pc[r] = "idle"
  /\ \E q \in BidRequests : ~q.wellFormed /\ body' = [body EXCEPT ![r] = q]
  /\ Answer(r, "400")

RejectNoConsent(r) ==
  /\ pc[r] = "idle"
  /\ \E q \in BidRequests : /\ q.wellFormed /\ ~q.consent
                            /\ body' = [body EXCEPT ![r] = q]
  /\ Answer(r, "200 empty")

RejectInvalid(r) ==
  /\ pc[r] = "idle"
  /\ \E q \in BidRequests : /\ q.wellFormed /\ q.consent /\ ~q.valid
                            /\ body' = [body EXCEPT ![r] = q]
  /\ Answer(r, "400")

StartPipeline(r) ==
  /\ pc[r] = "idle"
  /\ \E q \in BidRequests : /\ q.wellFormed /\ q.consent /\ q.valid
                            /\ body' = [body EXCEPT ![r] = q]
  /\ pc' = [pc EXCEPT ![r] = "pipeline"]
  /\ UNCHANGED <<pipelineVars, pos, awards, response, eventVars, noticeVars>>

-----------------------------------------------------------------------------
(* The two goroutines of the pipeline and g.Wait. *)

Fetch(r, what) ==
  /\ pc[r] = "pipeline"
  /\ what \notin fetched[r]
  /\ fetched' = [fetched EXCEPT ![r] = @ \cup {what}]
  /\ UNCHANGED <<pc, body, pos, awards, response, eventVars, noticeVars>>

\* Goroutine A: the stored segments of the user, or none on a miss, an error,
\* an undecodable value or a timeout.
FetchUserSegments(r) ==
  /\ Fetch(r, "segments")
  /\ \E segs \in {{}, body[r].segments} :
       userSegments' = [userSegments EXCEPT ![r] = segs]
  /\ UNCHANGED <<matchedCampaigns, dspBids>>

\* Goroutine A, after the segments: the matching ones of the active campaigns
\* that the store hands over, complete or not; none when the read fails.
EvaluateCampaigns(r) ==
  /\ "segments" \in fetched[r]
  /\ Fetch(r, "campaigns")
  /\ \E active \in ActiveReads \cup {{}} :
       matchedCampaigns' = [matchedCampaigns EXCEPT ![r] =
         EvaluateTargeting(active, body[r].device, userSegments[r])]
  /\ UNCHANGED <<userSegments, dspBids>>

\* Goroutine B.
FetchBids(r) ==
  /\ Fetch(r, "bids")
  /\ \E bids \in FanoutResults : dspBids' = [dspBids EXCEPT ![r] = bids]
  /\ UNCHANGED <<userSegments, matchedCampaigns>>

JoinPipeline(r) ==
  /\ pc[r] = "pipeline"
  /\ fetched[r] = {"segments", "campaigns", "bids"}
  /\ pc' = [pc EXCEPT ![r] = "auction"]
  /\ UNCHANGED <<body, pipelineVars, pos, awards, response, eventVars,
                 noticeVars>>

-----------------------------------------------------------------------------
(* The loop over the impressions. *)

\* Internal bids take part in every auction of the request.
InternalBids(camps) ==
  {[id |-> c.id, seat |-> Internal, imp |-> "", dealType |-> "PG",
    price |-> c.bidPriceCPM, nurl |-> FALSE] :
     c \in {d \in camps : d.hasCreative /\ d.bidPriceCPM > 0}}

ImpsToProcess(r) == IF EnableMultiImp THEN Len(body[r].imps) ELSE 1

\* Mutants of BidsForImp: every bid takes part; the internal bids are forgotten.
BidsForImpAny(r, imp) == dspBids[r] \cup InternalBids(matchedCampaigns[r])

BidsForImpExternal(r, imp) == {b \in dspBids[r] : b.imp = imp.id}

BidsForImp(r, imp) ==
  {b \in dspBids[r] : b.imp = imp.id} \cup InternalBids(matchedCampaigns[r])

NoValidBid(r, imp) == EnforceFloor(BidsForImp(r, imp), imp.floor) = {}

\* The auction returns an error, and house ads are on.
HouseAdDue(r, imp) == NoValidBid(r, imp) /\ HouseAdsEnabled

Award(winner, price) ==
  [seat |-> winner.seat, deal |-> winner.id, price |-> price,
   notify |-> winner.seat # Internal /\ winner.nurl]

HouseAward == [seat |-> HouseAd, deal |-> HouseDeal,
               price |-> HouseAdPrice, notify |-> FALSE]

\* RunAuction for the current impression, and the fallback when it finds no
\* winner.
AuctionImp(r) ==
  /\ pc[r] = "auction"
  /\ pos[r] <= ImpsToProcess(r)
  /\ LET imp  == body[r].imps[pos[r]]
         slot == <<r, pos[r]>>
     IN  \/ \E res \in RunAuction(BidsForImp(r, imp), imp.floor, body[r].at) :
              /\ awards' = [awards EXCEPT ![slot] =
                              Award(res.winner, res.price)]
              /\ pc' = [pc EXCEPT ![r] = "publish"]
              /\ UNCHANGED pos
         \/ /\ HouseAdDue(r, imp)
            /\ awards' = [awards EXCEPT ![slot] = HouseAward]
            /\ pc' = [pc EXCEPT ![r] = "publish"]
            /\ UNCHANGED pos
         \/ /\ NoValidBid(r, imp) /\ ~HouseAdDue(r, imp)
            /\ pos' = [pos EXCEPT ![r] = @ + 1]
            /\ UNCHANGED <<pc, awards>>
  /\ UNCHANGED <<body, pipelineVars, response, eventVars, noticeVars>>

\* Mutant of NextImp: an impression is skipped.
NextImpSkipping(r) ==
  /\ pos' = [pos EXCEPT ![r] = @ + 2]
  /\ pc' = [pc EXCEPT ![r] = "auction"]

\* On to the next impression.
NextImp(r) ==
  /\ pos' = [pos EXCEPT ![r] = @ + 1]
  /\ pc' = [pc EXCEPT ![r] = "auction"]

\* Mutant of PublishImpressionEvent: a plain send, which blocks while the
\* queue is full.
PublishImpressionEventBlocking(r) ==
  LET slot == <<r, pos[r]>>
  IN  /\ pc[r] = "publish"
      /\ Len(eventQueue) < EventQueueCap
      /\ eventQueue' = Append(eventQueue, slot)
      /\ IF awards[slot].notify
         THEN pc' = [pc EXCEPT ![r] = "notify"] /\ UNCHANGED pos
         ELSE NextImp(r)
      /\ UNCHANGED <<body, pipelineVars, awards, response, eventWorker,
                     attempt, kafka, acked, abandoned, noticeVars>>

\* publishImpressionEvent: a send that gives up when the queue is full.
PublishImpressionEvent(r) ==
  LET slot == <<r, pos[r]>>
  IN  /\ pc[r] = "publish"
      /\ IF Len(eventQueue) < EventQueueCap
         THEN eventQueue' = Append(eventQueue, slot) /\ UNCHANGED abandoned
         ELSE abandoned' = abandoned \cup {slot} /\ UNCHANGED eventQueue
      /\ IF awards[slot].notify
         THEN pc' = [pc EXCEPT ![r] = "notify"] /\ UNCHANGED pos
         ELSE NextImp(r)
      /\ UNCHANGED <<body, pipelineVars, awards, response, eventWorker,
                     attempt, kafka, acked, noticeVars>>

\* fireNURL: the same for the win notice.
FireNURL(r) ==
  LET slot == <<r, pos[r]>>
  IN  /\ pc[r] = "notify"
      /\ IF Len(nurlQueue) < NurlQueueCap
         THEN nurlQueue' = Append(nurlQueue, slot) /\ UNCHANGED missed
         ELSE missed' = missed \cup {slot} /\ UNCHANGED nurlQueue
      /\ NextImp(r)
      /\ UNCHANGED <<body, pipelineVars, awards, response, eventVars,
                     nurlWorker, fires>>

Awarded(r) == {i \in 1..MaxImps : awards[<<r, i>>] # None}

Respond(r) ==
  /\ pc[r] = "auction"
  /\ pos[r] > ImpsToProcess(r)
  /\ Answer(r, IF Awarded(r) = {} THEN "204" ELSE "200")
  /\ UNCHANGED body

-----------------------------------------------------------------------------
(* eventWorker and the producer's writeWithRetry. *)

TakeEvent(w) ==
  /\ eventWorker[w] = None
  /\ eventQueue # <<>>
  /\ eventWorker' = [eventWorker EXCEPT ![w] = Head(eventQueue)]
  /\ eventQueue' = Tail(eventQueue)
  /\ attempt' = [attempt EXCEPT ![w] = 0]
  /\ UNCHANGED <<kafka, acked, abandoned, handlerVars, noticeVars>>

\* Mutant of RetryLimit: one write too many.
RetryLimitInclusive == MaxRetries + 1

\* The loop of writeWithRetry is left after this many failed writes.
RetryLimit == MaxRetries

\* The write is applied and acknowledged.
WriteMessage(w) ==
  LET slot == eventWorker[w]
  IN  /\ slot # None
      /\ attempt[w] < RetryLimit
      /\ kafka' = [kafka EXCEPT ![slot] = @ + 1]
      /\ acked' = acked \cup {slot}
      /\ eventWorker' = [eventWorker EXCEPT ![w] = None]
      /\ UNCHANGED <<eventQueue, attempt, abandoned, handlerVars, noticeVars>>

\* Mutant of WriteFails: every failed write counts the event as lost.
WriteFailsAbandoning(w) ==
  LET slot == eventWorker[w]
  IN  /\ slot # None
      /\ attempt[w] < RetryLimit
      /\ attempt' = [attempt EXCEPT ![w] = @ + 1]
      /\ abandoned' = abandoned \cup {slot}
      /\ UNCHANGED <<eventQueue, eventWorker, kafka, acked, handlerVars,
                     noticeVars>>

\* The write fails: refused, or applied with its acknowledgement lost.
WriteFails(w) ==
  LET slot == eventWorker[w]
  IN  /\ slot # None
      /\ attempt[w] < RetryLimit
      /\ \E applied \in {0, 1} :
           kafka' = [kafka EXCEPT ![slot] = @ + applied]
      /\ attempt' = [attempt EXCEPT ![w] = @ + 1]
      /\ UNCHANGED <<eventQueue, eventWorker, acked, abandoned, handlerVars,
                     noticeVars>>

\* Mutant of GiveUp: the worker returns from its loop on an error.
GiveUpAndStop(w) ==
  LET slot == eventWorker[w]
  IN  /\ slot # None
      /\ attempt[w] = RetryLimit
      /\ abandoned' = abandoned \cup {slot}
      /\ UNCHANGED <<eventQueue, eventWorker, attempt, kafka, acked,
                     handlerVars, noticeVars>>

\* Mutant of GiveUp: the event is dropped without a trace.
GiveUpSilently(w) ==
  LET slot == eventWorker[w]
  IN  /\ slot # None
      /\ attempt[w] > 0
      /\ eventWorker' = [eventWorker EXCEPT ![w] = None]
      /\ UNCHANGED <<eventQueue, attempt, kafka, acked, abandoned, handlerVars,
                     noticeVars>>

\* After a failed write the worker's two seconds are over, or it was the last
\* one allowed: the event is logged and forgotten.
GiveUp(w) ==
  LET slot == eventWorker[w]
  IN  /\ slot # None
      /\ attempt[w] > 0
      /\ abandoned' = abandoned \cup {slot}
      /\ eventWorker' = [eventWorker EXCEPT ![w] = None]
      /\ UNCHANGED <<eventQueue, attempt, kafka, acked, handlerVars,
                     noticeVars>>

-----------------------------------------------------------------------------
(* nurlWorker: a single GET, never repeated. *)

TakeNotice(w) ==
  /\ nurlWorker[w] = None
  /\ nurlQueue # <<>>
  /\ nurlWorker' = [nurlWorker EXCEPT ![w] = Head(nurlQueue)]
  /\ nurlQueue' = Tail(nurlQueue)
  /\ UNCHANGED <<fires, missed, handlerVars, eventVars>>

\* Mutant of FireNotice: a failed GET is put back into the queue.
FireNoticeRetrying(w) ==
  LET slot == nurlWorker[w]
  IN  /\ slot # None
      /\ fires' = [fires EXCEPT ![slot] = @ + 1]
      /\ nurlWorker' = [nurlWorker EXCEPT ![w] = None]
      /\ \/ UNCHANGED nurlQueue
         \/ nurlQueue' = Append(nurlQueue, slot)
      /\ UNCHANGED <<missed, handlerVars, eventVars>>

\* client.Do is called, once; its outcome is only logged.  (A redirect or a
\* connection that breaks may have net/http send the GET again.)
FireNotice(w) ==
  LET slot == nurlWorker[w]
  IN  /\ slot # None
      /\ fires' = [fires EXCEPT ![slot] = @ + 1]
      /\ nurlWorker' = [nurlWorker EXCEPT ![w] = None]
      /\ UNCHANGED <<nurlQueue, missed, handlerVars, eventVars>>

\* http.NewRequest rejects the URL.
SkipNotice(w) ==
  LET slot == nurlWorker[w]
  IN  /\ slot # None
      /\ missed' = missed \cup {slot}
      /\ nurlWorker' = [nurlWorker EXCEPT ![w] = None]
      /\ UNCHANGED <<nurlQueue, fires, handlerVars, eventVars>>

-----------------------------------------------------------------------------
RequestStep(r) ==
  \/ FetchUserSegments(r) \/ EvaluateCampaigns(r) \/ FetchBids(r)
  \/ JoinPipeline(r)
  \/ AuctionImp(r) \/ PublishImpressionEvent(r) \/ FireNURL(r)
  \/ Respond(r)

Receive(r) ==
  RejectMalformed(r) \/ RejectNoConsent(r) \/ RejectInvalid(r)
  \/ StartPipeline(r)

EventWorkerStep(w) ==
  TakeEvent(w) \/ WriteMessage(w) \/ WriteFails(w) \/ GiveUp(w)

NurlWorkerStep(w) == TakeNotice(w) \/ FireNotice(w) \/ SkipNotice(w)

Next ==
  \/ \E r \in Requests : Receive(r) \/ RequestStep(r)
  \/ \E w \in EventWorkers : EventWorkerStep(w)
  \/ \E w \in NurlWorkers : NurlWorkerStep(w)

Spec == Init /\ [][Next]_vars
-----------------------------------------------------------------------------
PCs == {"idle", "pipeline", "auction", "publish", "notify", "done"}
Responses == {"none", "400", "200 empty", "204", "200"}

HandlerTypeOK ==
  /\ pc \in [Requests -> PCs]
  /\ body \in [Requests -> BidRequests \cup {None}]
  /\ fetched \in [Requests -> SUBSET {"segments", "campaigns", "bids"}]
  /\ DOMAIN userSegments = Requests
  /\ matchedCampaigns \in [Requests -> SUBSET CampaignReads]
  /\ dspBids \in [Requests -> SUBSET DSPBids]
  /\ pos \in [Requests -> 1..MaxImps + 1]
  /\ awards \in [Slots -> Awards \cup {None}]
  /\ response \in [Requests -> Responses]

EventTypeOK ==
  /\ eventQueue \in Seq(Slots) /\ Len(eventQueue) <= EventQueueCap
  /\ eventWorker \in [EventWorkers -> Slots \cup {None}]
  /\ attempt \in [EventWorkers -> 0..MaxRetries]
  /\ kafka \in [Slots -> Nat]
  /\ acked \subseteq Slots /\ abandoned \subseteq Slots

NoticeTypeOK ==
  /\ nurlQueue \in Seq(Slots) /\ Len(nurlQueue) <= NurlQueueCap
  /\ nurlWorker \in [NurlWorkers -> Slots \cup {None}]
  /\ fires \in [Slots -> Nat]
  /\ missed \subseteq Slots

TypeOK == HandlerTypeOK /\ EventTypeOK /\ NoticeTypeOK

-----------------------------------------------------------------------------
(* Where an event or a notice can be. *)

Holds(queue, s)    == \E k \in DOMAIN queue : queue[k] = s
InHand(worker, s)  == \E w \in DOMAIN worker : worker[w] = s
NoRepeats(queue)   == \A j, k \in DOMAIN queue : queue[j] = queue[k] => j = k
OneHolder(worker)  == \A v, w \in DOMAIN worker :
                        worker[v] = worker[w] /\ worker[v] # None => v = w

EventPlaces == {"queue", "worker", "acked", "abandoned"}
EventAt(s, place) ==
  CASE place = "queue"     -> Holds(eventQueue, s)
    [] place = "worker"    -> InHand(eventWorker, s)
    [] place = "acked"     -> s \in acked
    [] place = "abandoned" -> s \in abandoned

NoticePlaces == {"queue", "worker", "fired", "missed"}
NoticeAt(s, place) ==
  CASE place = "queue"  -> Holds(nurlQueue, s)
    [] place = "worker" -> InHand(nurlWorker, s)
    [] place = "fired"  -> fires[s] > 0
    [] place = "missed" -> s \in missed

\* The handler has called publishImpressionEvent, and fireNURL, for the slot.
Published(s) ==
  /\ awards[s] # None
  /\ s[2] < pos[s[1]] \/ (s[2] = pos[s[1]] /\ pc[s[1]] = "notify")
Notified(s) ==
  /\ awards[s] # None
  /\ awards[s].notify
  /\ s[2] < pos[s[1]]

(***************************************************************************)
(* Every impression put into a response is reported through exactly one    *)
(* event, and no event is without its impression: while requests, workers  *)
(* and failed writes interleave, each event is in the queue, in one        *)
(* worker's hands, acknowledged, or abandoned, in one place and once.      *)
(***************************************************************************)
EventAccounted ==
  /\ NoRepeats(eventQueue) /\ OneHolder(eventWorker)
  /\ \A s \in Slots :
       /\ Published(s) <=> \E p \in EventPlaces : EventAt(s, p)
       /\ \A p, q \in EventPlaces : EventAt(s, p) /\ EventAt(s, q) => p = q

(***************************************************************************)
(* A lost acknowledgement makes writeWithRetry store the event again, but  *)
(* never more than maxRetries times; an acknowledged event is stored, and  *)
(* one that no worker has taken is not.                                    *)
(***************************************************************************)
KafkaCopies ==
  \A s \in Slots :
    /\ kafka[s] <= MaxRetries
    /\ s \in acked => kafka[s] > 0
    /\ kafka[s] > 0 =>
         InHand(eventWorker, s) \/ s \in acked \/ s \in abandoned

(***************************************************************************)
(* A DSP is called for each impression it won by a bid with a NURL at most *)
(* once, and for no other: a notice is in one place, client.Do is called   *)
(* once for it, and the winner in the response is a DSP.                   *)
(***************************************************************************)
NoticeAccounted ==
  /\ NoRepeats(nurlQueue) /\ OneHolder(nurlWorker)
  /\ \A s \in Slots :
       /\ fires[s] <= 1
       /\ Notified(s) <=> \E p \in NoticePlaces : NoticeAt(s, p)
       /\ \A p, q \in NoticePlaces : NoticeAt(s, p) /\ NoticeAt(s, q) => p = q
       /\ Notified(s) => awards[s].seat \in DSPs

(***************************************************************************)
(* A house ad is served for an impression only when neither a DSP's bid    *)
(* for it nor a matched campaign reaches its floor.                        *)
(***************************************************************************)
HouseAdIsLastResort ==
  \A r \in Requests : \A i \in 1..MaxImps :
    awards[<<r, i>>] # None /\ awards[<<r, i>>].seat = HouseAd =>
      LET imp == body[r].imps[i]
      IN  /\ \A b \in dspBids[r] : b.imp = imp.id => b.price < imp.floor
          /\ \A c \in matchedCampaigns[r] :
               \/ ~c.hasCreative
               \/ c.bidPriceCPM <= 0
               \/ c.bidPriceCPM < imp.floor

(***************************************************************************)
(* A DSP wins an impression only by a bid that it made for that            *)
(* impression's id and at its floor, and the notice it gets is that bid's: *)
(* the bids of one fan-out, which the loop reads again for every           *)
(* impression, do not stray from one auction into another.                 *)
(***************************************************************************)
BidForItsImp ==
  \A r \in Requests : \A i \in 1..MaxImps :
    LET award == awards[<<r, i>>]
    IN  award # None /\ award.seat \in DSPs =>
          \E b \in dspBids[r] :
            /\ b.imp = body[r].imps[i].id /\ b.price >= body[r].imps[i].floor
            /\ <<b.seat, b.id, b.nurl>> = <<award.seat, award.deal, award.notify>>

(***************************************************************************)
(* An impression that was auctioned is sold at or above the floor of that  *)
(* impression, in either auction type.                                     *)
(***************************************************************************)
SoldAtOrAboveFloor ==
  \A r \in Requests : \A i \in 1..MaxImps :
    awards[<<r, i>>] # None /\ awards[<<r, i>>].seat # HouseAd =>
      awards[<<r, i>>].price >= body[r].imps[i].floor

(***************************************************************************)
(* Targeting fails closed on what was read: a campaign is served only to a *)
(* request that accepts all those of its rules which the store handed      *)
(* over, judged by the user's real segments, also when the lookup of the   *)
(* segments failed or timed out.  Off its target a campaign can be served  *)
(* only by a rule that a result set cut short has left out.                *)
(***************************************************************************)
ServedOnlyOnTarget ==
  \A s \in Slots :
    awards[s] # None /\ awards[s].seat = Internal =>
      \E c \in Campaigns, read \in matchedCampaigns[s[1]] :
        /\ c.id = awards[s].deal /\ read.id = awards[s].deal
        /\ read.rules \subseteq c.rules
        /\ \A rule \in c.rules :
             \/ rule \notin read.rules
             \/ MatchesRule(rule, body[s[1]].device, body[s[1]].segments)

(***************************************************************************)
(* When the handler answers a valid request, every impression it had to    *)
(* process is decided on all the bids fetched: it has an award unless no   *)
(* bid was valid and house ads are off.  The others have none, and 204 is  *)
(* sent exactly when there is no award at all.                             *)
(***************************************************************************)
AnswerComplete ==
  \A r \in Requests : response[r] \in {"200", "204"} =>
    /\ \A i \in 1..MaxImps :
         awards[<<r, i>>] # None <=>
           /\ i <= ImpsToProcess(r)
           /\ HouseAdsEnabled \/ ~NoValidBid(r, body[r].imps[i])
    /\ response[r] = "204" <=> Awarded(r) = {}

(***************************************************************************)
(* The fates of AwardReporting, read off the handlers, queues and workers. *)
(***************************************************************************)
EventFate(s) ==
  CASE awards[s] = None -> "none"
    [] awards[s] # None /\ ~Published(s) -> "due"
    [] Published(s) /\ s \in acked -> "acked"
    [] Published(s) /\ s \in abandoned \ acked -> "abandoned"
    [] OTHER -> "queued"

NoticeFate(s) ==
  CASE awards[s] = None -> "none"
    [] awards[s] # None /\ ~awards[s].notify -> "none"
    [] awards[s] # None /\ awards[s].notify /\ ~Notified(s) -> "due"
    [] Notified(s) /\ fires[s] > 0 -> "fired"
    [] Notified(s) /\ fires[s] = 0 /\ s \in missed -> "missed"
    [] OTHER -> "queued"

Reporting == INSTANCE AwardReporting
  WITH event    <- [s \in Slots |-> EventFate(s)],
       notice   <- [s \in Slots |-> NoticeFate(s)],
       answered <- {r \in Requests : pc[r] = "done"}

(***************************************************************************)
(* BidHandler implements AwardReporting: a response leaves only when every *)
(* award in it has been handed to, or refused by, both queues; no fate is  *)
(* ever revised.                                                           *)
(***************************************************************************)
ImplementsReporting == Reporting!Spec
=============================================================================
