---------------------------- MODULE ServerProofs ----------------------------
(***************************************************************************)
(* What BidHandler guarantees holds in its process too, while the producer *)
(* is closed under the workers; and clicks answered 200 are stored.  For   *)
(* any number of requests, workers and clicks.                             *)
(***************************************************************************)
EXTENDS Server, BidHandlerProofs

\* A refused write leaves the handlers alone and counts one attempt.
LEMMA RefusalKeepsPromises ==
  ASSUME BidInv, NEW w \in EventWorkers, WriteRefused(w)
  PROVE  BidInv'
<1> USE DEF BidInv
<1>1. /\ UNCHANGED handlerVars /\ UNCHANGED noticeVars
      /\ UNCHANGED <<eventQueue, eventWorker, kafka, acked, abandoned>>
      /\ attempt[w] < MaxRetries
      /\ attempt' = [attempt EXCEPT ![w] = @ + 1]
  BY DEF WriteRefused, RetryLimit
<1>2. HandlerTypeOK' /\ NoticeTypeOK' /\ Flow' /\ SaleInv'
  BY <1>1 DEF handlerVars, pipelineVars, noticeVars, TypeInv, TypeOK,
              HandlerTypeOK, NoticeTypeOK, Flow, SaleInv, Accepted
<1>3. /\ attempt \in [EventWorkers -> 0..MaxRetries]
      /\ attempt' \in [EventWorkers -> 0..MaxRetries]
      /\ \A v \in EventWorkers : attempt[v] <= attempt'[v]
  BY <1>1, SizesAssumption DEF TypeInv, TypeOK, EventTypeOK
<1>4. EventTypeOK'
  BY <1>1, <1>3 DEF TypeInv, TypeOK, EventTypeOK
<1>5. TypeInv'
  BY <1>2, <1>4 DEF TypeInv, TypeOK
<1>6. Fresh' /\ EventInv' /\ NoticeInv'
  <2>1. Fresh' /\ Reported' = Reported /\ Noticed' = Noticed
    BY <1>1, WorkersKeepReports DEF ReportInv
  <2> QED
    BY <1>1, <2>1 DEF ReportInv, EventInv, NoticeInv, Fired, noticeVars
<1>7. KafkaInv'
  <2>1. \A v \in EventWorkers : eventWorker'[v] # None =>
          kafka'[eventWorker'[v]] <= attempt'[v]
    <3> SUFFICES ASSUME NEW v \in EventWorkers, eventWorker[v] # None
                 PROVE  kafka[eventWorker[v]] <= attempt'[v]
      BY <1>1
    <3>1. eventWorker[v] \in Slots /\ kafka[eventWorker[v]] \in Nat
      BY DEF TypeInv, TypeOK, EventTypeOK
    <3>2. kafka[eventWorker[v]] <= attempt[v]
      BY DEF ReportInv, KafkaInv
    <3>3. attempt[v] \in Nat /\ attempt'[v] \in Nat /\ attempt[v] <= attempt'[v]
      BY <1>3, SizesAssumption
    <3> QED
      BY <3>1, <3>2, <3>3
  <2> QED
    BY <1>1, <2>1 DEF ReportInv, KafkaInv
<1>8. DealInv'
  <2>1. \A q \in Requests : Same(q)
    BY <1>1 DEF handlerVars, pipelineVars, Same
  <2> QED
    BY <2>1, SameKeepsDeal DEF DealInv
<1> QED
  BY <1>2, <1>5, <1>6, <1>7, <1>8 DEF ReportInv

\* Every other step of the process is a step of the bid path or none at all.
LEMMA ProcessStep ==
  ASSUME [ServerNext]_serverVars
  PROVE  [Next]_vars \/ \E w \in EventWorkers : WriteRefused(w)
<1>1. ASSUME NEW r \in Requests, Accept(r) \/ Handle(r) PROVE Next
  BY <1>1 DEF Accept, Handle, Next
<1>2. ASSUME NEW w \in EventWorkers, Publish(w)
      PROVE  Next \/ WriteRefused(w)
  BY <1>2 DEF Publish, Serialise, Write, Drop, Next, EventWorkerStep
<1>3. ASSUME NEW w \in NurlWorkers, Notify(w) PROVE Next
  BY <1>3 DEF Notify, Next
<1>4. ASSUME NEW k \in Clicks, ClickArrives(k) \/ Track(k)
      PROVE  UNCHANGED vars
  BY <1>4 DEF ClickArrives, Track, ClickWrite, ClickRefused, ClickFails
<1>5. CASE Signal \/ Main
  BY <1>5 DEF Signal, Main, CloseImpressions, CloseClicks, ClosePool, CloseRedis,
              Exit, UnchangedByMain
<1>6. ASSUME NEW r \in Requests, AcquireConn(r) PROVE UNCHANGED vars
  BY <1>6 DEF AcquireConn
<1>7. ASSUME NEW a \in Admins, AdminQuery(a) \/ AdminReturns(a)
      PROVE  UNCHANGED vars
  BY <1>7 DEF AdminQuery, AdminReturns
<1>8. CASE UNCHANGED serverVars
  BY <1>8 DEF serverVars
<1> QED
  BY <1>1, <1>2, <1>3, <1>4, <1>5, <1>6, <1>7, <1>8 DEF ServerNext

LEMMA ServerInvariant == ServerSpec => []BidInv
<1>1. ServerInit => BidInv
  BY InitBid DEF ServerInit
<1>2. BidInv /\ [ServerNext]_serverVars => BidInv'
  BY ProcessStep, RefusalKeepsPromises, NextBid
<1> QED
  BY <1>1, <1>2, PTL DEF ServerSpec

(***************************************************************************)
(* Stopping the process breaks nothing that the bid path promises: queues  *)
(* and retries keep their limits, and no impression is sold below its      *)
(* floor, at whatever moment the writers and the stores are closed.        *)
(***************************************************************************)
THEOREM ServerKeepsPromises ==
  ServerSpec => [](TypeOK /\ SoldAtOrAboveFloor)
<1>1. BidInv => TypeOK /\ SoldAtOrAboveFloor
  BY DEF BidInv, TypeInv, SaleInv, Accepted, SoldAtOrAboveFloor
<1> QED
  BY <1>1, ServerInvariant, PTL

(***************************************************************************)
(* Every event and every notice is still in one place when the producer    *)
(* has been closed under the workers, and a write that the closed writer   *)
(* refused counts as one of the maxRetries.                                *)
(***************************************************************************)
THEOREM ServerLosesNoReport ==
  ServerSpec => [](EventAccounted /\ KafkaCopies /\ NoticeAccounted)
<1>1. BidInv => EventAccounted /\ KafkaCopies /\ NoticeAccounted
  BY EventsInPlace, CopiesWithinLimit, NoticesInPlace DEF BidInv
<1> QED
  BY <1>1, ServerInvariant, PTL

(***************************************************************************)
(* Answers that leave while main is stopping are as complete as any.       *)
(***************************************************************************)
THEOREM ServerAnswersComplete == ServerSpec => []AnswerComplete
BY AnswersComplete, ServerInvariant, PTL

(***************************************************************************)
(* The process keeps the promise of AwardReporting until it exits: closing *)
(* the writers neither revises a settled fate nor lets an answer out       *)
(* before its reports are handed over.                                     *)
(***************************************************************************)
THEOREM ServerReportsAwards == ServerSpec => ImplementsReporting
<1>1. ServerInit => Reporting!Init
  BY InitReporting DEF ServerInit
<1>2. ASSUME BidInv, NEW w \in EventWorkers, WriteRefused(w)
      PROVE  UNCHANGED Reporting!vars
  <2>1. UNCHANGED handlerVars /\ UNCHANGED <<acked, abandoned, noticeVars>>
    BY <1>2 DEF WriteRefused
  <2>2. Reported' = Reported /\ Noticed' = Noticed
    BY <1>2, <2>1, WorkersKeepReports DEF BidInv, ReportInv
  <2>3. EventsKept /\ NoticesKept /\ AnswersKept
    BY <2>1, <2>2, FatesKept DEF handlerVars, noticeVars, AnswersKept
  <2> QED
    BY <2>3, NothingSeen
<1>3. BidInv /\ [ServerNext]_serverVars => [Reporting!Next]_Reporting!vars
  BY <1>2, ProcessStep, NextReporting
<1> QED
  BY <1>1, <1>3, ServerInvariant, PTL
     DEF ServerSpec, ImplementsReporting, Reporting!Spec
-----------------------------------------------------------------------------
(* Clicks. *)

ClickStates == [at : {"none", "writing", "200", "500"},
                attempt : 0..MaxRetries, tries : Nat, copies : Nat]

\* Each earlier request for the click stored it at most MaxRetries times, and
\* the present one at most once per failed write.
Tallied(c) ==
  IF c.at = "writing"
  THEN \E t \in Nat : c.tries = t + 1 /\ c.copies <= MaxRetries * t + c.attempt
  ELSE c.attempt = 0 /\ c.copies <= MaxRetries * c.tries

ClickInv ==
  /\ click \in [Clicks -> ClickStates]
  /\ \A k \in Clicks : /\ Tallied(click[k])
                       /\ click[k].at = "200" => click[k].copies > 0

\* A click's record is replaced by one that is as it should be.
LEMMA ClickReplaced ==
  ASSUME ClickInv, NEW k \in Clicks, NEW c \in ClickStates,
         Tallied(c), c.at = "200" => c.copies > 0,
         click' = [click EXCEPT ![k] = c]
  PROVE  ClickInv'
BY DEF ClickInv, Tallied

LEMMA MoreRetries ==
  ASSUME NEW t \in Nat
  PROVE  MaxRetries * (t + 1) = MaxRetries * t + MaxRetries
BY SizesAssumption

\* The numbers of one request: t requests were made before it.
LEMMA OneMoreCopy ==
  ASSUME NEW c \in ClickStates, Tallied(c), c.at = "writing",
         NEW d \in ClickStates, d.tries = c.tries,
         NEW e \in {0, 1}, d.copies = c.copies + e,
         \/ d.at = "writing" /\ c.attempt + e <= d.attempt
         \/ d.at # "writing" /\ d.attempt = 0 /\ c.attempt + e <= MaxRetries
  PROVE  Tallied(d)
<1>1. PICK t \in Nat : c.tries = t + 1 /\ c.copies <= MaxRetries * t + c.attempt
  BY DEF Tallied
<1>2. MaxRetries * t \in Nat /\ MaxRetries * d.tries = MaxRetries * t + MaxRetries
  BY <1>1, MoreRetries, SizesAssumption
<1>3. CASE d.at = "writing"
  <2>1. d.copies <= MaxRetries * t + d.attempt
    BY <1>1, <1>2, <1>3 DEF ClickStates
  <2> QED
    BY <1>1, <1>3, <2>1 DEF Tallied
<1>4. CASE d.at # "writing"
  <2>1. d.copies <= MaxRetries * d.tries
    BY <1>1, <1>2, <1>4, SizesAssumption DEF ClickStates
  <2> QED
    BY <1>4, <2>1 DEF Tallied
<1> QED
  BY <1>3, <1>4

\* A request for a click starts or goes on as Click's arguments say.
LEMMA ClickStep ==
  ASSUME ClickInv, NEW k \in Clicks, ClickArrives(k) \/ Track(k)
  PROVE  ClickInv'
<1> DEFINE c == click[k]
<1>1. c \in ClickStates /\ Tallied(c)
  BY DEF ClickInv
<1>2. c.attempt \in 0..MaxRetries /\ c.tries \in Nat /\ c.copies \in Nat
  BY <1>1 DEF ClickStates
<1>3. CASE ClickArrives(k)
  <2> DEFINE d == Click("writing", 0, c.tries + 1, c.copies)
  <2>1. c.at # "writing" /\ click' = [click EXCEPT ![k] = d]
    BY <1>3 DEF ClickArrives
  <2>2. d \in ClickStates
    BY <1>2, SizesAssumption DEF ClickStates, Click
  <2>3. c.copies <= MaxRetries * c.tries
    BY <1>1, <2>1 DEF Tallied
  <2>4. MaxRetries * c.tries + 0 = MaxRetries * c.tries
    BY <1>2, MoreRetries, SizesAssumption
  <2>5. Tallied(d)
    BY <1>2, <2>3, <2>4 DEF Tallied, Click
  <2>6. d.at # "200"
    BY DEF Click
  <2> QED
    BY <2>1, <2>2, <2>5, <2>6, ClickReplaced
<1>4. ASSUME c.at = "writing", NEW e \in {0, 1},
             NEW at \in {"writing", "200", "500"}, NEW n \in 0..MaxRetries,
             Becomes(k, at, n, c.copies + e),
             at = "200" => e = 1,
             \/ at = "writing" /\ c.attempt + e <= n
             \/ at # "writing" /\ n = 0 /\ c.attempt + e <= MaxRetries
      PROVE  ClickInv'
  <2> DEFINE d == Click(at, n, c.tries, c.copies + e)
  <2>1. d \in ClickStates
    BY <1>2, <1>4 DEF ClickStates, Click
  <2>2. /\ d.at = at /\ d.attempt = n
        /\ d.tries = c.tries /\ d.copies = c.copies + e
    BY DEF Click
  <2>3. Tallied(d)
    BY <1>1, <1>4, <2>1, <2>2, OneMoreCopy
  <2>4. d.at = "200" => d.copies > 0
    BY <1>2, <1>4, <2>2
  <2>5. click' = [click EXCEPT ![k] = d]
    BY <1>4 DEF Becomes
  <2> QED
    BY <2>1, <2>3, <2>4, <2>5, ClickReplaced
<1>5. CASE ClickWrite(k)
  <2>1. c.at = "writing" /\ c.attempt < MaxRetries
    BY <1>5 DEF ClickWrite, RetryLimit
  <2>2. /\ 0 \in 0..MaxRetries
        /\ c.attempt + 1 \in 0..MaxRetries /\ c.attempt + 1 <= MaxRetries
    BY <1>2, <2>1, SizesAssumption
  <2>3. CASE Becomes(k, "200", 0, c.copies + 1)
    BY <1>4, <2>1, <2>2, <2>3
  <2>4. ASSUME NEW e \in {0, 1},
               Becomes(k, "writing", c.attempt + 1, c.copies + e)
        PROVE  ClickInv'
    <3>1. c.attempt + e <= c.attempt + 1
      BY <1>2, <2>4
    <3> QED
      BY <1>4, <2>1, <2>2, <2>4, <3>1
  <2> QED
    BY <1>5, <2>3, <2>4 DEF ClickWrite
<1>6. CASE ClickRefused(k)
  <2>1. /\ c.at = "writing" /\ c.attempt < MaxRetries
        /\ Becomes(k, "writing", c.attempt + 1, c.copies)
    BY <1>6 DEF ClickRefused, RetryLimit
  <2>2. /\ c.attempt + 1 \in 0..MaxRetries /\ c.attempt + 0 <= c.attempt + 1
        /\ c.copies + 0 = c.copies
    BY <1>2, <2>1, SizesAssumption
  <2> QED
    BY <1>4, <2>1, <2>2
<1>7. CASE ClickFails(k)
  <2>1. c.at = "writing" /\ Becomes(k, "500", 0, c.copies)
    BY <1>7 DEF ClickFails
  <2>2. /\ 0 \in 0..MaxRetries /\ c.attempt + 0 <= MaxRetries
        /\ c.copies + 0 = c.copies
    BY <1>2, SizesAssumption
  <2> QED
    BY <1>4, <2>1, <2>2
<1> QED
  BY <1>3, <1>5, <1>6, <1>7 DEF Track

LEMMA ClickInvariant == ServerSpec => []ClickInv
<1>1. ServerInit => ClickInv
  BY SizesAssumption DEF ServerInit, NoClick, Click, ClickInv, ClickStates, Tallied
<1>2. ClickInv /\ [ServerNext]_serverVars => ClickInv'
  <2> SUFFICES ASSUME ClickInv, [ServerNext]_serverVars PROVE ClickInv'
    OBVIOUS
  <2>1. CASE UNCHANGED click
    BY <2>1 DEF ClickInv
  <2>2. ASSUME NEW k \in Clicks, ClickArrives(k) \/ Track(k) PROVE ClickInv'
    BY <2>2, ClickStep
  <2>3. \/ UNCHANGED click
        \/ \E k \in Clicks : ClickArrives(k) \/ Track(k)
    <3>1. ASSUME NEW r \in Requests, Accept(r) \/ AcquireConn(r) \/ Handle(r)
          PROVE  UNCHANGED click
      BY <3>1 DEF Accept, AcquireConn, Handle
    <3>2. ASSUME NEW w \in EventWorkers, Publish(w) PROVE UNCHANGED click
      BY <3>2 DEF Publish, Serialise, Write, WriteRefused, Drop
    <3>3. ASSUME NEW w \in NurlWorkers, Notify(w) PROVE UNCHANGED click
      BY <3>3 DEF Notify
    <3>4. ASSUME Signal \/ Main PROVE UNCHANGED click
      BY <3>4 DEF Signal, Main, CloseImpressions, CloseClicks, ClosePool,
                  CloseRedis, Exit, UnchangedByMain
    <3>5. ASSUME NEW a \in Admins, AdminQuery(a) \/ AdminReturns(a)
          PROVE  UNCHANGED click
      BY <3>5 DEF AdminQuery, AdminReturns
    <3> QED
      BY <3>1, <3>2, <3>3, <3>4, <3>5 DEF ServerNext, serverVars
  <2> QED
    BY <2>1, <2>2, <2>3
<1> QED
  BY <1>1, <1>2, PTL DEF ServerSpec

(***************************************************************************)
(* Whatever Kafka does and whenever the producer is closed, a click that   *)
(* was answered 200 is in the topic, and is there at most maxRetries times *)
(* for each request that reported it.                                      *)
(***************************************************************************)
THEOREM ClicksAreStored == ServerSpec => []ClickStored
<1>1. ClickInv => ClickStored
  <2> SUFFICES ASSUME ClickInv, NEW k \in Clicks
               PROVE  /\ click[k].at = "200" => click[k].copies > 0
                      /\ click[k].copies <= MaxRetries * click[k].tries
    BY DEF ClickStored
  <2>1. click[k] \in ClickStates /\ Tallied(click[k])
    BY DEF ClickInv
  <2>2. CASE click[k].at = "writing"
    <3>1. PICK t \in Nat : /\ click[k].tries = t + 1
                           /\ click[k].copies <= MaxRetries * t + click[k].attempt
      BY <2>1, <2>2 DEF Tallied
    <3>2. MaxRetries * t \in Nat
          /\ MaxRetries * click[k].tries = MaxRetries * t + MaxRetries
      BY <3>1, MoreRetries, SizesAssumption
    <3> QED
      BY <2>1, <2>2, <3>1, <3>2, SizesAssumption DEF ClickStates
  <2> QED
    BY <2>1, <2>2 DEF Tallied, ClickInv
<1> QED
  BY <1>1, ClickInvariant, PTL
=============================================================================
