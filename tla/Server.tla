------------------------------- MODULE Server -------------------------------
(***************************************************************************)
(* The process around BidHandler: cmd/server/main.go from the signal to    *)
(* the exit, the event producer and the stores that it closes under the    *)
(* workers and handlers, the clicks of internal/handler/track.go that      *)
(* write through the same producer, and the request memory that the user   *)
(* ids of internal/identity/resolver.go point into.                        *)
(*                                                                         *)
(* Nobody tells handlers and workers to stop: they go on until main has    *)
(* returned.  Fiber, the Kafka client and pgxpool are external.            *)
(***************************************************************************)
EXTENDS BidHandler

CONSTANTS
  Clicks,     \* clicks, each reported through GET /track/click
  MaxTries,   \* bound on the requests a client sends for one click
  Admins,     \* calls of the campaign API, which query the database
  NoUser,     \* an absent header, cookie or field
  Other       \* whatever a later request puts where a user id was

ASSUME IdentityAssumption ==
  \A q \in BidRequests : q.valid =>
    {"header", "cookie", "userID", "anon"} \subseteq DOMAIN q
ASSUME ClicksAssumption ==
  MaxTries \in Nat \ {0} /\ Clicks \cap EventWorkers = {}
ASSUME AdminsAssumption == Admins \cap Requests = {}

VARIABLES
  phase,      \* of the process
  writing,    \* callers that Close found inside WriteMessages
  holding,    \* callers that have a connection of dbPool
  reported,   \* the user id in each serialised event
  click       \* the request for each click, and the copies in its topic

processVars == <<phase, writing, holding>>
serverVars  == <<vars, processVars, reported, click>>

Click(at, attempts, tries, copies) ==
  [at |-> at, attempt |-> attempts, tries |-> tries, copies |-> copies]

NoClick == Click("none", 0, 0, 0)

ServerInit ==
  /\ Init
  /\ phase = "serving"
  /\ writing = {}
  /\ holding = {}
  /\ reported = [s \in Slots |-> None]
  /\ click = [k \in Clicks |-> NoClick]

Alive == phase # "exited"

\* Whether the caller's writer, for impressions or for clicks, is closed.
Closed(caller) ==
  \/ phase \in {"closing clicks", "closing pool", "closing tracer"}
  \/ phase = "closing impressions" /\ caller \notin Clicks

\* A closed pool gives no connection away.
PoolOpen == phase \notin {"closing pool", "closing tracer", "exited"}

\* redisClient is closed too: what is looked up now is not found.
StoresClosed == phase = "closing tracer"

\* A closed writer finishes the calls it found and refuses new ones.
MayWrite(caller) == ~Closed(caller) \/ caller \in writing
-----------------------------------------------------------------------------
(* Identity. *)

\* The first of the four sources that names somebody.
Resolve(q) ==
  Head(SelectSeq(<<q.header, q.cookie, q.userID, q.anon>>,
                 LAMBDA id : id # NoUser))

\* Fiber returns headers and cookies as strings over the request's memory;
\* the field of the decoded body and the hash are strings of their own.
PointsIntoRequest(q) == q.header # NoUser \/ q.cookie # NoUser

\* What reading the user id of request r may give: once its handler has
\* returned, the next request may have been read into its memory.
UserIDs(r) ==
  {Resolve(body[r])} \cup
  IF pc[r] = "done" /\ PointsIntoRequest(body[r]) THEN {Other} ELSE {}
-----------------------------------------------------------------------------
(* The bid path in a live process. *)

\* The active campaigns are not in the cache: they are queried.  The queries
\* follow each other, each on a connection of its own, taken as one here.
AcquireConn(r) ==
  /\ PoolOpen
  /\ pc[r] = "pipeline" /\ "segments" \in fetched[r] /\ "campaigns" \notin fetched[r]
  /\ r \notin holding
  /\ holding' = holding \cup {r}
  /\ UNCHANGED <<vars, phase, writing, reported, click>>

\* The connection is back when the campaigns are there, or the query failed.
Handle(r) ==
  /\ Alive
  /\ RequestStep(r)
  /\ StoresClosed => UNCHANGED <<userSegments, matchedCampaigns>>
  /\ holding' = holding \ {q \in {r} : "campaigns" \in fetched'[q]}
  /\ UNCHANGED <<phase, writing, reported, click>>

Accept(r) ==
  /\ Alive
  /\ Receive(r)
  /\ UNCHANGED <<processVars, reported, click>>

Notify(w) ==
  /\ Alive
  /\ NurlWorkerStep(w)
  /\ UNCHANGED <<processVars, reported, click>>

\* The worker turns the event into JSON before it writes it.
Serialise(w) ==
  /\ Alive
  /\ TakeEvent(w)
  /\ LET slot == Head(eventQueue)
     IN  \E id \in UserIDs(slot[1]) :
           reported' = [reported EXCEPT ![slot] = id]
  /\ UNCHANGED <<processVars, click>>

Write(w) ==
  /\ Alive
  /\ MayWrite(w)
  /\ WriteMessage(w) \/ WriteFails(w)
  /\ writing' = writing \ {w}
  /\ UNCHANGED <<phase, holding, reported, click>>

\* The closed writer returns io.ErrClosedPipe, which is retried like any error.
WriteRefused(w) ==
  /\ Alive
  /\ ~MayWrite(w)
  /\ eventWorker[w] # None
  /\ attempt[w] < RetryLimit
  /\ attempt' = [attempt EXCEPT ![w] = @ + 1]
  /\ UNCHANGED <<eventQueue, eventWorker, kafka, acked, abandoned,
                 handlerVars, noticeVars, processVars, reported, click>>

Drop(w) ==
  /\ Alive
  /\ w \notin writing
  /\ GiveUp(w)
  /\ UNCHANGED <<processVars, reported, click>>

Publish(w) == Serialise(w) \/ Write(w) \/ WriteRefused(w) \/ Drop(w)
-----------------------------------------------------------------------------
(* HandleClick, which publishes while its client waits. *)

\* What the present request for the click has come to.
Becomes(k, at, attempts, copies) ==
  click' = [click EXCEPT ![k] = Click(at, attempts, click[k].tries, copies)]

\* A client sends a click, or repeats one that was answered 500.
ClickArrives(k) ==
  /\ Alive
  /\ click[k].at \in {"none", "500"}
  /\ click[k].tries < MaxTries
  /\ click' = [click EXCEPT ![k] =
                 Click("writing", 0, click[k].tries + 1, click[k].copies)]
  /\ UNCHANGED <<vars, processVars, reported>>

ClickWrite(k) ==
  /\ Alive
  /\ MayWrite(k)
  /\ click[k].at = "writing"
  /\ click[k].attempt < RetryLimit
  /\ \/ Becomes(k, "200", 0, click[k].copies + 1)
     \/ \E applied \in {0, 1} :
          Becomes(k, "writing", click[k].attempt + 1, click[k].copies + applied)
  /\ writing' = writing \ {k}
  /\ UNCHANGED <<vars, phase, holding, reported>>

ClickRefused(k) ==
  /\ Alive
  /\ ~MayWrite(k)
  /\ click[k].at = "writing"
  /\ click[k].attempt < RetryLimit
  /\ Becomes(k, "writing", click[k].attempt + 1, click[k].copies)
  /\ UNCHANGED <<vars, processVars, reported>>

\* Mutant of ClickFails: the error is dropped, as it is for impressions.
ClickFailsQuietly(k) ==
  /\ Alive
  /\ click[k].at = "writing" /\ click[k].attempt = RetryLimit
  /\ Becomes(k, "200", 0, click[k].copies)
  /\ UNCHANGED <<vars, processVars, reported>>

\* The retries are used up, or the server's shutdown cancels the context.
ClickFails(k) ==
  /\ Alive
  /\ k \notin writing
  /\ click[k].at = "writing"
  /\ click[k].attempt > 0
  /\ click[k].attempt = RetryLimit \/ phase # "serving"
  /\ Becomes(k, "500", 0, click[k].copies)
  /\ UNCHANGED <<vars, processVars, reported>>

Track(k) == ClickWrite(k) \/ ClickRefused(k) \/ ClickFails(k)
-----------------------------------------------------------------------------
(* The campaign API, as far as main waits for it. *)

AdminQuery(a) ==
  /\ PoolOpen
  /\ a \notin holding
  /\ holding' = holding \cup {a}
  /\ UNCHANGED <<vars, phase, writing, reported, click>>

\* The query is answered or fails, or the server's shutdown cancels it.
AdminReturns(a) ==
  /\ Alive
  /\ a \in holding
  /\ holding' = holding \ {a}
  /\ UNCHANGED <<vars, phase, writing, reported, click>>
-----------------------------------------------------------------------------
(* main, from the signal on. *)

Move(from, to) == phase = from /\ phase' = to
UnchangedByMain == UNCHANGED <<vars, holding, reported, click>>

\* app.Shutdown closes the listeners, whereupon server.Start returns.
Signal == Move("serving", "stopping") /\ UNCHANGED writing /\ UnchangedByMain

\* The deferred calls begin with eventProducer.Close: each writer in turn is
\* closed, and left when the calls found in it have ended.
CloseImpressions ==
  /\ Move("stopping", "closing impressions")
  /\ writing' \in SUBSET {w \in EventWorkers :
                            eventWorker[w] # None /\ attempt[w] < RetryLimit}
  /\ UnchangedByMain

CloseClicks ==
  /\ Move("closing impressions", "closing clicks")
  /\ writing = {}
  /\ writing' \in SUBSET {k \in Clicks : /\ click[k].at = "writing"
                                         /\ click[k].attempt < RetryLimit}
  /\ UnchangedByMain

\* The producer is closed: dbPool.Close is next.
ClosePool ==
  /\ Move("closing clicks", "closing pool")
  /\ writing = {}
  /\ UNCHANGED writing
  /\ UnchangedByMain

\* dbPool.Close returns when every connection is back; redisClient.Close and
\* the tracer's shutdown wait for nobody.
CloseRedis ==
  /\ Move("closing pool", "closing tracer")
  /\ holding = {}
  /\ UNCHANGED writing
  /\ UnchangedByMain

\* The tracer has shut down or its five seconds are over, and the log is
\* flushed: main returns, and everything that still runs ends.
Exit ==
  /\ Move("closing tracer", "exited")
  /\ UNCHANGED writing
  /\ UnchangedByMain

Main == CloseImpressions \/ CloseClicks \/ ClosePool \/ CloseRedis \/ Exit
-----------------------------------------------------------------------------
ServerNext ==
  \/ \E r \in Requests : Accept(r) \/ AcquireConn(r) \/ Handle(r)
  \/ \E w \in EventWorkers : Publish(w)
  \/ \E w \in NurlWorkers : Notify(w)
  \/ \E k \in Clicks : ClickArrives(k) \/ Track(k)
  \/ \E a \in Admins : AdminQuery(a) \/ AdminReturns(a)
  \/ Signal \/ Main

ServerSpec == ServerInit /\ [][ServerNext]_serverVars

\* The Go scheduler runs every handler and main, and every call in a handler
\* is bounded by a deadline.  Nothing is assumed of the workers.
FairServer ==
  /\ ServerSpec
  /\ \A r \in Requests : WF_serverVars(Handle(r))
  /\ WF_serverVars(Main)

\* The workers and the writes of clicks end too: 2s, 200ms, and the timeouts
\* of the Kafka client; and so do the queries of the campaign API, by their
\* answer or by the shutdown that cancels them.
WorkersRun ==
  /\ \A w \in EventWorkers : WF_serverVars(Publish(w))
  /\ \A w \in NurlWorkers : WF_serverVars(Notify(w))
  /\ \A k \in Clicks : WF_serverVars(Track(k))
  /\ \A a \in Admins : WF_serverVars(AdminReturns(a))

(***************************************************************************)
(* A bid request in the pipeline is answered although no worker ever runs, *)
(* unless main returns first, which waits for no answer: the handler waits *)
(* for neither queue.                                                      *)
(***************************************************************************)
AnsweredUnlessExited ==
  \A r \in Requests : pc[r] = "pipeline" ~> pc[r] = "done" \/ ~Alive

(***************************************************************************)
(* With workers that run, whatever Kafka and the DSPs do, every award is   *)
(* acknowledged or visibly abandoned, every notice fired or missed and     *)
(* every click answered, unless main returns first; and main does return   *)
(* after a signal, although it waits for the writes that each writer was   *)
(* closed under, and for the connections that bid requests and the         *)
(* campaign API have not yet given back to the pool.                       *)
(***************************************************************************)
EverythingSettles ==
  WorkersRun =>
    /\ \A s \in Slots :
         /\ awards[s] # None ~> s \in acked \cup abandoned \/ ~Alive
         /\ Notified(s) ~> fires[s] > 0 \/ s \in missed \/ ~Alive
    /\ \A k \in Clicks : click[k].at = "writing" ~>
                           click[k].at # "writing" \/ ~Alive
    /\ phase = "stopping" ~> ~Alive

(***************************************************************************)
(* A click answered with 200 is in the topic, also when the producer was   *)
(* being closed under its request; repeating a click after a 500 stores    *)
(* it again, but never more than maxRetries times per request.             *)
(***************************************************************************)
ClickStored ==
  \A k \in Clicks :
    /\ click[k].at = "200" => click[k].copies > 0
    /\ click[k].copies <= MaxRetries * click[k].tries

(***************************************************************************)
(* "Resolve returns a stable user identifier from the request"             *)
(* (resolver.go): an event names the user of its own request.              *)
(***************************************************************************)
EventNamesItsUser ==
  \A s \in Slots : reported[s] # None => reported[s] = Resolve(body[s[1]])
=============================================================================
