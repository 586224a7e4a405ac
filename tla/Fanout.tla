------------------------------- MODULE Fanout -------------------------------
(***************************************************************************)
(* internal/dsp/fanout.go: one FetchBids call, from starting a goroutine   *)
(* per client to the bids it returns, with the wait group, the buffered    *)
(* channel and the goroutine that closes it.                               *)
(*                                                                         *)
(* A client's FetchBid is external here: it ends with a batch of bids, or  *)
(* with one of the errors (no bid, timeout, invalid response, open         *)
(* circuit), all of which the goroutine treats alike.  A DSP that never    *)
(* answers makes it end, with a timeout, once the 50ms context is over.    *)
(***************************************************************************)
EXTENDS Integers, FiniteSets, Sequences, Functions

CONSTANTS
  DSPs,      \* demand partners that may be configured
  Offers     \* non-empty batches of bids a DSP may answer with

ASSUME DSPsAssumption == IsFiniteSet(DSPs)
ASSUME OffersAssumption == {} \notin Offers

VARIABLES
  clients,    \* the configured clients
  fetch,      \* each client's goroutine
  batch,      \* the bids it has fetched
  wg,         \* counter of the wait group
  results,    \* the channel: batches sent and not received, by client
  closed,     \* close(results) was called
  closer,     \* the goroutine that closes the channel
  main,       \* FetchBids itself
  allBids,    \* clients whose batches it has received, in order
  expired,    \* the deadline of the context has passed
  panicked    \* send on, or close of, a closed channel; negative wg

vars == <<clients, fetch, batch, wg, results, closed, closer, main, allBids,
          expired, panicked>>

Nothing == {}

Init ==
  /\ clients \in SUBSET DSPs
  /\ fetch = [d \in clients |-> "not started"]
  /\ batch = [d \in clients |-> Nothing]
  /\ wg = 0
  /\ results = <<>>
  /\ closed = FALSE
  /\ closer = "not started"
  /\ main = "starting"
  /\ allBids = <<>>
  /\ expired = FALSE
  /\ panicked = FALSE

\* make(chan []auction.Bid, len(f.clients))
Capacity == Cardinality(clients)

-----------------------------------------------------------------------------
(* FetchBids. *)

\* Mutant of StartFetch: wg.Add is forgotten.
StartFetchUncounted(d) ==
  /\ main = "starting"
  /\ fetch[d] = "not started"
  /\ fetch' = [fetch EXCEPT ![d] = "fetching"]
  /\ UNCHANGED <<clients, batch, wg, results, closed, closer, main, allBids,
                 expired, panicked>>

\* wg.Add(1) and go; which client is next does not matter.
StartFetch(d) ==
  /\ main = "starting"
  /\ fetch[d] = "not started"
  /\ fetch' = [fetch EXCEPT ![d] = "fetching"]
  /\ wg' = wg + 1
  /\ UNCHANGED <<clients, batch, results, closed, closer, main, allBids,
                 expired, panicked>>

\* The loop over the clients is over; the closer is started.
StartCloser ==
  /\ main = "starting"
  /\ \A d \in clients : fetch[d] # "not started"
  /\ closer' = "waiting"
  /\ main' = "receiving"
  /\ UNCHANGED <<clients, fetch, batch, wg, results, closed, allBids, expired,
                 panicked>>

\* Mutant of Receive: a batch takes the place of those before it.
ReceiveLast ==
  /\ main = "receiving"
  /\ results # <<>>
  /\ allBids' = <<Head(results)>>
  /\ results' = Tail(results)
  /\ UNCHANGED <<clients, fetch, batch, wg, closed, closer, main, expired,
                 panicked>>

Receive ==
  /\ main = "receiving"
  /\ results # <<>>
  /\ allBids' = Append(allBids, Head(results))
  /\ results' = Tail(results)
  /\ UNCHANGED <<clients, fetch, batch, wg, closed, closer, main, expired,
                 panicked>>

\* Mutant of Return: FetchBids does not wait for stragglers.
ReturnOnDeadline ==
  /\ main = "receiving"
  /\ results = <<>>
  /\ closed \/ expired
  /\ main' = "returned"
  /\ UNCHANGED <<clients, fetch, batch, wg, results, closed, closer, allBids,
                 expired, panicked>>

\* The range over results ends: the channel is drained and closed.  The
\* deferred cancel ends the context.
Return ==
  /\ main = "receiving"
  /\ results = <<>> /\ closed
  /\ main' = "returned"
  /\ expired' = TRUE
  /\ UNCHANGED <<clients, fetch, batch, wg, results, closed, closer, allBids,
                 panicked>>

-----------------------------------------------------------------------------
(* A client's goroutine. *)

FetchSucceeds(d) ==
  /\ fetch[d] = "fetching"
  /\ \E bids \in Offers : batch' = [batch EXCEPT ![d] = bids]
  /\ fetch' = [fetch EXCEPT ![d] = "sending"]
  /\ UNCHANGED <<clients, wg, results, closed, closer, main, allBids, expired,
                 panicked>>

\* Any error; the goroutine logs it and returns.
FetchFails(d) ==
  /\ fetch[d] = "fetching"
  /\ fetch' = [fetch EXCEPT ![d] = "leaving"]
  /\ UNCHANGED <<clients, batch, wg, results, closed, closer, main, allBids,
                 expired, panicked>>

FetchTimesOut(d) == expired /\ FetchFails(d)

\* results <- bids
Send(d) ==
  /\ fetch[d] = "sending"
  /\ IF closed
     THEN panicked' = TRUE /\ UNCHANGED results
     ELSE /\ Len(results) < Capacity
          /\ results' = Append(results, d)
          /\ UNCHANGED panicked
  /\ fetch' = [fetch EXCEPT ![d] = "leaving"]
  /\ UNCHANGED <<clients, batch, wg, closed, closer, main, allBids, expired>>

\* Mutant of Done: the goroutine returns early from an error without wg.Done.
DoneIfSent(d) ==
  /\ fetch[d] = "leaving"
  /\ wg' = IF batch[d] = Nothing THEN wg ELSE wg - 1
  /\ panicked' = (panicked \/ wg' < 0)
  /\ fetch' = [fetch EXCEPT ![d] = "done"]
  /\ UNCHANGED <<clients, batch, results, closed, closer, main, allBids,
                 expired>>

\* The deferred wg.Done.
Done(d) ==
  /\ fetch[d] = "leaving"
  /\ wg' = wg - 1
  /\ panicked' = (panicked \/ wg' < 0)
  /\ fetch' = [fetch EXCEPT ![d] = "done"]
  /\ UNCHANGED <<clients, batch, results, closed, closer, main, allBids,
                 expired>>

-----------------------------------------------------------------------------
\* Mutant of Close: wg.Wait is forgotten.
CloseAtOnce ==
  /\ closer = "waiting"
  /\ closed' = TRUE
  /\ closer' = "done"
  /\ UNCHANGED <<clients, fetch, batch, wg, results, main, allBids, expired,
                 panicked>>

\* wg.Wait returns, and the channel is closed.
Close ==
  /\ closer = "waiting"
  /\ wg = 0
  /\ closed' = TRUE
  /\ closer' = "done"
  /\ UNCHANGED <<clients, fetch, batch, wg, results, main, allBids, expired,
                 panicked>>

\* The 50ms, or the deadline or cancellation of the caller's context.
Expire ==
  /\ ~expired
  /\ expired' = TRUE
  /\ UNCHANGED <<clients, fetch, batch, wg, results, closed, closer, main,
                 allBids, panicked>>

Next ==
  \/ \E d \in clients : \/ StartFetch(d) \/ FetchSucceeds(d) \/ FetchFails(d)
                        \/ Send(d) \/ Done(d)
  \/ StartCloser \/ Receive \/ Return
  \/ Close
  \/ Expire

Spec == Init /\ [][Next]_vars

\* The scheduler runs every goroutine and time passes.  A DSP need not answer:
\* FetchSucceeds and FetchFails are not fair, only their end at the deadline.
FairSpec ==
  /\ Spec
  /\ WF_vars(StartCloser \/ Receive \/ Return) /\ WF_vars(Close)
  /\ WF_vars(Expire)
  /\ \A d \in DSPs :
       WF_vars(d \in clients /\ (StartFetch(d) \/ FetchTimesOut(d) \/ Send(d)
                                 \/ Done(d)))
-----------------------------------------------------------------------------
Stages == {"not started", "fetching", "sending", "leaving", "done"}

TypeOK ==
  /\ clients \subseteq DSPs
  /\ fetch \in [clients -> Stages]
  /\ batch \in [clients -> Offers \cup {Nothing}]
  /\ wg \in 0..Cardinality(clients)
  /\ results \in Seq(clients) /\ Len(results) <= Capacity
  /\ closed \in BOOLEAN /\ expired \in BOOLEAN /\ panicked \in BOOLEAN
  /\ closer \in {"not started", "waiting", "done"}
  /\ main \in {"starting", "receiving", "returned"}
  /\ allBids \in Seq(clients)

Received(d) == d \in Range(allBids)

(***************************************************************************)
(* FetchBids "collects all valid responses" (fanout.go:37): what it        *)
(* returns holds every batch that any client fetched, once, also those     *)
(* that came in after the deadline while others were still being waited    *)
(* for; and no goroutine is left behind.                                   *)
(***************************************************************************)
CollectsEverything ==
  main = "returned" =>
    \A d \in clients :
      /\ fetch[d] = "done"
      /\ Received(d) <=> batch[d] # Nothing
      /\ \A i, j \in DOMAIN allBids : allBids[i] = allBids[j] => i = j

(***************************************************************************)
(* The channel is closed after the last send and only once: in no order of *)
(* answers, sends and the closer does the process panic.                   *)
(***************************************************************************)
NeverPanics == ~panicked

(***************************************************************************)
(* FetchBids implements Demand: it returns once, when every client has     *)
(* failed, timed out or delivered, with the bids of all that delivered,    *)
(* and nothing a goroutine does later changes what was returned.           *)
(***************************************************************************)
Promise == INSTANCE Demand
  WITH say    <- [d \in clients |->
                    IF fetch[d] \in {"not started", "fetching"} THEN <<>>
                    ELSE <<batch[d]>>],
       result <- IF main # "returned" THEN <<>>
                 ELSE <<UNION {{d} \X batch[d] : d \in Range(allBids)}>>

ImplementsDemand == Promise!Spec

(***************************************************************************)
(* FetchBids returns although no DSP ever answers, and with no client      *)
(* configured at all.                                                      *)
(***************************************************************************)
FetchBidsReturns == <>(main = "returned")
=============================================================================
