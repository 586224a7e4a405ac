# A TLA+ model of the ad server

`src/` is a supply-side ad server in Go: it takes OpenRTB bid requests, asks
demand partners (DSPs) and its own campaigns for bids, runs an auction for each
impression, and reports what was sold to Kafka and to the winners. This
directory holds TLA+ modules of its core logic, TLC configurations that check
them on small instances, and theorems that TLAPS proves for every instance.
`PROJECT.json` lists the runs, the source lines that each definition stands
for, the hazards and the findings.

## The system

| Component | State | Operations | What makes it correct |
| --- | --- | --- | --- |
| Auction engine (`internal/auction`) | none | `RunAuction`, `EnforceFloor`, `Priority` | nothing is sold below the floor; the price does not depend on luck or on the winner's own bid |
| Bid handler (`internal/handler/bid.go`) | two bounded queues, two worker pools, the locals of every request | `HandleBid`, `eventWorker`, `nurlWorker` | each award is reported once, nobody waits for a queue, targeting holds on what was read |
| Targeting (`internal/campaign/service.go`) | none | `EvaluateTargeting` | all rules match, unknown users match no segment rule |
| Campaign repository and cache (`internal/campaign`) | three tables, two kinds of Redis keys | list, get, create, patch, add creative | nothing is invented by the cache; stale data goes away; a patch changes what it names |
| DSP fan-out (`internal/dsp/fanout.go`) | goroutines, wait group, channel of one call | `FetchBids` | every batch is returned, no panic, no hang |
| Circuit breaker (`internal/resilience`) | state and counts of one DSP | `Execute` around `FetchBid` | calls are counted in the generation they began in; the breaker is never stuck |
| Kafka producer (`internal/events`) | two writers, open or closed | `writeWithRetry`, `Close` | an acknowledged event is stored; retries are bounded; closing waits for the calls it finds and for no other |
| Click tracking (`internal/handler/track.go`) | none | `HandleClick` | a click answered 200 is stored |
| Identity (`internal/identity/resolver.go`) | none | `Resolve` | what is recorded of a request names its user |
| Rate limiter (`internal/resilience`) | counters in Redis | `Allow` | the limit per window; keys go away |
| `main`, server | the life of the process | start, signal, deferred calls | the process ends, although it waits for writes and connections; what it cuts off is known |
| Segment administration, middleware, configuration, metrics | none of their own | checks and one external call | - |

A bid request goes through them like this. `HandleBid` parses the body, resolves
the user id, checks consent, validates, and starts two goroutines: A reads the user's segments from
Redis and evaluates the active campaigns read through the campaign cache; B
calls `FetchBids`, which asks each DSP through its circuit breaker with 50ms
for all. When both are done, the loop over the impressions runs an auction for
each, over the DSPs' bids and one PG bid per matched campaign; the winner (or a
house ad) goes into the response, its impression event into the event queue,
and the winner's NURL into the notice queue. Both sends give up when the queue
is full. Workers shared by all requests drain the queues: one kind writes to
Kafka with retries, the other fires a single GET. Administrators change
campaigns concurrently with all of this, and clicks are written to Kafka while
their clients wait. On a signal the listeners are closed, whereupon `main`
runs its deferred calls: it closes the two Kafka writers, one after the other,
each of which waits for the writes it finds; the database pool, which waits for
every connection that is out; the Redis client and the tracer; and returns.
Handlers and workers run on until then, with fewer and fewer of these open.

The hard parts are: requests racing for the queues; events and notices that are
under way while the same request is still being auctioned; lost
acknowledgements; results of goroutines that arrive around a deadline; calls
that outlive the breaker's state; cache fills that land after an invalidation;
read-modify-write of a campaign through a cache; Redis or database calls that
fail half way; writers and a pool that are closed under their callers; strings
over memory that the web framework reuses. `PROJECT.json` lists them under `hazards`, each at its line and
with the properties that watch it.

## Modules

| Module | Models |
| --- | --- |
| `Auction` | `engine.go`, `floor.go`, `deal.go`: operators on sets of bids |
| `AuctionRun` | bids arriving in any order and one `RunAuction`; the auction's properties |
| `Targeting` | `service.go`: rule evaluation |
| `BidHandler` | `bid.go`, `segments.go`, `consent.go`, `house_ad.go`, `kafka_producer.go`; uses `Auction` and `Targeting` |
| `AwardReporting` | abstract: what `POST /bid` promises of each award; `BidHandler` implements it |
| `Server` | `BidHandler` inside its process: `main.go`, `track.go`, `resolver.go` and the closing of the producer and the pool |
| `CampaignCache` | `cache.go`, `repository.go` and the admin handlers of `campaign.go` |
| `Fanout` | `fanout.go`: one `FetchBids` call |
| `Demand` | abstract: what `FetchBids` promises; `Fanout` implements it |
| `RateLimiter` | `rate_limiter.go`, shared by all pods through Redis |
| `CircuitBreaker` | `circuit_breaker.go` and the library's state machine behind it |
| `AuctionTheorems`, and a `...Proofs` module each for `AuctionRun`, `BidHandler`, `Server`, `CampaignCache`, `Fanout`, `CircuitBreaker` and `RateLimiter` | theorems |
| `MC*` | the bodies, campaigns, bids and symmetry sets of the TLC instances |

**Auction.** A slice of bids is a set whose elements carry an id, because only
the unstable order of equal bids is left to chance: `Leaders` are the bids that
may come first after `sort.Slice`, and `RunAuction` is the set of results that
any such order gives. Prices are whole numbers of a unit of which `MinIncrement`
makes a cent, so that bids can be closer than the increment (two units in the
`auction` run); the binary rounding of `+ 0.01` on floats is not modelled.

**Targeting.** A device is what rules can see of it: the prefixes of its
address, and the strings that its User-Agent contains when both are lower-cased.

**BidHandler.** `pc` is the place of each request in `HandleBid`; the early
returns are `RejectMalformed`, `RejectNoConsent` and `RejectInvalid`, in the
code's order; `FetchUserSegments`, `EvaluateCampaigns` and `FetchBids` are the
two goroutines, `JoinPipeline` is `g.Wait`; `AuctionImp`,
`PublishImpressionEvent`, `FireNURL` are the body of the loop, one step each
because the queues are shared; `Respond` ends it. `TakeEvent`, `WriteMessage`,
`WriteFails`, `GiveUp` are an event worker inside `writeWithRetry` (a failed
write may have been applied); `TakeNotice`, `FireNotice`, `SkipNotice` are a
NURL worker. Events and notices are named by their slot `<<request, index>>`,
since all their fields are functions of the award. What the stores, the DSPs
and Kafka answer is nondeterministic. `ActiveReads` are the lists that
`GetActiveCampaigns` may return: campaigns with their creatives and rules, or
with fewer of them when a result set was cut short, whether read now or found in
the cache. The user id, which is resolved and logged before consent is looked
at, is no state of the handler; `Server` has it where it matters. `FireNotice`
is one call of `client.Do`: what `net/http` makes of a redirect or of a
connection that breaks is below it. `AwardReporting` knows only the fate of
each event and notice; the refinement mapping reads the fates off the queues,
the workers and the handlers.

**Server.** It extends `BidHandler` and takes each of its steps while the
process is alive. `phase` goes from serving through `Signal` (`app.Shutdown`
closes the listeners, `server.Start` returns) through the deferred calls of
`main` in their order: `CloseImpressions` and `CloseClicks`
(`eventProducer.Close`), `ClosePool` (`dbPool.Close`), `CloseRedis`
(`redisClient.Close`), and `Exit` after the tracer's shutdown, which is given
five seconds, and the flush of the log. A call that a closing writer finds
inside `WriteMessages` (`writing`) ends as usual and is waited for; any later
one is refused (`WriteRefused`) and retried like a failed write. A closed pool
gives no connection away, and its `Close` returns when the last one is back
(`holding`): `AcquireConn` is a bid request that finds no active campaigns in
the cache, which gives its connection back with the campaigns or a failure;
`AdminQuery` and `AdminReturns` are the campaign API, which `CampaignCache`
models for itself. (`GetActiveCampaigns` takes a connection for each of its
three queries; one hold stands for them, since a pool that closes between two
of them is a pool that closes before the first, with the same result, no
campaigns.) `main` waits neither for `app.Shutdown`, nor for handlers and
workers as such, so that they go on, with refused writes and then without
stores (`StoresClosed`), until `Exit` stops everything.
Clicks are `HandleClick`: the write is done while the client waits, a failed one
is answered 500, and the client may try again. `Resolve` picks the user id; one from a header or cookie is a string over Fiber's request memory,
so that what an event worker serialises after the handler has returned is
either the user or whatever stands there by then (`UserIDs`).

**CampaignCache.** Every Redis command and every SQL statement whose result can
change in between is a step of a call, so that calls interleave inside
`GetActiveCampaigns`, `GetCampaignByID`, `UpdateCampaign`, `AddCreative` and
`CreateCampaign`. `Faults` says whether Redis calls may fail (their errors are
dropped where the code drops them), and whether database calls may (a write may
be applied and still report an error; a result set may be cut short, which
`rows.Err` would tell and nobody asks). A row is its status and budget: the two
fields that a PATCH can name.

**Fanout.** The goroutine of each client, the closer and `FetchBids` itself
take turns; `wg`, the buffered channel and its closing are explicit, and a send
on a closed channel or a negative wait group sets `panicked`. In `Demand` each
client has one say and the call returns with all that was said; the mapping
takes a goroutine's batch for its say and the received batches for the result.

**CircuitBreaker.** The library (`gobreaker` 1.0.0) is external; its actions
are written from its documented behaviour under the settings of
`NewDSPCircuitBreaker`. Generations are not numbered: a call that began in an
earlier generation is `stale`, which is all that the code compares.

**RateLimiter.** Time is counted in ticks, a few to a minute, and a pod's clock
may be ahead by `Skew` of them; `Enter` computes the key of the minute, `Incr`
and `Expire` are the two commands, and `Tick` also lets Redis delete the keys
that are due. With `Faulty`, replies of INCR get lost and the Redis client sends
it again, INCR fails (the request is allowed) and EXPIRE fails (ignored).
Nothing sets the context value `client_ip`, so that all clients share one key
per minute.

## Runs

Each is `tlc -config <cfg> <module>`; states are distinct states.

| Run | cfg | What it shows |
| --- | --- | --- |
| `auction` | `MCAuctionRun.cfg` | 32 thousand states: all sets of up to three bids over four deal types and prices 0..4 with an increment of two, every floor, both clearing rules |
| `bid_safety` | `MCBidHandler_safety.cfg` | 614 thousand states: two requests of one impression, or one of two impressions, both auction types, two floors, ids that differ or not; every lookup result, campaigns read in full and cut short, queues of one place, one worker each, three writes per event |
| `server` | `MCServer.cfg` | 102 thousand states: a request of one or two impressions, a DSP that bids for none, both or the second, a click that is sent twice, a caller of the campaign API, a worker of each kind, a stop at any moment; implements `AwardReporting`; requests are answered, events, notices and clicks settle, and the process ends |
| `server_user_doc` | `MCServer_user_doc.cfg` | finding: an event that names another user |
| `cache_faults` | `MCCampaignCache_faults.cfg` | 163 thousand states: a campaign is created and then changed, with a GET and a list read; everything may fail |
| `cache_serial` | `MCCampaignCache_serial.cfg` | 695 thousand states: two changes one after the other, two list readers, no failure |
| `cache_patch_doc` | `MCCampaignCache_patch_doc.cfg` | finding: a lost update |
| `cache_rules_doc` | `MCCampaignCache_rules_doc.cfg` | finding: a campaign with too few rules |
| `limiter` | `MCRateLimiter.cfg` | 99 thousand states: three requests at a time, four in all, around the end of a minute of two ticks, clocks one tick apart |
| `limiter_expire_doc` | `MCRateLimiter_expire_doc.cfg` | finding: a key that never expires |
| `fanout` | `MCFanout.cfg` | 14 thousand states: none to three clients, batches of one and two bids; implements `Demand` |
| `breaker` | `MCCircuitBreaker.cfg` | 71 thousand states: three callers, two probes per trial, trip at three |

Why the bounds suffice. The auction's decision reads the first two of the sorted
bids; a third makes the rest of the slice non-trivial. Queues of one place are
full after one send, so that each drop happens, with two requests or two
impressions competing; the event of the second impression meets the first in
the worker's hands. The click is written, and written again after a 500, while
the impressions' writer is open, being closed or closed. Two retries tell the
first failure from the last. Two floors, two ids and a common one tell an
impression's own auction from its neighbour's, and reads with and without a
rule a campaign from what was read of it.
Two runs are cut by a `CONSTRAINT`, which drops arrivals only: in `bid_safety` a
request of two impressions has the process to itself (`WideAlone`; the race of
two requests for the queues is that of the requests of one impression, whose
users have no segments), and in
`server` a click is sent only beside a bid request of one impression
(`ClickBesideNarrow`; a click and a bid request meet only in the phases of the
process). Neither drops a state that a step of a handler, a worker or `main`
leads to, and no fairness is asked of arrivals, so that the properties, liveness
included, are checked for all behaviours of the clients that remain. One cached campaign shows every interleaving of fill, write and
invalidation, since the keys of different campaigns are independent, except in
the list, where `cache_serial` has two. Three clients give the channel a
sender, a straggler and a third while the closer waits. The breaker compares
counts with the two thresholds only; two probes and three counted calls reach
both sides of each. A minute of two ticks and clocks one tick apart let a key be used
before its minute by one pod and after it by another; two grants and a denial
fit into four requests. The constants `MaxImps`, `MaxPrice`, `MaxChanges`,
`MaxTries`, `MaxCounted`, `LastTick`, `MaxArrivals` and `Resends` bound the data, the prices,
the admin calls, the requests for one click, the counts of one generation of the breaker, and the limiter's
time, requests and repeated commands. `CHECK_DEADLOCK FALSE` stands where the
system comes to rest: all requests answered, the auction decided, `FetchBids`
returned, the limiter's time over, the process exited.

Fairness. `Server!FairServer` assumes only that started handlers and `main` run
(weak fairness of each request's steps: every call in them has a deadline).
Clients need not send anything, nobody need send a signal, and the workers are
not assumed to run: `AnsweredUnlessExited` says that handlers never depend on
them. `EverythingSettles` assumes fair workers explicitly (`WorkersRun => ...`),
which the Go scheduler, the deadlines of 2s and 200ms and the timeouts of the
Kafka client justify; the exit needs it too, because a closing writer waits for
the writes it finds. It also has the queries of the campaign API end
(`AdminReturns`), for `dbPool.Close` waits for their connections: they run under
the request's context, which the server's shutdown cancels. The queries of a bid
end with the 100ms of its request.
`CampaignCache!FairSpec` has every started call go on and Redis expire keys.
`Fanout!FairSpec` has goroutines run and the 50ms pass, but no DSP answer.
`CircuitBreaker!FairSpec` has time pass, calls end, and bid requests keep
coming. `RateLimiter!FairSpec` has time pass and calls end.

## What the properties found

Four statements of the repository disagree with what the code does:

- `resolver.go:21` promises a stable user identifier. One that comes from a
  header or a cookie is a string over memory that Fiber reuses for the next
  request on the connection, and the impression event keeps it in the queue
  after the handler has returned: the event may name somebody else. (An id from
  the body, or the anonymous one, is a string of its own.)
- `rate_limiter.go:101` ignores a failing EXPIRE because the key "will
  eventually expire anyway". Only the request that saw the count 1 sets the
  expiry: when its EXPIRE fails, or the reply to the first INCR is lost, the key
  stays for ever. (It does no harm to later minutes, whose keys differ:
  `GrantedWithinLimit` holds all the same.)
- `campaign.go:87` calls the body of a PATCH a partial update, but
  `UpdateCampaign` writes both columns from a struct read earlier: concurrent
  PATCHes of different fields lose one.
- `service.go:46` wants a campaign to match all its rules, but a rules query
  that is cut short goes unnoticed, and the campaign with the rules that were
  read is cached for all bids, which may serve it off its target:
  `ServedOnlyOnTarget` holds of the rules that were read, and
  `CompleteReadsStayOnTarget` proves that nothing else leads off target.

Smaller remarks, not the subject of a run: `engine.go:28` says the clearing
price is the second-highest bid plus $0.01, but the code takes the second bid in
the order of deal priority, so that a PG bid of 2.00 over open bids of 5.00 pays
5.01 (`OverchargeHasACause` says exactly when a winner pays more than it bid);
`README.md:753` lists a graceful shutdown with deferred closes, but these wait
only for the writes that are under way and for the connections of the pool, and
`main` then cuts off the requests that are being handled and the events and
notices that are queued (`AnsweredUnlessExited` and
`EverythingSettles` hold up to the exit only); `openrtb.go:33` calls the id of
an impression unique within its request and nothing checks it, so that
impressions which share an id are sold to the same bid, with one notice each
(`BidForItsImp` says that bids do not stray further); the lifecycle in
`README.md:309-318` has a body validated before consent is checked and the user
resolved after both, in the pipeline, but `bid.go:188-210` resolves the user's
id, keeps it for the request log and logs it before and in spite of a missing
consent, and validates last, so that a body that is invalid *and* lacks consent
is answered 200 with an empty response; a click answered 500 may
be in the topic, once per write, before its client repeats it; the
comment at `client.go:142` has `bytes.NewReader` copy the buffer, which it does
not; the limiter counts by fixed minutes,
though `rate_limiter.go:13` calls it a sliding window, so that twice the limit
passes within a minute around a minute's end; a house ad's price is not compared
with the floor that `openrtb.go:37` calls the minimum the publisher accepts;
the breaker needs strictly more than half of the calls to fail, so it stays
closed at exactly half; and a list read before an update can be stored after
that update's invalidation, to be served until its TTL ends
(`EventuallyFresh` says that it does end).

## What is proved

TLAPS checks every proof to its last leaf. Every safety property that a passing
run checks, invariant or action property, and both refinements are theorems, for
every value of the constants; what remains with TLC alone is liveness.

Each proof module has one inductive invariant, with a lemma per action (or group
of actions) that the step preserves it; each theorem is then a consequence of
that invariant, or of one step from it.

- `AuctionTheorems`: `NeverBelowFloor`, `TiesCostNothing`, `OwnBidIrrelevant`,
  for any set of bids with integer prices. The argument is about `Leaders`:
  leaders of a set agree in priority and price (`LeadersTie`), so any choice of
  winner and runner-up leaves the same second price.
- `AuctionRunProofs`, for any number of bids. `SettledInv`: the bids are finitely
  many, and what was decided is an outcome for the bids there are.
  - `SameAsSorting`. `Before` is a strict weak order (`BeforeOrders`), so that a
    finite nonempty set has a leader (`SomeLeader`), and a leader in front of a
    sorted slice of the others is a sorted slice (`Prepended`, `SomeSort`).
    Both are inductions on finite sets, carried out on a minimal counterexample:
    strict inclusion of finite sets is well-founded, and `WFMin` takes no
    operator. Conversely a sorted slice lists every bid, by counting
    (`SortedHeads`).
  - `FloorIsHonoured` needs `SomeLeader` for the half that says an impression
    with an acceptable bid is sold. `OverchargesAreExplained` and
    `OnlyRankCheapens` compare the runner-up with the winner, and with the
    runner-up before the bid came (`OneMoreBid`). `RunPriceIndependentOfTies`
    and `RunPriceIndependentOfOwnBid` are the theorems above in the run, the
    latter because the places of the slice hold one bid each (`OneBidPerId`).
- `BidHandlerProofs`, for any numbers of requests, impressions and workers, and
  any capacities. `BidInv` is the conjunction of four parts:
  - `TypeInv`. `TypeOK` alone is not inductive: to type a published event one
    must know that the loop is inside the body (`Flow`).
  - `SaleInv`: awards exist only where the request has an accepted body, so that
    a new body cannot lower an old award's floor. It gives
    `NeverSoldBelowFloor`.
  - `ReportInv`: an event that was published is in the queue once, with one
    worker, or done with, according to which slots the loop has passed; the same
    for notices; and the copies in the topic never exceed the writes that the
    worker that holds the event has counted. It gives `EventsAccountedFor`,
    `NoticesAccountedFor` and `CopiesBounded`.
  - `DealInv`: each award is what the auction may give for the request's own
    bids and campaigns, and the impressions up to the loop's place are decided.
    It gives `BidsStayWithTheirImp`, `CampaignsServedOnTarget`,
    `HouseAdsAreLastResort` and `AnswersAreComplete`. That campaigns are served
    on target is proved of the rules that were read, which are some of the
    campaign's (`ReadOfCampaign`); `CompleteReadsStayOnTarget` adds the
    hypothesis that reads are complete and concludes it of the campaign as it
    was created.
  - `BidPathReportsAwards`: `BidHandler` implements `AwardReporting`. Each step
    is mapped to a step of it or a stutter; that the fates read off the queues,
    the workers and the handlers are settled once rests on `BidInv`.
- `ServerProofs`, for any numbers of clicks and repetitions as well. `ProcessStep`
  shows that each step of the process is a step of `BidHandler`, leaves the bid
  path alone (the steps of `main`, of clicks and of the pool do), or is a write that a closed writer refuses, and
  `RefusalKeepsPromises` that the last one only counts an attempt; so `BidInv`
  holds in the process too (`ServerKeepsPromises`, `ServerLosesNoReport`,
  `ServerAnswersComplete`), and a refusal is a stutter or the give-up of
  `AwardReporting` (`ServerReportsAwards`). `ClicksAreStored` needs `Tallied`:
  `t` earlier requests for a click stored at most `MaxRetries * t` copies and
  the present one at most one per failed attempt.
- `CampaignCacheProofs`, for any campaigns and calls. `CacheInv`: what a call has
  read, and is going to cache or to merge a PATCH into, is a row that the
  database has had (`Sound`), and rows and creatives only accumulate (`Grows`).
  It gives `CacheTypeCorrect` and `OnlyStoredRowsAreCached`, whatever fails.
  - `ListsHaveAllRules` adds `RuleInv`: the ids that the first query returned
    have rows, and a row never appears without its rules, nor do these change
    (`RulesStay`). It assumes that no result set is cut short (`"db" \notin
    Faults`): with it the run `cache_rules_doc` shows the opposite.
  - `SerialPatchIsPartial` adds `SerialInv`: no `campaign:<id>` is stale but the
    one that the admin call is about to refresh, and the row which that call has
    in hand is the stored one. It assumes one admin call at a time, no GET of a
    campaign and no failure; `cache_patch_doc` shows what happens otherwise. Any
    number of bids may read and fill the list.
- `FanoutProofs`, for any finite set of clients. `FanoutInv`: the wait group
  counts the goroutines that are under way, the phases of `FetchBids`, its
  closer and the goroutines are in order, and each batch is in one place. It
  gives `FanoutNeverPanics`, `BufferIsEnough` (no goroutine ever waits for room
  in the channel), `EverythingIsCollected`, and the refinement of `Demand`
  (`FetchBidsImplementsDemand`).
- `CircuitBreakerProofs`, for any finite set of callers. `BreakerInv`: the counts
  add up with the calls in flight of the present generation, and in a trial all
  results so far are successes and too few to close.
- `RateLimiterProofs`, for any pods, requests, resends and limit. `LimiterInv`: a
  call under way is a tick old at most (`Timely`); a counter plus the INCRs that
  may still be applied is at most what has arrived may add (`Counted`); a key
  gets its expiry from one call only, and then outlives its window (`Keyed`).
  `Granted` says that the counter of a bucket that can still be counted in
  covers all that were granted in it. `LimitIsKept` and `DeniedMinutesStayClosed`
  assume `Skew < Window`: the code keeps a key for 120s, twice its minute, so
  that a pod whose clock is off by less than a minute never meets a key that has
  been deleted and is counted from 1 again. Clocks that are further apart are
  outside what the code's TTL provides for.

The other assumptions are the named `ASSUME`s of the modules, which TLC evaluates
in the runs: sizes are positive, prices are integers, a valid body has between
one and `MaxImps` impressions, the clients of a fan-out and the callers of a
breaker are finitely many (`DSPsAssumption`, `CallersAssumption`), a batch is not
empty (`OffersAssumption`: an empty one is not sent), a campaign is read with
its own id and price and no rule that it has not (`ActiveReadsAssumption`), and
`None` and the like are
none of the values that they stand in for. `SeatsAssumption` is one on the
operator: no DSP may be configured under the name `internal` or `house-ad`,
which `dsp/config.go` does not check; under the first name its wins would be
taken for campaigns and no notice be sent.

Only model-checked: liveness (`AnsweredUnlessExited`, `EverythingSettles`,
`EventuallyFresh`, `FetchBidsReturns`, `AskedAgain`), because fairness and
`ENABLED` are out of the prover's reach.

## Not modelled

- The pool of encoding buffers in `client.go`: whether a buffer is still being
  sent when it goes back to the pool depends on when the transport of `net/http`
  lets go of a request body, which nothing in `src/` shows.
- Segment administration: it checks its input and makes one external call;
  nothing is kept between calls. The lookup of segments may find them or not.
- Start-up: any failure in it ends the process before it serves.
- What `server` leaves to `bid_safety`: several requests, house ads, campaigns
  and early returns; there every event and notice settles or stays where it is.
- Middleware, configuration, metrics, logging, database setup: stateless,
  write-only or read once at start.
- Wording of responses, durations, no-bid reasons, the contents of creatives and
  of VAST or HTML mark-up: no property depends on them.

## Plan

Done, in this order because the auction decides the money and the handler holds
the concurrency: `Auction`, `AuctionRun`, `Targeting`, `BidHandler`,
`AwardReporting`, `CampaignCache`, `Fanout`, `CircuitBreaker`, `RateLimiter`,
the first theorems, `Server` and `Demand`; then the theorems for every safety
property of the runs and for both refinements. To come:

1. Proofs: that what `FetchBids` returns, as `Demand` states it, is one of the
   results that `BidHandler!FetchBids` allows, and that the lists which
   `CampaignCache` returns satisfy what `BidHandler!ActiveReadsAssumption`
   assumes, so that the theorems of the parts compose.
2. `Fanout` composed with the breakers that its clients share with the
   fan-outs of other requests.
