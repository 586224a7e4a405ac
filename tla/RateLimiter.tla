----------------------------- MODULE RateLimiter -----------------------------
(***************************************************************************)
(* internal/resilience/rate_limiter.go: the limiter that all requests of   *)
(* all pods share through Redis.  Nothing sets the context value           *)
(* "client_ip", so that there is one client key, "global", and a key per   *)
(* minute: the bucket.                                                     *)
(*                                                                         *)
(* Time passes in ticks, Window of them to a minute.  A pod's clock may be *)
(* ahead of Redis by up to Skew ticks.  The 5ms of a call are much shorter *)
(* than a tick: a call sees at most one tick pass.  The Redis client sends *)
(* an INCR again when its reply is lost, so that it may be applied more    *)
(* than once.  A request that finds Redis in error is allowed; such        *)
(* requests are not counted in granted.                                    *)
(***************************************************************************)
EXTENDS Naturals

CONSTANTS
  Calls,        \* concurrent requests, of any pod
  Limit,        \* rpm
  Window,       \* ticks per minute
  Skew,         \* bound on the difference of clocks
  LastTick,     \* bound on the time at which a request arrives
  MaxArrivals,  \* bound on the requests that arrive
  Resends,      \* how often the Redis client repeats a command
  Faulty        \* Redis may fail

ASSUME LimitsAssumption ==
  /\ Limit \in Nat /\ Window \in Nat \ {0} /\ Skew \in Nat
  /\ LastTick \in Nat /\ MaxArrivals \in Nat /\ Resends \in Nat
ASSUME FaultyAssumption == Faulty \in BOOLEAN

\* The bucket of a request that arrives when its pod's clock shows this tick.
Bucket(tick) == tick \div Window
Buckets == 0..Bucket(LastTick + Skew)

\* Mutant of KeyTTL: the key lives as long as its minute.
KeyTTLOneWindow == Window

\* 120 seconds, "2x the window".
KeyTTL == 2 * Window

\* The time by which every key with an expiry is gone.
EndOfTime == LastTick + 2 + KeyTTL

VARIABLES
  now,       \* ticks passed at Redis
  count,     \* the keys: value of each bucket's counter, 0 when absent
  expiry,    \* when each key expires; Never until EXPIRE is set
  call,      \* the requests inside Allow
  arrived,   \* how many requests have entered it
  granted,   \* how many requests of each bucket were counted and allowed
  denied     \* buckets of which a request was denied

vars == <<now, count, expiry, call, arrived, granted, denied>>

Never == EndOfTime + 1

NoCall == [at |-> "idle", bucket |-> 0, since |-> 0, resent |-> 0]

Init ==
  /\ now = 0
  /\ count = [b \in Buckets |-> 0]
  /\ expiry = [b \in Buckets |-> Never]
  /\ call = [c \in Calls |-> NoCall]
  /\ arrived = 0
  /\ granted = [b \in Buckets |-> 0]
  /\ denied = {}

Leave(c) == call' = [call EXCEPT ![c] = NoCall]

\* Allow computes its key from the pod's clock.
Enter(c) ==
  /\ call[c].at = "idle"
  /\ now <= LastTick
  /\ arrived < MaxArrivals
  /\ arrived' = arrived + 1
  /\ \E ahead \in 0..Skew :
       call' = [call EXCEPT ![c] = [at     |-> "incr",
                                    bucket |-> Bucket(now + ahead),
                                    since  |-> now, resent |-> 0]]
  /\ UNCHANGED <<now, count, expiry, granted, denied>>

\* return count <= l.rpm
Decide(c, value) ==
  LET b == call[c].bucket
  IN  /\ Leave(c)
      /\ IF value <= Limit
         THEN granted' = [granted EXCEPT ![b] = @ + 1] /\ UNCHANGED denied
         ELSE denied' = denied \cup {b} /\ UNCHANGED granted

\* Mutant of Incr: the counter is read before it is incremented.
IncrReadingFirst(c) ==
  LET b == call[c].bucket
  IN  /\ call[c].at = "incr"
      /\ count' = [count EXCEPT ![b] = @ + 1]
      /\ IF count[b] = 0
         THEN call' = [call EXCEPT ![c].at = "expire"]
              /\ UNCHANGED <<granted, denied>>
         ELSE Decide(c, count[b])
      /\ UNCHANGED <<now, expiry, arrived>>

\* INCR, and its reply.
Incr(c) ==
  LET b == call[c].bucket
      value == count[b] + 1
  IN  /\ call[c].at = "incr"
      /\ count' = [count EXCEPT ![b] = value]
      /\ IF value = 1
         THEN call' = [call EXCEPT ![c].at = "expire"]
              /\ UNCHANGED <<granted, denied>>
         ELSE Decide(c, value)
      /\ UNCHANGED <<now, expiry, arrived>>

\* Mutant of IncrLost: one repetition too many.
IncrLostOnceMore(c) ==
  LET b == call[c].bucket
  IN  /\ Faulty
      /\ call[c].at = "incr"
      /\ count' = [count EXCEPT ![b] = @ + 1]
      /\ \/ /\ call[c].resent <= Resends
            /\ call' = [call EXCEPT ![c].resent = @ + 1]
         \/ Leave(c)
      /\ UNCHANGED <<now, expiry, arrived, granted, denied>>

\* INCR is applied and its reply lost: it is sent again, or the error or the
\* deadline is reported and the request allowed.
IncrLost(c) ==
  LET b == call[c].bucket
  IN  /\ Faulty
      /\ call[c].at = "incr"
      /\ count' = [count EXCEPT ![b] = @ + 1]
      /\ \/ /\ call[c].resent < Resends
            /\ call' = [call EXCEPT ![c].resent = @ + 1]
         \/ Leave(c)
      /\ UNCHANGED <<now, expiry, arrived, granted, denied>>

\* INCR is not applied: the request is allowed.
FailOpen(c) ==
  /\ Faulty
  /\ call[c].at = "incr"
  /\ Leave(c)
  /\ UNCHANGED <<now, count, expiry, arrived, granted, denied>>

\* EXPIRE, by the call that saw 1; its error is ignored.
Expire(c) ==
  LET b == call[c].bucket
  IN  /\ call[c].at = "expire"
      /\ \/ expiry' = [expiry EXCEPT ![b] = IF count[b] > 0 THEN now + KeyTTL
                                            ELSE @]
         \/ Faulty /\ UNCHANGED expiry
      /\ Decide(c, 1)
      /\ UNCHANGED <<now, count, arrived>>

\* A tick passes; Redis deletes the keys that are due.
Tick ==
  /\ now < EndOfTime
  /\ \A c \in Calls : call[c].at # "idle" => call[c].since = now
  /\ now' = now + 1
  /\ count' = [b \in Buckets |-> IF expiry[b] <= now' THEN 0 ELSE count[b]]
  /\ expiry' = [b \in Buckets |-> IF expiry[b] <= now' THEN Never ELSE expiry[b]]
  /\ UNCHANGED <<call, arrived, granted, denied>>

AllowStep(c) == Incr(c) \/ IncrLost(c) \/ FailOpen(c) \/ Expire(c)

Next == Tick \/ \E c \in Calls : Enter(c) \/ AllowStep(c)

Spec == Init /\ [][Next]_vars

\* Time passes, and a call ends when its 5ms are over.
FairSpec == Spec /\ WF_vars(Tick) /\ \A c \in Calls : WF_vars(AllowStep(c))
-----------------------------------------------------------------------------
TypeOK ==
  /\ now \in 0..EndOfTime
  /\ count \in [Buckets -> 0..MaxArrivals * (Resends + 1)]
  /\ expiry \in [Buckets -> 0..Never]
  /\ call \in [Calls -> [at : {"idle", "incr", "expire"}, bucket : Buckets,
                         since : 0..EndOfTime, resent : 0..Resends]]
  /\ arrived \in 0..MaxArrivals
  /\ granted \in [Buckets -> Nat]
  /\ denied \subseteq Buckets

(***************************************************************************)
(* No minute admits more than its limit through Redis, however many pods   *)
(* there are: a key outlives the use of its bucket on the slowest clock,   *)
(* the 120 seconds having been set by the fastest (rate_limiter.go:98).    *)
(***************************************************************************)
GrantedWithinLimit == \A b \in Buckets : granted[b] <= Limit

(***************************************************************************)
(* A minute that has denied a request stays closed: as long as any request *)
(* can still be counted in it, its counter is at the limit.                *)
(***************************************************************************)
ClosedStaysClosed ==
  \A c \in Calls :
    call[c].at = "incr" /\ call[c].bucket \in denied =>
      count[call[c].bucket] >= Limit

(***************************************************************************)
(* rate_limiter.go:101 ignores the error of EXPIRE: "the key will           *)
(* eventually expire anyway."                                              *)
(***************************************************************************)
KeysExpire == \A b \in Buckets : count[b] > 0 ~> count[b] = 0
=============================================================================
