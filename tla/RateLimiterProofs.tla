-------------------------- MODULE RateLimiterProofs --------------------------
(***************************************************************************)
(* Proofs about RateLimiter for any number of pods, requests and resends,  *)
(* any limit and any length of a tick.                                     *)
(***************************************************************************)
EXTENDS RateLimiter, FiniteSetTheorems, TLAPS

CallStates == [at : {"idle", "incr", "expire"}, bucket : Buckets,
               since : 0..EndOfTime, resent : 0..Resends]

InFlight(c) == call[c].at # "idle"

\* A call is a tick old at most, and its bucket is the minute its pod's clock
\* showed when it entered.
Timely ==
  \A c \in Calls : InFlight(c) =>
    LET b == call[c].bucket
        since == call[c].since
    IN  /\ since <= LastTick /\ since <= now /\ now <= since + 1
        /\ since < b * Window + Window
        /\ b * Window <= since + Skew

\* The INCRs that the calls under way may still have applied.
Sends == {x \in Calls \X (0..Resends) :
            call[x[1]].at = "incr" /\ x[2] >= call[x[1]].resent}

Counted ==
  /\ IsFiniteSet(Sends)
  /\ \A b \in Buckets :
       count[b] + Cardinality(Sends) <= arrived * (Resends + 1)

\* A call that saw 1 is about to set the expiry of the bucket's key.
Sets(c, b)  == call[c].at = "expire" /\ call[c].bucket = b
Setting(b)  == \E c \in Calls : Sets(c, b)

\* A key has no expiry before the one call that created it has set it, and
\* then outlives the window twice over.
Keyed ==
  /\ \A b \in Buckets :
       /\ count[b] = 0 => expiry[b] = Never
       /\ expiry[b] # Never => b * Window + KeyTTL <= expiry[b] + Skew
       /\ Setting(b) => count[b] > 0 /\ expiry[b] = Never
  /\ \A b \in Buckets, c, d \in Calls : Sets(c, b) /\ Sets(d, b) => c = d

\* A request can still be counted in the bucket.
Open(b) ==
  \/ now < b * Window + Window
  \/ \E c \in Calls : InFlight(c) /\ call[c].bucket = b

\* The counter of an open bucket counts all that were granted, and the call
\* that will be granted once it has set the expiry.
Granted ==
  \A b \in Buckets :
    /\ granted[b] <= Limit
    /\ Setting(b) /\ Limit > 0 => granted[b] < Limit
    /\ Open(b) => /\ granted[b] <= count[b]
                  /\ Setting(b) => granted[b] < count[b]
                  /\ b \in denied => Limit <= count[b]

Typed ==
  /\ now \in 0..EndOfTime
  /\ count \in [Buckets -> Nat]
  /\ expiry \in [Buckets -> 0..Never]
  /\ call \in [Calls -> CallStates]
  /\ arrived \in 0..MaxArrivals
  /\ granted \in [Buckets -> Nat]
  /\ denied \subseteq Buckets

LimiterInv == Typed /\ Timely /\ Counted /\ Keyed
-----------------------------------------------------------------------------
(* Time. *)

LEMMA Times ==
  /\ KeyTTL \in Nat /\ EndOfTime \in Nat /\ Never \in Nat
  /\ KeyTTL = Window + Window /\ Window > 0
  /\ EndOfTime = LastTick + 2 + KeyTTL /\ Never = EndOfTime + 1
BY LimitsAssumption DEF KeyTTL, EndOfTime, Never

\* A tick lies in its bucket.
LEMMA BucketHolds ==
  ASSUME NEW t \in Nat
  PROVE  /\ Bucket(t) \in Nat
         /\ Bucket(t) * Window <= t /\ t < Bucket(t) * Window + Window
<1>1. /\ t \div Window \in Nat
      /\ (t \div Window) * Window <= t
      /\ t < (t \div Window) * Window + Window
  BY LimitsAssumption, Z3
<1> QED
  BY <1>1 DEF Bucket

LEMMA SmallerBucket ==
  ASSUME NEW W \in Nat \ {0}, NEW p \in Nat, NEW q \in Nat,
         p * W < q * W + W
  PROVE  p <= q
<1> SUFFICES ASSUME p >= q + 1 PROVE FALSE
  OBVIOUS
<1> DEFINE d == p - (q + 1)
<1>1. d \in Nat /\ p = q + 1 + d
  OBVIOUS
<1>2. p * W = q * W + W + d * W
  BY <1>1
<1>3. d * W \in Nat /\ q * W \in Nat
  BY <1>1
<1> QED
  BY <1>1, <1>2, <1>3

LEMMA BucketsOrdered ==
  ASSUME NEW t \in Nat, NEW u \in Nat, t <= u
  PROVE  Bucket(t) <= Bucket(u)
<1>1. /\ Bucket(t) \in Nat /\ Bucket(u) \in Nat
      /\ Bucket(t) * Window <= t /\ u < Bucket(u) * Window + Window
  BY BucketHolds
<1>2. Bucket(t) * Window < Bucket(u) * Window + Window
  <2>1. Bucket(t) * Window \in Nat /\ Bucket(u) * Window + Window \in Nat
    BY <1>1, LimitsAssumption
  <2> QED
    BY <1>1, <2>1
<1> QED
  BY <1>1, <1>2, SmallerBucket, LimitsAssumption

LEMMA BucketInTime ==
  ASSUME NEW b \in Buckets
  PROVE  b \in Nat /\ b * Window \in Nat /\ b * Window + Window \in Nat
<1>1. Bucket(LastTick + Skew) \in Nat
  BY BucketHolds, LimitsAssumption
<1> QED
  BY <1>1, LimitsAssumption DEF Buckets

LEMMA Shares ==
  ASSUME NEW n \in Nat
  PROVE  /\ (n + 1) * (Resends + 1) = n * (Resends + 1) + Resends + 1
         /\ n * (Resends + 1) \in Nat
BY LimitsAssumption

LEMMA SharesBound ==
  ASSUME NEW n \in 0..MaxArrivals
  PROVE  n * (Resends + 1) <= MaxArrivals * (Resends + 1)
BY LimitsAssumption

-----------------------------------------------------------------------------
(* The steps of a call, variable by variable. *)

LEMMA NoCallTyped == NoCall \in CallStates
<1>1. 0 \in Buckets
  BY BucketHolds, LimitsAssumption DEF Buckets
<1> QED
  BY <1>1, Times, LimitsAssumption DEF NoCall, CallStates

\* The record a call is entered with.
LEMMA Entered ==
  ASSUME Typed, NEW c \in Calls, Enter(c)
  PROVE  \E new \in CallStates :
           /\ new.at = "incr" /\ new.since = now /\ new.resent = 0
           /\ now < new.bucket * Window + Window
           /\ new.bucket * Window <= now + Skew
           /\ call' = [call EXCEPT ![c] = new]
<1>1. PICK ahead \in 0..Skew :
        call' = [call EXCEPT ![c] = [at     |-> "incr",
                                     bucket |-> Bucket(now + ahead),
                                     since  |-> now, resent |-> 0]]
  BY DEF Enter
<1> DEFINE b == Bucket(now + ahead)
           new == [at |-> "incr", bucket |-> b, since |-> now, resent |-> 0]
<1>2. /\ now \in Nat /\ ahead \in Nat /\ now + ahead \in Nat
      /\ now + ahead <= LastTick + Skew /\ LastTick + Skew \in Nat
  BY LimitsAssumption DEF Enter, Typed
<1>3. /\ b \in Nat /\ b * Window <= now + ahead
      /\ now + ahead < b * Window + Window
  BY <1>2, BucketHolds
<1>4. b \in Buckets
  BY <1>2, <1>3, BucketsOrdered, BucketHolds DEF Buckets
<1>5. now < b * Window + Window /\ b * Window <= now + Skew
  BY <1>2, <1>3, <1>4, BucketInTime, LimitsAssumption
<1>6. new \in CallStates
  BY <1>4, LimitsAssumption DEF CallStates, Typed
<1> QED
  BY <1>1, <1>5, <1>6

\* What Decide does.
LEMMA Decided ==
  ASSUME Typed, NEW c \in Calls, NEW value \in Nat, Decide(c, value)
  PROVE  /\ call' \in [Calls -> CallStates]
         /\ \A d \in Calls : call'[d] = IF d = c THEN NoCall ELSE call[d]
         /\ granted' \in [Buckets -> Nat]
         /\ \A b \in Buckets :
              granted'[b] = IF b = call[c].bucket /\ value <= Limit
                            THEN granted[b] + 1 ELSE granted[b]
         /\ denied' = IF value <= Limit THEN denied
                      ELSE denied \cup {call[c].bucket}
<1>1. call[c].bucket \in Buckets
  BY DEF Typed, CallStates
<1>2. call' = [call EXCEPT ![c] = NoCall]
  BY DEF Decide, Leave
<1>3. /\ call' \in [Calls -> CallStates]
      /\ \A d \in Calls : call'[d] = IF d = c THEN NoCall ELSE call[d]
  BY <1>2, NoCallTyped DEF Typed
<1>4. /\ granted' \in [Buckets -> Nat]
      /\ \A b \in Buckets :
           granted'[b] = IF b = call[c].bucket /\ value <= Limit
                         THEN granted[b] + 1 ELSE granted[b]
  BY <1>1 DEF Decide, Typed
<1>5. denied' = IF value <= Limit THEN denied
                ELSE denied \cup {call[c].bucket}
  BY DEF Decide
<1> QED
  BY <1>3, <1>4, <1>5

\* One INCR is applied.
LEMMA Incremented ==
  ASSUME Typed, NEW c \in Calls,
         count' = [count EXCEPT ![call[c].bucket] = @ + 1]
  PROVE  /\ count' \in [Buckets -> Nat]
         /\ \A b \in Buckets : count'[b] = IF b = call[c].bucket
                                           THEN count[b] + 1 ELSE count[b]
<1>1. call[c].bucket \in Buckets
  BY DEF Typed, CallStates
<1> QED
  BY <1>1 DEF Typed

\* The call stays, as new, or leaves, as NoCall.
LEMMA Replaced ==
  ASSUME Typed, NEW c \in Calls, NEW new \in CallStates,
         call' = [call EXCEPT ![c] = new]
  PROVE  /\ call' \in [Calls -> CallStates]
         /\ \A d \in Calls : call'[d] = IF d = c THEN new ELSE call[d]
BY DEF Typed

LEMMA ToExpire ==
  ASSUME Typed, NEW c \in Calls, call' = [call EXCEPT ![c].at = "expire"]
  PROVE  \E new \in CallStates :
           /\ new.at = "expire" /\ new.bucket = call[c].bucket
           /\ new.since = call[c].since /\ new.resent = call[c].resent
           /\ call' = [call EXCEPT ![c] = new]
BY DEF Typed, CallStates

LEMMA SendAgain ==
  ASSUME Typed, NEW c \in Calls, call[c].resent < Resends,
         call' = [call EXCEPT ![c].resent = @ + 1]
  PROVE  \E new \in CallStates :
           /\ new.at = call[c].at /\ new.bucket = call[c].bucket
           /\ new.since = call[c].since /\ new.resent = call[c].resent + 1
           /\ call' = [call EXCEPT ![c] = new]
<1>1. call[c].resent + 1 \in 0..Resends
  BY LimitsAssumption DEF Typed, CallStates
<1> QED
  BY <1>1 DEF Typed, CallStates

-----------------------------------------------------------------------------
(* What the calls may still do to the counters. *)

\* A call that leaves, or has used up a send, has at least one less.
LEMMA SendUsed ==
  ASSUME Typed, IsFiniteSet(Sends), NEW c \in Calls, call[c].at = "incr",
         NEW new, \A d \in Calls : call'[d] = IF d = c THEN new ELSE call[d],
         new.at # "incr" \/ new.resent = call[c].resent + 1
  PROVE  /\ IsFiniteSet(Sends') /\ Cardinality(Sends) \in Nat
         /\ Cardinality(Sends') \in Nat
         /\ Cardinality(Sends') + 1 <= Cardinality(Sends)
<1> DEFINE x == <<c, call[c].resent>>
<1>1. \A d \in Calls : call[d].resent \in 0..Resends
  BY DEF Typed, CallStates
<1>2. x \in Sends
  BY <1>1, LimitsAssumption DEF Sends
<1>3. \A y \in Sends' : y \in Sends /\ y # x
  <2> SUFFICES ASSUME NEW d \in Calls, NEW k \in 0..Resends,
                      call'[d].at = "incr", k >= call'[d].resent
               PROVE  /\ call[d].at = "incr" /\ k >= call[d].resent
                      /\ ~(d = c /\ k = call[c].resent)
    BY DEF Sends
  <2>1. call[d].resent \in Nat /\ k \in Nat
    BY <1>1, LimitsAssumption
  <2> QED
    BY <2>1
<1>4. /\ IsFiniteSet(Sends \ {x})
      /\ Cardinality(Sends \ {x}) = Cardinality(Sends) - 1
  BY <1>2, FS_RemoveElement
<1>5. Sends' \in SUBSET (Sends \ {x})
  BY <1>3
<1> HIDE DEF x
<1>6. /\ IsFiniteSet(Sends')
      /\ Cardinality(Sends') <= Cardinality(Sends \ {x})
  BY <1>4, <1>5, FS_Subset
<1>7. Cardinality(Sends) \in Nat /\ Cardinality(Sends') \in Nat
  BY <1>6, FS_CardinalityType
<1> QED
  BY <1>4, <1>6, <1>7

\* A call that enters has all of them.
LEMMA SendsGained ==
  ASSUME Typed, IsFiniteSet(Sends), NEW c \in Calls, call[c].at = "idle",
         NEW new, \A d \in Calls : call'[d] = IF d = c THEN new ELSE call[d],
         new.at = "incr" /\ new.resent = 0
  PROVE  /\ IsFiniteSet(Sends') /\ Cardinality(Sends) \in Nat
         /\ Cardinality(Sends') \in Nat
         /\ Cardinality(Sends') <= Cardinality(Sends) + Resends + 1
<1> DEFINE f == [k \in 0..Resends |-> <<c, k>>]
           T == {<<c, k>> : k \in 0..Resends}
<1>1. /\ IsFiniteSet(0..Resends)
      /\ Cardinality(0..Resends) = Resends + 1
  BY FS_Interval, LimitsAssumption
<1>2. f \in Surjection(0..Resends, T)
  BY DEF Surjection
<1> HIDE DEF f
<1>3. IsFiniteSet(T) /\ Cardinality(T) <= Resends + 1
  BY <1>1, <1>2, FS_Surjection
<1>4. Sends' = Sends \cup T
  <2>1. ASSUME NEW d \in Calls, NEW k \in 0..Resends
        PROVE  <<d, k>> \in Sends' <=> <<d, k>> \in Sends \/ d = c
    BY <2>1, LimitsAssumption DEF Sends
  <2>2. \A y \in Sends \cup Sends' \cup T :
          \E d \in Calls, k \in 0..Resends : y = <<d, k>>
    BY DEF Sends
  <2>3. \A d \in Calls, k \in 0..Resends : <<d, k>> \in T <=> d = c
    OBVIOUS
  <2> HIDE DEF T
  <2> QED
    BY <2>1, <2>2, <2>3
<1> HIDE DEF T
<1>5. /\ IsFiniteSet(Sends \cup T) /\ IsFiniteSet(Sends \cap T)
      /\ Cardinality(Sends \cup T) =
           Cardinality(Sends) + Cardinality(T) - Cardinality(Sends \cap T)
  <2>1. Sends \cap T \in SUBSET T
    OBVIOUS
  <2>2. IsFiniteSet(Sends \cap T)
    BY <1>3, <2>1, FS_Subset
  <2> QED
    BY <1>3, <2>2, FS_Union
<1>6. /\ Cardinality(Sends) \in Nat /\ Cardinality(T) \in Nat
      /\ Cardinality(Sends \cap T) \in Nat /\ Cardinality(Sends \cup T) \in Nat
  BY <1>3, <1>5, FS_CardinalityType
<1> QED
  BY <1>3, <1>4, <1>5, <1>6, LimitsAssumption

LEMMA SendsSame ==
  ASSUME Typed, NEW c \in Calls, call[c].at # "incr",
         NEW new, \A d \in Calls : call'[d] = IF d = c THEN new ELSE call[d],
         new.at # "incr"
  PROVE  Sends' = Sends
BY DEF Sends

\* The counters while one of them is incremented, or none.
LEMMA StillCounted ==
  ASSUME Typed, Counted, NEW by \in {0, 1}, NEW c \in Calls,
         IsFiniteSet(Sends'), Cardinality(Sends) \in Nat,
         Cardinality(Sends') \in Nat,
         Cardinality(Sends') + by <= Cardinality(Sends),
         \A b \in Buckets : count'[b] = IF b = call[c].bucket
                                        THEN count[b] + by ELSE count[b],
         arrived' = arrived
  PROVE  Counted'
<1>1. \A b \in Buckets :
        count'[b] + Cardinality(Sends') <= arrived * (Resends + 1)
  <2> SUFFICES ASSUME NEW b \in Buckets
               PROVE  count'[b] + Cardinality(Sends') <= arrived * (Resends + 1)
    OBVIOUS
  <2>1. /\ count[b] \in Nat /\ arrived * (Resends + 1) \in Nat
        /\ count[b] + Cardinality(Sends) <= arrived * (Resends + 1)
    BY Shares, LimitsAssumption DEF Typed, Counted
  <2>2. count'[b] <= count[b] + by /\ count'[b] \in Nat
    BY <2>1
  <2> QED
    BY <2>1, <2>2
<1> QED
  BY <1>1 DEF Counted

\* A call is as old, and in the bucket, that it was.
LEMMA StillTimely ==
  ASSUME Timely, now' = now, NEW c \in Calls,
         NEW new, \A d \in Calls : call'[d] = IF d = c THEN new ELSE call[d],
         \/ new.at = "idle"
         \/ /\ InFlight(c) /\ new.bucket = call[c].bucket
            /\ new.since = call[c].since
  PROVE  Timely'
BY DEF Timely, InFlight

-----------------------------------------------------------------------------
(* The steps. *)

LEMMA EnterKeeps ==
  ASSUME LimiterInv, NEW c \in Calls, Enter(c)
  PROVE  LimiterInv' /\ (Granted => Granted')
<1> USE DEF LimiterInv
<1>1. /\ call[c].at = "idle" /\ now <= LastTick /\ arrived < MaxArrivals
      /\ arrived' = arrived + 1
      /\ UNCHANGED <<now, count, expiry, granted, denied>>
  BY DEF Enter
<1>2. PICK new \in CallStates :
        /\ new.at = "incr" /\ new.since = now /\ new.resent = 0
        /\ now < new.bucket * Window + Window
        /\ new.bucket * Window <= now + Skew
        /\ call' = [call EXCEPT ![c] = new]
  BY Entered
<1>3. /\ call' \in [Calls -> CallStates]
      /\ \A d \in Calls : call'[d] = IF d = c THEN new ELSE call[d]
  BY <1>2, Replaced
<1>4. Typed'
  BY <1>1, <1>3, LimitsAssumption DEF Typed
<1>5. Timely'
  <2>1. now <= LastTick /\ now <= now /\ now <= now + 1
    BY <1>1 DEF Typed
  <2> QED
    BY <1>1, <1>2, <1>3, <2>1 DEF Timely, InFlight
<1>6. Counted'
  <2>1. /\ IsFiniteSet(Sends') /\ Cardinality(Sends) \in Nat
        /\ Cardinality(Sends') \in Nat
        /\ Cardinality(Sends') <= Cardinality(Sends) + Resends + 1
    BY <1>1, <1>2, <1>3, SendsGained DEF Counted
  <2>2. ASSUME NEW b \in Buckets
        PROVE  count'[b] + Cardinality(Sends') <= arrived' * (Resends + 1)
    <3>1. count[b] \in Nat /\ arrived \in Nat
      BY LimitsAssumption DEF Typed
    <3>2. /\ arrived' * (Resends + 1) = arrived * (Resends + 1) + Resends + 1
          /\ arrived * (Resends + 1) \in Nat
      BY <1>1, <3>1, Shares
    <3>3. count[b] + Cardinality(Sends) <= arrived * (Resends + 1)
      BY DEF Counted
    <3> QED
      BY <1>1, <2>1, <3>1, <3>2, <3>3, LimitsAssumption
  <2> QED
    BY <2>1, <2>2 DEF Counted
<1>7. \A d \in Calls, b \in Buckets : Sets(d, b)' <=> Sets(d, b)
  BY <1>1, <1>2, <1>3 DEF Sets
<1>8. \A b \in Buckets : Setting(b)' <=> Setting(b)
  BY <1>7 DEF Setting
<1>9. Keyed'
  BY <1>1, <1>7, <1>8 DEF Keyed
<1>10. \A b \in Buckets : Open(b)' => Open(b)
  BY <1>1, <1>2, <1>3 DEF Open, InFlight
<1> QED
  BY <1>1, <1>4, <1>5, <1>6, <1>8, <1>9, <1>10 DEF Granted

\* The reply of INCR is lost, or the command is.
LEMMA LostKeeps ==
  ASSUME LimiterInv, NEW c \in Calls, IncrLost(c) \/ FailOpen(c)
  PROVE  LimiterInv' /\ (Granted => Granted')
<1> USE DEF LimiterInv
<1>1. /\ call[c].at = "incr"
      /\ UNCHANGED <<now, expiry, arrived, granted, denied>>
  BY DEF IncrLost, FailOpen
<1>2. PICK by \in {0, 1} :
        /\ count' \in [Buckets -> Nat]
        /\ \A b \in Buckets : count'[b] = IF b = call[c].bucket
                                          THEN count[b] + by ELSE count[b]
  <2>1. CASE IncrLost(c)
    <3>1. /\ count' \in [Buckets -> Nat]
          /\ \A b \in Buckets : count'[b] = IF b = call[c].bucket
                                            THEN count[b] + 1 ELSE count[b]
      BY <2>1, Incremented DEF IncrLost
    <3> QED
      BY <3>1
  <2>2. CASE FailOpen(c)
    <3>1. /\ count' \in [Buckets -> Nat]
          /\ \A b \in Buckets : count'[b] = IF b = call[c].bucket
                                            THEN count[b] + 0 ELSE count[b]
      BY <2>2 DEF FailOpen, Typed
    <3> QED
      BY <3>1
  <2> QED
    BY <2>1, <2>2
<1>3. PICK new \in CallStates :
        /\ \/ new.at = "idle"
           \/ /\ new.at = "incr" /\ new.bucket = call[c].bucket
              /\ new.since = call[c].since /\ new.resent = call[c].resent + 1
        /\ call' = [call EXCEPT ![c] = new]
  <2>1. CASE Leave(c)
    BY <2>1, NoCallTyped DEF Leave, NoCall
  <2>2. CASE /\ call[c].resent < Resends
             /\ call' = [call EXCEPT ![c].resent = @ + 1]
    <3>1. \E new \in CallStates :
            /\ new.at = call[c].at /\ new.bucket = call[c].bucket
            /\ new.since = call[c].since /\ new.resent = call[c].resent + 1
            /\ call' = [call EXCEPT ![c] = new]
      BY <2>2, SendAgain
    <3> QED
      BY <1>1, <3>1
  <2> QED
    BY <2>1, <2>2 DEF IncrLost, FailOpen
<1>4. /\ call' \in [Calls -> CallStates]
      /\ \A d \in Calls : call'[d] = IF d = c THEN new ELSE call[d]
  BY <1>3, Replaced
<1>5. Typed'
  BY <1>1, <1>2, <1>4 DEF Typed
<1>6. Timely'
  BY <1>1, <1>3, <1>4, StillTimely DEF InFlight
<1>7. Counted'
  <2>1. /\ IsFiniteSet(Sends') /\ Cardinality(Sends) \in Nat
        /\ Cardinality(Sends') \in Nat
        /\ Cardinality(Sends') + 1 <= Cardinality(Sends)
    BY <1>1, <1>3, <1>4, SendUsed DEF Counted
  <2>2. Cardinality(Sends') + by <= Cardinality(Sends)
    BY <2>1
  <2> QED
    BY <1>1, <1>2, <2>1, <2>2, StillCounted
<1>8. \A d \in Calls, b \in Buckets : Sets(d, b)' <=> Sets(d, b)
  BY <1>1, <1>3, <1>4 DEF Sets
<1>9. \A b \in Buckets :
        /\ Setting(b)' <=> Setting(b)
        /\ count[b] \in Nat /\ count'[b] \in Nat /\ count[b] <= count'[b]
  BY <1>2, <1>8 DEF Setting, Typed
<1>10. Keyed'
  BY <1>1, <1>8, <1>9 DEF Keyed
<1>11. \A b \in Buckets : Open(b)' => Open(b)
  BY <1>1, <1>3, <1>4 DEF Open, InFlight
<1>12. Granted => Granted'
  <2> SUFFICES ASSUME Granted, NEW b \in Buckets, Open(b)
               PROVE  /\ granted[b] <= count'[b]
                      /\ Setting(b) => granted[b] < count'[b]
                      /\ b \in denied => Limit <= count'[b]
    BY <1>1, <1>9, <1>11 DEF Granted
  <2>1. granted[b] \in Nat
    BY DEF Typed
  <2> QED
    BY <1>9, <2>1, LimitsAssumption DEF Granted
<1> QED
  BY <1>5, <1>6, <1>7, <1>10, <1>12

\* INCR finds the key, or creates it.
LEMMA IncrKeeps ==
  ASSUME LimiterInv, NEW c \in Calls, Incr(c)
  PROVE  LimiterInv' /\ (Granted => Granted')
<1> USE DEF LimiterInv
<1> DEFINE own   == call[c].bucket
           value == count[own] + 1
<1>1. /\ call[c].at = "incr" /\ UNCHANGED <<now, expiry, arrived>>
      /\ count' = [count EXCEPT ![own] = @ + 1]
  BY DEF Incr
<1>2. /\ own \in Buckets /\ count[own] \in Nat /\ value \in Nat
      /\ count' \in [Buckets -> Nat]
      /\ \A b \in Buckets : count'[b] = IF b = own THEN count[b] + 1 ELSE count[b]
  BY <1>1, Incremented DEF Typed, CallStates
<1>3. Open(own)
  BY <1>1 DEF Open, InFlight
<1>4. ASSUME NEW new \in CallStates,
             \/ new.at = "idle"
             \/ /\ new.at = "expire" /\ new.bucket = own
                /\ new.since = call[c].since,
             call' \in [Calls -> CallStates],
             \A d \in Calls : call'[d] = IF d = c THEN new ELSE call[d]
      PROVE  /\ Timely' /\ Counted'
             /\ \A d \in Calls, b \in Buckets :
                  Sets(d, b)' <=> Sets(d, b) \/ (d = c /\ b = own /\ new.at = "expire")
             /\ \A b \in Buckets : Open(b)' => Open(b)
  <2>1. Timely'
    BY <1>1, <1>4, StillTimely DEF InFlight
  <2>2. Counted'
    <3>1. /\ IsFiniteSet(Sends') /\ Cardinality(Sends) \in Nat
          /\ Cardinality(Sends') \in Nat
          /\ Cardinality(Sends') + 1 <= Cardinality(Sends)
      BY <1>1, <1>4, SendUsed DEF Counted
    <3> QED
      BY <1>1, <1>2, <3>1, StillCounted
  <2>3. \A d \in Calls, b \in Buckets :
          Sets(d, b)' <=> Sets(d, b) \/ (d = c /\ b = own /\ new.at = "expire")
    BY <1>1, <1>4 DEF Sets
  <2>4. \A b \in Buckets : Open(b)' => Open(b)
    BY <1>1, <1>4 DEF Open, InFlight
  <2> QED
    BY <2>1, <2>2, <2>3, <2>4
<1>5. CASE value = 1
  <2>1. PICK new \in CallStates :
          /\ new.at = "expire" /\ new.bucket = own
          /\ new.since = call[c].since /\ new.resent = call[c].resent
          /\ call' = [call EXCEPT ![c] = new]
    <3>1. call' = [call EXCEPT ![c].at = "expire"]
      BY <1>5 DEF Incr
    <3> QED
      BY <3>1, ToExpire
  <2>2. /\ call' \in [Calls -> CallStates]
        /\ \A d \in Calls : call'[d] = IF d = c THEN new ELSE call[d]
    BY <2>1, Replaced
  <2>3. /\ Timely' /\ Counted'
        /\ \A d \in Calls, b \in Buckets :
             Sets(d, b)' <=> Sets(d, b) \/ (d = c /\ b = own)
        /\ \A b \in Buckets : Open(b)' => Open(b)
    BY <1>4, <2>1, <2>2
  <2>4. UNCHANGED <<granted, denied>>
    BY <1>5 DEF Incr
  <2>5. Typed'
    BY <1>1, <1>2, <2>2, <2>4 DEF Typed
  <2>6. count[own] = 0 /\ expiry[own] = Never /\ ~Setting(own)
    BY <1>2, <1>5 DEF Keyed
  <2>7. \A b \in Buckets : Setting(b)' <=> Setting(b) \/ b = own
    BY <2>3 DEF Setting
  <2>8. \A d \in Calls : ~Sets(d, own)
    BY <2>6 DEF Setting
  <2>9. \A b \in Buckets :
          /\ count[b] \in Nat /\ count'[b] \in Nat /\ count[b] <= count'[b]
          /\ b = own => count'[b] = 1
    BY <1>2, <2>6 DEF Typed
  <2>10. Keyed'
    BY <1>1, <2>3, <2>6, <2>7, <2>8, <2>9 DEF Keyed
  <2>11. Granted => Granted'
    <3> SUFFICES ASSUME Granted, NEW b \in Buckets
                 PROVE  /\ granted[b] <= Limit
                        /\ (Setting(b) \/ b = own) /\ Limit > 0 =>
                             granted[b] < Limit
                        /\ Open(b) =>
                             /\ granted[b] <= count'[b]
                             /\ Setting(b) \/ b = own => granted[b] < count'[b]
                             /\ b \in denied => Limit <= count'[b]
      BY <1>1, <2>3, <2>4, <2>7 DEF Granted
    <3>1. granted[b] \in Nat /\ (b = own => granted[b] <= 0)
      BY <1>3, <2>6 DEF Typed, Granted
    <3> QED
      BY <2>9, <3>1, LimitsAssumption DEF Granted
  <2> QED
    BY <2>3, <2>5, <2>10, <2>11
<1>6. CASE value # 1
  <2>1. Decide(c, value)
    BY <1>6 DEF Incr
  <2>2. /\ call' \in [Calls -> CallStates]
        /\ \A d \in Calls : call'[d] = IF d = c THEN NoCall ELSE call[d]
        /\ granted' \in [Buckets -> Nat]
        /\ \A b \in Buckets :
             granted'[b] = IF b = own /\ value <= Limit
                           THEN granted[b] + 1 ELSE granted[b]
        /\ denied' = IF value <= Limit THEN denied ELSE denied \cup {own}
    BY <1>2, <2>1, Decided
  <2>3. NoCall \in CallStates /\ NoCall.at = "idle"
    BY NoCallTyped DEF NoCall
  <2>4. /\ Timely' /\ Counted'
        /\ \A d \in Calls, b \in Buckets : Sets(d, b)' <=> Sets(d, b)
        /\ \A b \in Buckets : Open(b)' => Open(b)
    BY <1>4, <2>2, <2>3
  <2>5. Typed'
    BY <1>1, <1>2, <2>2 DEF Typed
  <2>6. \A b \in Buckets :
          /\ Setting(b)' <=> Setting(b)
          /\ count[b] \in Nat /\ count'[b] \in Nat /\ count[b] <= count'[b]
          /\ b = own => count'[b] = value
    BY <1>2, <2>4 DEF Setting, Typed
  <2>7. Keyed'
    BY <1>1, <2>4, <2>6 DEF Keyed
  <2>8. Granted => Granted'
    <3> SUFFICES ASSUME Granted, NEW b \in Buckets
                 PROVE  /\ granted'[b] <= Limit
                        /\ Setting(b) /\ Limit > 0 => granted'[b] < Limit
                        /\ Open(b) =>
                             /\ granted'[b] <= count'[b]
                             /\ Setting(b) => granted'[b] < count'[b]
                             /\ b \in denied' => Limit <= count'[b]
      BY <1>1, <2>4, <2>6 DEF Granted
    <3>1. granted[b] \in Nat
      BY DEF Typed
    <3>2. CASE b = own
      <4>1. granted[b] + 1 <= value /\ (Setting(b) => granted[b] + 1 < value)
        BY <1>2, <1>3, <3>1, <3>2 DEF Granted
      <4>2. CASE value <= Limit
        BY <1>2, <2>2, <2>6, <3>1, <3>2, <4>1, <4>2, LimitsAssumption
           DEF Granted
      <4>3. CASE ~(value <= Limit)
        BY <1>2, <2>2, <2>6, <3>1, <3>2, <4>1, <4>3, LimitsAssumption
           DEF Granted
      <4> QED
        BY <4>2, <4>3
    <3>3. CASE b # own
      BY <2>2, <2>6, <3>1, <3>3, LimitsAssumption DEF Granted
    <3> QED
      BY <3>2, <3>3
  <2> QED
    BY <2>4, <2>5, <2>7, <2>8
<1> QED
  BY <1>5, <1>6

\* EXPIRE, and the decision that the call made when it saw 1.
LEMMA ExpireKeeps ==
  ASSUME LimiterInv, NEW c \in Calls, Expire(c)
  PROVE  LimiterInv' /\ (Granted => Granted')
<1> USE DEF LimiterInv
<1>1. PICK own \in Buckets :
        /\ own = call[c].bucket /\ call[c].at = "expire"
        /\ UNCHANGED <<now, count, arrived>>
  BY DEF Expire, Typed, CallStates
<1>2. /\ call' \in [Calls -> CallStates]
      /\ \A d \in Calls : call'[d] = IF d = c THEN NoCall ELSE call[d]
      /\ granted' \in [Buckets -> Nat]
      /\ \A b \in Buckets :
           granted'[b] = IF b = own /\ 1 <= Limit
                         THEN granted[b] + 1 ELSE granted[b]
      /\ denied' = IF 1 <= Limit THEN denied ELSE denied \cup {own}
  BY <1>1, Decided DEF Expire
<1>3. NoCall \in CallStates /\ NoCall.at = "idle"
  BY NoCallTyped DEF NoCall
<1>4. /\ Sets(c, own) /\ Setting(own) /\ Open(own) /\ count[own] > 0
      /\ expiry[own] = Never
  BY <1>1 DEF Sets, Setting, Open, InFlight, Keyed
<1>5. /\ now \in Nat /\ now <= LastTick + 1
      /\ own \in Nat /\ own * Window \in Nat
      /\ own * Window <= now + Skew
  <2>1. /\ call[c].since <= LastTick /\ call[c].since <= now
        /\ now <= call[c].since + 1
        /\ own * Window <= call[c].since + Skew
        /\ call[c].since \in Nat /\ now \in Nat
    BY <1>1, Times DEF Timely, InFlight, Typed, CallStates
  <2>2. own \in Nat /\ own * Window \in Nat
    BY <1>1, BucketInTime
  <2> QED
    BY <2>1, <2>2, LimitsAssumption
<1>6. PICK due \in 0..Never :
        /\ due = Never \/ own * Window + KeyTTL <= due + Skew
        /\ expiry' = [expiry EXCEPT ![own] = due]
  <2>1. now + KeyTTL \in 0..Never /\ own * Window + KeyTTL <= now + KeyTTL + Skew
    BY <1>5, Times, LimitsAssumption
  <2>2. expiry \in [Buckets -> 0..Never]
    BY DEF Typed
  <2>3. CASE expiry' = [expiry EXCEPT ![own] = now + KeyTTL]
    BY <2>1, <2>3
  <2>4. CASE expiry' = expiry
    <3>1. expiry = [expiry EXCEPT ![own] = Never]
      BY <1>4, <2>2
    <3> QED
      BY <2>4, <3>1, Times
  <2> QED
    BY <1>1, <1>4, <2>3, <2>4 DEF Expire
<1>7. /\ expiry' \in [Buckets -> 0..Never]
      /\ \A b \in Buckets : expiry'[b] = IF b = own THEN due ELSE expiry[b]
  BY <1>6 DEF Typed
<1>8. Typed'
  BY <1>1, <1>2, <1>7 DEF Typed
<1>9. Timely'
  BY <1>1, <1>2, <1>3, StillTimely
<1>10. Counted'
  <2>1. Sends' = Sends
    BY <1>1, <1>2, <1>3, SendsSame
  <2> QED
    BY <1>1, <2>1 DEF Counted
<1>11. \A d \in Calls, b \in Buckets :
         /\ Sets(d, b)' => Sets(d, b)
         /\ ~Sets(d, own)'
  BY <1>1, <1>2, <1>3, <1>4 DEF Sets, Keyed
<1>12. \A b \in Buckets : Setting(b)' => Setting(b) /\ b # own
  BY <1>11 DEF Setting
<1>13. Keyed'
  BY <1>1, <1>4, <1>6, <1>7, <1>11, <1>12 DEF Keyed
<1>14. \A b \in Buckets : Open(b)' => Open(b)
  BY <1>1, <1>2, <1>3 DEF Open, InFlight
<1>15. Granted => Granted'
  <2> SUFFICES ASSUME Granted, NEW b \in Buckets
               PROVE  /\ granted'[b] <= Limit
                      /\ Setting(b) /\ b # own /\ Limit > 0 =>
                           granted'[b] < Limit
                      /\ Open(b) =>
                           /\ granted'[b] <= count[b]
                           /\ Setting(b) /\ b # own => granted'[b] < count[b]
                           /\ b \in denied' => Limit <= count[b]
    BY <1>1, <1>12, <1>14 DEF Granted
  <2>1. granted[b] \in Nat /\ count[b] \in Nat
    BY DEF Typed
  <2>2. CASE b = own
    BY <1>2, <1>4, <2>1, <2>2, LimitsAssumption DEF Granted
  <2>3. CASE b # own
    BY <1>2, <2>1, <2>3, LimitsAssumption DEF Granted
  <2> QED
    BY <2>2, <2>3
<1> QED
  BY <1>8, <1>9, <1>10, <1>13, <1>15

\* Time passes.  A key that Redis deletes was used for the last time: with
\* clocks that differ by less than a minute, it has outlived its window.
LEMMA TickKeeps ==
  ASSUME LimiterInv, Tick
  PROVE  LimiterInv' /\ (Skew < Window /\ Granted => Granted')
<1> USE DEF LimiterInv
<1>1. /\ now < EndOfTime /\ now' = now + 1 /\ now \in Nat
      /\ \A c \in Calls : InFlight(c) => call[c].since = now
      /\ UNCHANGED <<call, arrived, granted, denied>>
  BY Times DEF Tick, Typed, InFlight
<1>2. /\ count' \in [Buckets -> Nat] /\ expiry' \in [Buckets -> 0..Never]
      /\ \A b \in Buckets :
           /\ count'[b] = IF expiry[b] <= now + 1 THEN 0 ELSE count[b]
           /\ expiry'[b] = IF expiry[b] <= now + 1 THEN Never ELSE expiry[b]
  BY <1>1, Times DEF Tick, Typed
<1>3. Typed'
  BY <1>1, <1>2, Times DEF Typed
<1>4. Timely'
  BY <1>1 DEF Timely, InFlight
<1>5. Counted'
  <2>1. Sends' = Sends
    BY <1>1 DEF Sends
  <2>2. Cardinality(Sends) \in Nat
    BY FS_CardinalityType DEF Counted
  <2>3. ASSUME NEW b \in Buckets
        PROVE  count'[b] + Cardinality(Sends) <= arrived * (Resends + 1)
    <3>1. /\ count[b] \in Nat /\ count'[b] \in Nat /\ count'[b] <= count[b]
      BY <1>2 DEF Typed
    <3>2. count[b] + Cardinality(Sends) <= arrived * (Resends + 1)
      BY DEF Counted
    <3>3. arrived * (Resends + 1) \in Nat
      BY Shares, LimitsAssumption DEF Typed
    <3> QED
      BY <2>2, <3>1, <3>2, <3>3
  <2> QED
    BY <1>1, <2>1, <2>3 DEF Counted
<1>6. ~(Never <= now + 1)
  BY <1>1, Times
<1>7. \A d \in Calls, b \in Buckets : Sets(d, b)' <=> Sets(d, b)
  BY <1>1 DEF Sets
<1>8. \A b \in Buckets : Setting(b)' <=> Setting(b)
  BY <1>7 DEF Setting
<1>9. Keyed'
  BY <1>2, <1>6, <1>7, <1>8 DEF Keyed
<1>10. ASSUME Skew < Window, NEW b \in Buckets, Open(b)'
       PROVE  Open(b) /\ count'[b] = count[b]
  <2>1. /\ b * Window \in Nat /\ b * Window + Window \in Nat
        /\ expiry[b] \in Nat
    BY BucketInTime, Times DEF Typed
  <2>2. Open(b) /\ now + 1 <= b * Window + Window
    <3>1. CASE now + 1 < b * Window + Window
      BY <1>1, <2>1, <3>1 DEF Open
    <3>2. ASSUME NEW c \in Calls, InFlight(c), call[c].bucket = b
          PROVE  Open(b) /\ now + 1 <= b * Window + Window
      <4>1. call[c].since = now /\ call[c].since < b * Window + Window
        BY <1>1, <3>2 DEF Timely
      <4> QED
        BY <1>1, <2>1, <3>2, <4>1 DEF Open
    <3> QED
      BY <1>1, <1>10, <3>1, <3>2 DEF Open, InFlight
  <2>3. ~(expiry[b] <= now + 1)
    <3>1. CASE expiry[b] = Never
      BY <1>6, <3>1
    <3>2. CASE expiry[b] # Never
      <4>1. b * Window + KeyTTL <= expiry[b] + Skew
        BY <3>2 DEF Keyed
      <4> QED
        BY <1>1, <1>10, <2>1, <2>2, <4>1, Times, LimitsAssumption
    <3> QED
      BY <3>1, <3>2
  <2> QED
    BY <1>2, <2>2, <2>3
<1>11. Skew < Window /\ Granted => Granted'
  BY <1>1, <1>8, <1>10 DEF Granted
<1> QED
  BY <1>3, <1>4, <1>5, <1>9, <1>11
-----------------------------------------------------------------------------
LEMMA InitLimiter == Init => LimiterInv /\ Granted
<1> SUFFICES ASSUME Init PROVE LimiterInv /\ Granted
  OBVIOUS
<1>1. Typed
  BY NoCallTyped, Times, LimitsAssumption DEF Init, Typed
<1>2. \A c \in Calls : call[c].at = "idle"
  BY DEF Init, NoCall
<1>3. \A b \in Buckets : ~Setting(b)
  BY <1>2 DEF Setting, Sets
<1>4. Timely /\ Keyed
  BY <1>2, <1>3 DEF Init, Timely, InFlight, Keyed, Sets
<1>5. Counted
  <2>1. Sends = {}
    BY <1>2 DEF Sends
  <2>2. \A b \in Buckets : count[b] = 0 /\ arrived = 0
    BY DEF Init
  <2>3. 0 * (Resends + 1) = 0
    BY LimitsAssumption
  <2> QED
    BY <2>1, <2>2, <2>3, FS_EmptySet DEF Counted
<1>6. Granted
  BY <1>3, LimitsAssumption DEF Init, Granted
<1> QED
  BY <1>1, <1>4, <1>5, <1>6 DEF LimiterInv

LEMMA NextLimiter ==
  LimiterInv /\ [Next]_vars => LimiterInv' /\ (Skew < Window /\ Granted => Granted')
<1> SUFFICES ASSUME LimiterInv, [Next]_vars
             PROVE  LimiterInv' /\ (Skew < Window /\ Granted => Granted')
  OBVIOUS
<1>1. CASE UNCHANGED vars
  <2>1. UNCHANGED <<now, count, expiry, call, arrived, granted, denied>>
    BY <1>1 DEF vars
  <2>2. Typed' /\ Timely'
    BY <2>1 DEF LimiterInv, Typed, Timely, InFlight
  <2>3. Sends' = Sends
    BY <2>1 DEF Sends
  <2>4. Counted' /\ Keyed'
    BY <2>1, <2>3 DEF LimiterInv, Counted, Keyed, Setting, Sets
  <2>5. Granted => Granted'
    BY <2>1 DEF Granted, Setting, Sets, Open, InFlight
  <2> QED
    BY <2>2, <2>4, <2>5 DEF LimiterInv
<1>2. CASE Next
  BY <1>2, EnterKeeps, LostKeeps, IncrKeeps, ExpireKeeps, TickKeeps
     DEF Next, AllowStep
<1> QED
  BY <1>1, <1>2

LEMMA LimiterInvariant == Spec => []LimiterInv
BY InitLimiter, NextLimiter, PTL DEF Spec

(***************************************************************************)
(* The counters stay within what the requests that arrived can have added, *)
(* each of them by one INCR and its repetitions.                           *)
(***************************************************************************)
THEOREM LimiterTypeCorrect == Spec => []TypeOK
<1>1. LimiterInv => TypeOK
  <2> SUFFICES ASSUME LimiterInv PROVE TypeOK
    OBVIOUS
  <2>1. \A b \in Buckets : count[b] \in 0..MaxArrivals * (Resends + 1)
    <3> SUFFICES ASSUME NEW b \in Buckets
                 PROVE  count[b] \in 0..MaxArrivals * (Resends + 1)
      OBVIOUS
    <3>1. count[b] \in Nat /\ Cardinality(Sends) \in Nat
      BY FS_CardinalityType DEF LimiterInv, Typed, Counted
    <3>2. count[b] + Cardinality(Sends) <= arrived * (Resends + 1)
      BY DEF LimiterInv, Counted
    <3>3. /\ arrived * (Resends + 1) \in Nat
          /\ arrived * (Resends + 1) <= MaxArrivals * (Resends + 1)
          /\ MaxArrivals * (Resends + 1) \in Nat
      BY Shares, SharesBound, LimitsAssumption DEF LimiterInv, Typed
    <3> QED
      BY <3>1, <3>2, <3>3
  <2>2. count \in [Buckets -> 0..MaxArrivals * (Resends + 1)]
    BY <2>1 DEF LimiterInv, Typed
  <2> QED
    BY <2>2 DEF LimiterInv, Typed, CallStates, TypeOK
<1> QED
  BY <1>1, LimiterInvariant, PTL

LEMMA GrantedInvariant ==
  ASSUME Skew < Window
  PROVE  Spec => [](LimiterInv /\ Granted)
<1>1. LimiterInv /\ Granted /\ [Next]_vars => LimiterInv' /\ Granted'
  BY NextLimiter
<1> QED
  BY <1>1, InitLimiter, PTL DEF Spec

(***************************************************************************)
(* As long as no pod's clock is a minute ahead, no minute admits more than *)
(* the limit, however many pods, requests and lost replies there are.      *)
(***************************************************************************)
THEOREM LimitIsKept ==
  ASSUME Skew < Window
  PROVE  Spec => []GrantedWithinLimit
<1>1. LimiterInv /\ Granted => GrantedWithinLimit
  BY DEF Granted, GrantedWithinLimit
<1> QED
  BY <1>1, GrantedInvariant, PTL

(***************************************************************************)
(* Under the same clocks, a minute that has denied a request denies all    *)
(* that can still be counted in it.                                        *)
(***************************************************************************)
THEOREM DeniedMinutesStayClosed ==
  ASSUME Skew < Window
  PROVE  Spec => []ClosedStaysClosed
<1>1. LimiterInv /\ Granted => ClosedStaysClosed
  <2> SUFFICES ASSUME LimiterInv, Granted, NEW c \in Calls,
                      call[c].at = "incr", call[c].bucket \in denied
               PROVE  count[call[c].bucket] >= Limit
    BY DEF ClosedStaysClosed
  <2>1. call[c].bucket \in Buckets /\ count[call[c].bucket] \in Nat
    BY DEF LimiterInv, Typed, CallStates
  <2>2. Open(call[c].bucket)
    BY DEF Open, InFlight
  <2> QED
    BY <2>1, <2>2, LimitsAssumption DEF Granted
<1> QED
  BY <1>1, GrantedInvariant, PTL
=============================================================================
