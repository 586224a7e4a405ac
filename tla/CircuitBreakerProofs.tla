------------------------ MODULE CircuitBreakerProofs ------------------------
(***************************************************************************)
(* Proofs about CircuitBreaker for any number of callers and any settings: *)
(* the counts add up, a trial spares the DSP, and the breaker changes      *)
(* state for cause only.                                                   *)
(***************************************************************************)
EXTENDS CircuitBreaker, FiniteSetTheorems, TLAPS

\* What the last FetchBid of a caller may have returned.
Returns == FetchResults \cup {"none", "circuit open"}

Typed ==
  /\ state \in {"closed", "half-open", "open"}
  /\ requests \in 0..MaxCounted
  /\ successes \in Nat /\ total \in Nat /\ failures \in Nat
  /\ call \in [Callers -> {"idle", "current", "stale"}]
  /\ outcome \in [Callers -> Returns]

LEMMA ReturnsOf ==
  /\ FetchResults \subseteq Returns
  /\ "none" \in Returns /\ "circuit open" \in Returns
BY DEF Returns

\* What holds of the counts in each state.  In a trial all results are
\* successes in a row, and not yet enough of them to close.
Trial ==
  /\ state = "open" => requests = 0
  /\ state = "half-open" =>
       /\ requests <= MaxRequests /\ failures = 0
       /\ successes = total /\ successes < MaxRequests

BreakerInv == Typed /\ CountsAddUp /\ Trial

\* The calls under way, of which there are as many as were let through and
\* not counted yet.
LEMMA InFlightFinite ==
  IsFiniteSet(InFlight) /\ Cardinality(InFlight) \in Nat
<1>1. IsFiniteSet(InFlight)
  BY CallersAssumption, FS_Subset DEF InFlight
<1> QED
  BY <1>1, FS_CardinalityType

LEMMA NobodyInFlight == Cardinality(InFlight) = 0 <=> InFlight = {}
BY InFlightFinite, FS_EmptySet

LEMMA SomebodyInFlight ==
  ASSUME NEW c \in Callers, call[c] = "current"
  PROVE  /\ c \in InFlight
         /\ Cardinality(InFlight) >= 1
         /\ Cardinality(InFlight \ {c}) = Cardinality(InFlight) - 1
<1>1. c \in InFlight
  BY DEF InFlight
<1>2. Cardinality(InFlight) # 0
  BY <1>1, NobodyInFlight
<1>3. Cardinality(InFlight \ {c}) = Cardinality(InFlight) - 1
  BY <1>1, InFlightFinite, FS_RemoveElement
<1> QED
  BY <1>1, <1>2, <1>3, InFlightFinite

\* A new generation starts from nothing, whatever is still under way.
LEMMA FreshGeneration ==
  ASSUME Typed, NEW ending \in SUBSET Callers, NewGeneration(ending)
  PROVE  /\ InFlight' = {} /\ Cardinality(InFlight') = 0
         /\ requests' = 0 /\ successes' = 0 /\ total' = 0 /\ failures' = 0
         /\ call' \in [Callers -> {"idle", "current", "stale"}]
         /\ CountsAddUp'
<1>1. InFlight' = {}
  BY DEF NewGeneration, InFlight, Typed
<1>2. Cardinality(InFlight') = 0
  BY <1>1, FS_EmptySet
<1>3. call' \in [Callers -> {"idle", "current", "stale"}]
  BY DEF NewGeneration, Typed
<1> QED
  BY <1>1, <1>2, <1>3 DEF NewGeneration, CountsAddUp

LEMMA GenerationKeepsInv ==
  ASSUME BreakerInv, NEW ending \in SUBSET Callers, NewGeneration(ending),
         state' \in {"closed", "half-open", "open"},
         outcome' \in [Callers -> Returns]
  PROVE  BreakerInv'
<1>1. Typed
  BY DEF BreakerInv
<1> QED
  BY <1>1, FreshGeneration, SettingsAssumption
     DEF BreakerInv, Typed, Trial

\* A call that is counted when it ends leaves the set in flight.
LEMMA EndedCall ==
  ASSUME Typed, NEW c \in Callers, call[c] = "current",
         call' = [call EXCEPT ![c] = "idle"]
  PROVE  Cardinality(InFlight') = Cardinality(InFlight) - 1
<1>1. InFlight' = InFlight \ {c}
  BY DEF InFlight, Typed
<1> QED
  BY <1>1, SomebodyInFlight

LEMMA BeginKeepsInv ==
  ASSUME BreakerInv, NEW c \in Callers, Begin(c)
  PROVE  BreakerInv'
<1> USE DEF BreakerInv
<1>1. c \notin InFlight /\ InFlight' = InFlight \cup {c}
  BY DEF Begin, InFlight, Typed
<1>2. Cardinality(InFlight') = Cardinality(InFlight) + 1
  BY <1>1, InFlightFinite, FS_AddElement
<1>3. Typed'
  BY SettingsAssumption DEF Begin, Typed
<1>4. CountsAddUp'
  BY <1>2, InFlightFinite DEF Begin, CountsAddUp, Typed
<1>5. Trial'
  BY SettingsAssumption DEF Begin, Admits, Trial, Typed
<1> QED
  BY <1>3, <1>4, <1>5

LEMMA EndSuccessKeepsInv ==
  ASSUME BreakerInv, NEW c \in Callers, EndSuccess(c),
         outcome' \in [Callers -> Returns]
  PROVE  BreakerInv'
<1>1. CASE state' = "closed" /\ NewGeneration({c})
  BY <1>1, GenerationKeepsInv
<1>2. CASE /\ ~(state = "half-open" /\ successes + 1 >= MaxRequests)
           /\ total' = total + 1 /\ successes' = successes + 1
           /\ call' = [call EXCEPT ![c] = "idle"]
           /\ UNCHANGED <<state, requests, failures>>
  <2> USE DEF BreakerInv
  <2>1. call[c] = "current"
    BY DEF EndSuccess
  <2>2. Cardinality(InFlight') = Cardinality(InFlight) - 1
    BY <1>2, <2>1, EndedCall
  <2>3. Typed'
    BY <1>2 DEF Typed
  <2>4. CountsAddUp'
    BY <1>2, <2>2, InFlightFinite DEF CountsAddUp, Typed
  <2>5. Trial'
    BY <1>2, SettingsAssumption DEF Trial, Typed
  <2> QED
    BY <2>3, <2>4, <2>5
<1> QED
  BY <1>1, <1>2 DEF EndSuccess

LEMMA EndFailureKeepsInv ==
  ASSUME BreakerInv, NEW c \in Callers, EndFailure(c),
         outcome' \in [Callers -> Returns]
  PROVE  BreakerInv'
<1>1. CASE state' = "open" /\ NewGeneration({c})
  BY <1>1, GenerationKeepsInv
<1>2. CASE /\ state # "half-open"
           /\ failures' = failures + 1 /\ successes' = 0
           /\ call' = [call EXCEPT ![c] = "idle"]
           /\ UNCHANGED <<state, requests, total>>
  <2> USE DEF BreakerInv
  <2>1. call[c] = "current"
    BY DEF EndFailure
  <2>2. Cardinality(InFlight') = Cardinality(InFlight) - 1
    BY <1>2, <2>1, EndedCall
  <2>3. Typed'
    BY <1>2 DEF Typed
  <2>4. CountsAddUp'
    BY <1>2, <2>2, InFlightFinite DEF CountsAddUp, Typed
  <2>5. Trial'
    BY <1>2 DEF Trial
  <2> QED
    BY <2>3, <2>4, <2>5
<1> QED
  BY <1>1, <1>2 DEF EndFailure

\* Steps that leave the counts and the calls in flight alone.
LEMMA UncountedKeepsInv ==
  ASSUME BreakerInv, UNCHANGED <<state, counts>>, InFlight' = InFlight,
         call' \in [Callers -> {"idle", "current", "stale"}],
         outcome' \in [Callers -> Returns]
  PROVE  BreakerInv'
BY DEF BreakerInv, Typed, CountsAddUp, Trial, counts

LEMMA EndKeepsInv ==
  ASSUME BreakerInv, NEW c \in Callers, End(c)
  PROVE  BreakerInv'
<1>1. PICK result \in FetchResults :
        /\ outcome' = [outcome EXCEPT ![c] = result]
        /\ \/ EndStale(c, result)
           \/ ~IsFailure(result) /\ EndSuccess(c)
           \/ IsFailure(result) /\ EndFailure(c)
  BY DEF End
<1>2. outcome' \in [Callers -> Returns]
  BY <1>1, ReturnsOf DEF BreakerInv, Typed
<1>3. CASE EndStale(c, result)
  <2>1. InFlight' = InFlight
        /\ call' \in [Callers -> {"idle", "current", "stale"}]
    BY <1>3 DEF EndStale, InFlight, BreakerInv, Typed
  <2> QED
    BY <1>2, <1>3, <2>1, UncountedKeepsInv DEF EndStale
<1> QED
  BY <1>1, <1>2, <1>3, EndSuccessKeepsInv, EndFailureKeepsInv

LEMMA InitBreakerInv == Init => BreakerInv
<1> SUFFICES ASSUME Init PROVE BreakerInv
  OBVIOUS
<1>1. InFlight = {} /\ Cardinality(InFlight) = 0
  BY NobodyInFlight DEF Init, InFlight
<1>2. outcome \in [Callers -> Returns]
  BY ReturnsOf DEF Init
<1>3. Typed
  BY <1>2, SettingsAssumption DEF Init, Typed
<1>4. CountsAddUp /\ Trial
  BY <1>1, SettingsAssumption DEF Init, CountsAddUp, Trial
<1> QED
  BY <1>3, <1>4 DEF BreakerInv

LEMMA NextBreakerInv == BreakerInv /\ [Next]_vars => BreakerInv'
<1> SUFFICES ASSUME BreakerInv, [Next]_vars PROVE BreakerInv'
  OBVIOUS
<1>1. ASSUME NEW c \in Callers, Refuse(c) PROVE BreakerInv'
  <2>1. /\ InFlight' = InFlight
        /\ call' \in [Callers -> {"idle", "current", "stale"}]
        /\ outcome' \in [Callers -> Returns]
    BY <1>1, ReturnsOf DEF Refuse, InFlight, BreakerInv, Typed
  <2> QED
    BY <1>1, <2>1, UncountedKeepsInv DEF Refuse
<1>2. CASE IntervalElapses
  BY <1>2, GenerationKeepsInv DEF IntervalElapses, BreakerInv, Typed
<1>3. CASE TimeoutElapses
  BY <1>3, GenerationKeepsInv DEF TimeoutElapses, BreakerInv, Typed
<1>4. CASE UNCHANGED vars
  <2>1. InFlight' = InFlight
    BY <1>4 DEF vars, InFlight
  <2> QED
    BY <1>4, <2>1, UncountedKeepsInv DEF vars, BreakerInv, Typed
<1> QED
  BY <1>1, <1>2, <1>3, <1>4, BeginKeepsInv, EndKeepsInv DEF Next

LEMMA BreakerInvariant == Spec => []BreakerInv
BY InitBreakerInv, NextBreakerInv, PTL DEF Spec

(***************************************************************************)
(* No count exceeds the number of calls let through in its generation, and *)
(* every caller is idle, counted in this generation, or stale.             *)
(***************************************************************************)
THEOREM BreakerTypeCorrect == Spec => []TypeOK
<1>1. BreakerInv => TypeOK
  <2> SUFFICES ASSUME BreakerInv PROVE TypeOK
    OBVIOUS
  <2>1. {successes, total, failures} \subseteq 0..MaxCounted
    BY InFlightFinite, SettingsAssumption DEF BreakerInv, Typed, CountsAddUp
  <2> QED
    BY <2>1 DEF BreakerInv, Typed, TypeOK, Returns
<1> QED
  BY <1>1, BreakerInvariant, PTL

(***************************************************************************)
(* However many calls overlap, outlive their generation and end in any     *)
(* order, the counts that ReadyToTrip is shown add up.                     *)
(***************************************************************************)
THEOREM CountsAlwaysAddUp == Spec => []CountsAddUp
<1>1. BreakerInv => CountsAddUp
  BY DEF BreakerInv
<1> QED
  BY <1>1, BreakerInvariant, PTL

(***************************************************************************)
(* A half-open breaker lets at most MaxRequests calls reach the DSP, and   *)
(* one of them can still end the trial.                                    *)
(***************************************************************************)
THEOREM TrialsAreSound == Spec => []TrialSound
<1>1. BreakerInv => TrialSound
  <2> SUFFICES ASSUME BreakerInv PROVE TrialSound
    OBVIOUS
  <2>1. state = "open" => InFlight = {}
    BY InFlightFinite, NobodyInFlight
       DEF BreakerInv, Typed, CountsAddUp, Trial
  <2>2. state = "half-open" /\ requests = MaxRequests => InFlight # {}
    BY InFlightFinite, NobodyInFlight, SettingsAssumption
       DEF BreakerInv, Typed, CountsAddUp, Trial
  <2> QED
    BY <2>1, <2>2 DEF BreakerInv, Trial, TrialSound
<1> QED
  BY <1>1, BreakerInvariant, PTL

(***************************************************************************)
(* The breaker closes only after a full trial without a failure, opens     *)
(* only on a failure, and from closed only after TripRequests calls of     *)
(* which more failed than succeeded.                                       *)
(***************************************************************************)
THEOREM StateChangesForCause == Spec => ChangesForCause
<1> DEFINE Cause ==
      /\ state = "half-open" /\ state' = "closed" =>
           requests = MaxRequests /\ total = MaxRequests - 1
      /\ state # "open" /\ state' = "open" =>
           \E c \in Callers : /\ call[c] = "current" /\ call'[c] = "idle"
                              /\ outcome'[c] \in {"timeout", "error"}
      /\ state = "closed" /\ state' = "open" =>
           requests >= TripRequests /\ failures + 1 > total
<1>1. BreakerInv /\ [Next]_vars => Cause
  <2> SUFFICES ASSUME BreakerInv, [Next]_vars PROVE Cause
    OBVIOUS
  <2>1. CASE state' = state
    BY <2>1
  <2>2. CASE TimeoutElapses
    BY <2>2 DEF TimeoutElapses
  <2>3. ASSUME NEW c \in Callers, NEW result \in FetchResults,
               outcome' = [outcome EXCEPT ![c] = result],
               ~IsFailure(result), EndSuccess(c)
        PROVE  Cause
    <3>1. call[c] = "current"
      BY <2>3 DEF EndSuccess
    <3>2. CASE state = "half-open" /\ successes + 1 >= MaxRequests
               /\ state' = "closed"
      <4>1. Cardinality(InFlight) \in Nat /\ Cardinality(InFlight) >= 1
        BY <3>1, SomebodyInFlight, InFlightFinite
      <4>2. requests = MaxRequests /\ total = MaxRequests - 1
        BY <3>2, <4>1, SettingsAssumption
           DEF BreakerInv, Typed, CountsAddUp, Trial
      <4> QED
        BY <3>2, <4>2
    <3> QED
      BY <2>1, <2>3, <3>2 DEF EndSuccess
  <2>4. ASSUME NEW c \in Callers, NEW result \in FetchResults,
               outcome' = [outcome EXCEPT ![c] = result],
               IsFailure(result), EndFailure(c)
        PROVE  Cause
    <3>1. call[c] = "current"
      BY <2>4 DEF EndFailure
    <3>2. CASE /\ state = "half-open" \/ ReadyToTrip(requests, failures + 1)
               /\ state' = "open" /\ NewGeneration({c})
      <4>1. call'[c] = "idle" /\ outcome'[c] \in {"timeout", "error"}
        BY <2>4, <3>2 DEF NewGeneration, IsFailure, BreakerInv, Typed
      <4>2. state = "closed" => requests >= TripRequests /\ failures + 1 > total
        <5>1. Cardinality(InFlight) \in Nat /\ Cardinality(InFlight) >= 1
          BY <3>1, SomebodyInFlight, InFlightFinite
        <5>2. requests = total + failures + Cardinality(InFlight)
              /\ requests \in Nat /\ total \in Nat /\ failures \in Nat
          BY SettingsAssumption DEF BreakerInv, Typed, CountsAddUp
        <5>3. state = "closed" =>
                requests >= TripRequests /\ 2 * (failures + 1) > requests
          BY <3>2 DEF ReadyToTrip
        <5> QED
          BY <5>1, <5>2, <5>3
      <4> QED
        BY <3>1, <3>2, <4>1, <4>2
    <3> QED
      BY <2>1, <2>4, <3>2 DEF EndFailure
  <2>5. ASSUME NEW c \in Callers, End(c) PROVE Cause
    BY <2>1, <2>3, <2>4, <2>5 DEF End, EndStale
  <2> HIDE DEF Cause
  <2> QED
    BY <2>1, <2>2, <2>5 DEF Next, Begin, Refuse, IntervalElapses, vars
<1> QED
  BY <1>1, BreakerInvariant, PTL DEF Spec, ChangesForCause
=============================================================================
