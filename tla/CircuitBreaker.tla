--------------------------- MODULE CircuitBreaker ---------------------------
(***************************************************************************)
(* internal/resilience/circuit_breaker.go and the calls FetchBid of        *)
(* internal/dsp/client.go makes through it: the breaker of one DSP, shared *)
(* by the goroutines of all bid requests that ask this DSP.                *)
(*                                                                         *)
(* The state machine is the library's (github.com/sony/gobreaker 1.0.0),   *)
(* configured by NewDSPCircuitBreaker.  It takes its lock before a call    *)
(* and again after it, never during it, so calls overlap.  Every change of *)
(* state and every elapsed interval starts a new generation, and a call    *)
(* that was let through in an earlier one is not counted when it ends:     *)
(* such a call is "stale" here.  An expiry, which the library notices at   *)
(* the next use, is a step of its own.                                     *)
(***************************************************************************)
EXTENDS Naturals, FiniteSets

CONSTANTS
  Callers,       \* goroutines calling FetchBid of this DSP
  MaxRequests,   \* calls let through while half-open (5)
  TripRequests,  \* calls counted before the breaker may trip (10)
  MaxCounted     \* bound on the calls counted in one generation

ASSUME SettingsAssumption ==
  /\ MaxRequests \in Nat \ {0} /\ TripRequests \in Nat \ {0}
  /\ MaxCounted \in Nat /\ MaxCounted >= TripRequests
ASSUME CallersAssumption == IsFiniteSet(Callers)

VARIABLES
  state,       \* closed, half-open or open
  requests,    \* Counts.Requests: calls let through in this generation
  successes,   \* Counts.ConsecutiveSuccesses
  total,       \* Counts.TotalSuccesses
  failures,    \* Counts.TotalFailures
  call,        \* each caller's call: idle, current or stale
  outcome      \* what its last FetchBid returned

counts == <<requests, successes, total, failures>>
vars   == <<state, counts, call, outcome>>

Init ==
  /\ state = "closed"
  /\ requests = 0 /\ successes = 0 /\ total = 0 /\ failures = 0
  /\ call = [c \in Callers |-> "idle"]
  /\ outcome = [c \in Callers |-> "none"]

\* What doFetch can end with, and what of it Execute counts as a failure: no
\* bid is a success for the breaker.
FetchResults == {"bids", "no bid", "timeout", "error"}

IsFailure(result) == result \in {"timeout", "error"}

\* The ratio of failures is above one half.
ReadyToTrip(reqs, fails) == reqs >= TripRequests /\ 2 * fails > reqs
-----------------------------------------------------------------------------
InFlight == {c \in Callers : call[c] = "current"}

\* toNewGeneration: nothing is counted yet, and nothing under way will be; the
\* calls in ending have just returned.
NewGeneration(ending) ==
  /\ requests' = 0 /\ successes' = 0 /\ total' = 0 /\ failures' = 0
  /\ call' = [c \in Callers |->
                IF c \in ending THEN "idle"
                ELSE IF call[c] = "current" THEN "stale" ELSE call[c]]

\* Mutant of Admits: one probe too many.
AdmitsOneMore == \/ state = "closed"
                 \/ state = "half-open" /\ requests <= MaxRequests

Admits == \/ state = "closed"
          \/ state = "half-open" /\ requests < MaxRequests

\* beforeRequest
Begin(c) ==
  /\ call[c] = "idle"
  /\ Admits
  /\ requests < MaxCounted
  /\ requests' = requests + 1
  /\ call' = [call EXCEPT ![c] = "current"]
  /\ UNCHANGED <<state, successes, total, failures, outcome>>

\* beforeRequest fails: ErrCircuitOpen, and the DSP is not asked.
Refuse(c) ==
  /\ call[c] = "idle"
  /\ ~Admits
  /\ outcome' = [outcome EXCEPT ![c] = "circuit open"]
  /\ UNCHANGED <<state, counts, call>>

\* Mutant of EndStale: the result is counted with those of this generation.
EndStaleCounted(c, result) ==
  /\ call[c] = "stale"
  /\ IF IsFailure(result)
     THEN failures' = failures + 1 /\ UNCHANGED <<total, successes>>
     ELSE /\ total' = total + 1 /\ successes' = successes + 1
          /\ UNCHANGED failures
  /\ call' = [call EXCEPT ![c] = "idle"]
  /\ UNCHANGED <<state, requests>>

\* afterRequest in a later generation.
EndStale(c, result) ==
  /\ call[c] = "stale"
  /\ call' = [call EXCEPT ![c] = "idle"]
  /\ UNCHANGED <<state, counts>>

\* Mutant of EndSuccess: one good probe closes the breaker.
EndSuccessClosing(c) ==
  /\ call[c] = "current"
  /\ IF state = "half-open"
     THEN state' = "closed" /\ NewGeneration({c})
     ELSE /\ total' = total + 1 /\ successes' = successes + 1
          /\ call' = [call EXCEPT ![c] = "idle"]
          /\ UNCHANGED <<state, requests, failures>>

\* onSuccess: the last of MaxRequests good probes in a row closes the breaker.
EndSuccess(c) ==
  /\ call[c] = "current"
  /\ IF state = "half-open" /\ successes + 1 >= MaxRequests
     THEN state' = "closed" /\ NewGeneration({c})
     ELSE /\ total' = total + 1 /\ successes' = successes + 1
          /\ call' = [call EXCEPT ![c] = "idle"]
          /\ UNCHANGED <<state, requests, failures>>

\* Mutant of EndFailure: a failing probe is only counted.
EndFailureCounting(c) ==
  /\ call[c] = "current"
  /\ IF state = "closed" /\ ReadyToTrip(requests, failures + 1)
     THEN state' = "open" /\ NewGeneration({c})
     ELSE /\ failures' = failures + 1 /\ successes' = 0
          /\ call' = [call EXCEPT ![c] = "idle"]
          /\ UNCHANGED <<state, requests, total>>

\* onFailure: a failing probe reopens at once.
EndFailure(c) ==
  /\ call[c] = "current"
  /\ IF state = "half-open" \/ ReadyToTrip(requests, failures + 1)
     THEN state' = "open" /\ NewGeneration({c})
     ELSE /\ failures' = failures + 1 /\ successes' = 0
          /\ call' = [call EXCEPT ![c] = "idle"]
          /\ UNCHANGED <<state, requests, total>>

\* FetchBid returns.
End(c) ==
  \E result \in FetchResults :
    /\ outcome' = [outcome EXCEPT ![c] = result]
    /\ \/ EndStale(c, result)
       \/ ~IsFailure(result) /\ EndSuccess(c)
       \/ IsFailure(result) /\ EndFailure(c)

\* 60 seconds of the closed state are over.
IntervalElapses ==
  /\ state = "closed"
  /\ NewGeneration({})
  /\ UNCHANGED <<state, outcome>>

\* 30 seconds of the open state are over.
TimeoutElapses ==
  /\ state = "open"
  /\ state' = "half-open"
  /\ NewGeneration({})
  /\ UNCHANGED outcome

Next ==
  \/ \E c \in Callers : Begin(c) \/ Refuse(c) \/ End(c)
  \/ IntervalElapses
  \/ TimeoutElapses

Spec == Init /\ [][Next]_vars

\* Time passes, every FetchBid ends (its context has a deadline), and bid
\* requests keep asking the DSP.
FairSpec ==
  /\ Spec
  /\ WF_vars(IntervalElapses)
  /\ WF_vars(TimeoutElapses)
  /\ \A c \in Callers : WF_vars(End(c)) /\ WF_vars(Begin(c))
-----------------------------------------------------------------------------
TypeOK ==
  /\ state \in {"closed", "half-open", "open"}
  /\ requests \in 0..MaxCounted
  /\ {successes, total, failures} \subseteq 0..MaxCounted
  /\ call \in [Callers -> {"idle", "current", "stale"}]
  /\ outcome \in [Callers -> FetchResults \cup {"none", "circuit open"}]

(***************************************************************************)
(* ReadyToTrip divides what it was told: although calls overlap, outlive   *)
(* intervals and end in any order, each one let through is in flight or    *)
(* counted exactly once, in the generation it began in.                    *)
(***************************************************************************)
CountsAddUp ==
  /\ requests = total + failures + Cardinality(InFlight)
  /\ successes <= total

(***************************************************************************)
(* A DSP under test is spared: while half-open at most MaxRequests calls   *)
(* of that trial are under way or done and none has failed, and open none  *)
(* is.  The half-open state has no timeout, so only a probe can end it:    *)
(* when the probes of the trial are used up, one is still under way.  (Were*)
(* it not, the DSP would be refused for ever.)                             *)
(***************************************************************************)
TrialSound ==
  /\ state = "open" => InFlight = {}
  /\ state = "half-open" =>
       /\ requests <= MaxRequests /\ failures = 0
       /\ requests = MaxRequests => InFlight # {}

(***************************************************************************)
(* The breaker closes only on a full trial of MaxRequests good probes and  *)
(* no other result, and opens only when a call has just failed; from       *)
(* closed, only in a generation that let TripRequests calls through and in *)
(* which failures outnumber successes.                                     *)
(***************************************************************************)
ChangesForCause ==
  [][/\ state = "half-open" /\ state' = "closed" =>
          requests = MaxRequests /\ total = MaxRequests - 1
     /\ state # "open" /\ state' = "open" =>
          \E c \in Callers : /\ call[c] = "current" /\ call'[c] = "idle"
                             /\ outcome'[c] \in {"timeout", "error"}
     /\ state = "closed" /\ state' = "open" =>
          requests >= TripRequests /\ failures + 1 > total]_vars

(***************************************************************************)
(* A breaker that has opened is not stuck: as long as requests come, the   *)
(* DSP is asked again and again.                                           *)
(***************************************************************************)
AskedAgain == []<>(InFlight # {})
=============================================================================
