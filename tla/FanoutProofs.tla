---------------------------- MODULE FanoutProofs ----------------------------
(***************************************************************************)
(* Proofs about Fanout for any number of clients and any offers: nothing   *)
(* panics, no send blocks, nothing fetched is lost or returned twice, and  *)
(* FetchBids implements Demand.                                            *)
(***************************************************************************)
EXTENDS Fanout, FiniteSetTheorems, SequenceTheorems, TLAPS

NoRepeats(s) == \A i, j \in DOMAIN s : s[i] = s[j] => i = j

\* Goroutines that were counted and have not called Done.
Running == {d \in clients : fetch[d] \in {"fetching", "sending", "leaving"}}

Typed ==
  /\ clients \in SUBSET DSPs
  /\ fetch \in [clients -> Stages]
  /\ batch \in [clients -> Offers \cup {Nothing}]
  /\ results \in Seq(clients) /\ Len(results) <= Capacity
  /\ allBids \in Seq(clients)
  /\ closed \in BOOLEAN /\ expired \in BOOLEAN
  /\ closer \in {"not started", "waiting", "done"}
  /\ main \in {"starting", "receiving", "returned"}

\* The order of the phases of FetchBids, its closer and its goroutines.
Phases ==
  /\ main = "starting" <=> closer = "not started"
  /\ main # "starting" => \A d \in clients : fetch[d] # "not started"
  /\ closed <=> closer = "done"
  /\ closed => \A d \in clients : fetch[d] = "done"
  /\ main = "returned" => closed /\ results = <<>>
  /\ panicked = FALSE

\* A batch is in the channel or received, and in one place only, from the
\* send on; there is none without a send.
Delivery ==
  /\ NoRepeats(results) /\ NoRepeats(allBids)
  /\ Range(results) \cap Range(allBids) = {}
  /\ \A d \in clients :
       /\ fetch[d] \in {"not started", "fetching"} => batch[d] = Nothing
       /\ fetch[d] = "sending" => batch[d] # Nothing
       /\ d \in Range(results) \cup Range(allBids) <=>
            fetch[d] \in {"leaving", "done"} /\ batch[d] # Nothing

FanoutInv == Typed /\ wg = Cardinality(Running) /\ Phases /\ Delivery

-----------------------------------------------------------------------------
(* Sequences as sets. *)

LEMMA EmptyRange == Range(<<>>) = {} /\ NoRepeats(<<>>)
BY DEF Range, NoRepeats

LEMMA AppendToRange ==
  ASSUME NEW S, NEW s \in Seq(S), NEW e \in S
  PROVE  /\ Append(s, e) \in Seq(S)
         /\ Len(Append(s, e)) = Len(s) + 1
         /\ Range(Append(s, e)) = Range(s) \cup {e}
         /\ NoRepeats(s) /\ e \notin Range(s) => NoRepeats(Append(s, e))
<1> DEFINE t == Append(s, e)
<1>1. /\ t \in Seq(S) /\ Len(t) = Len(s) + 1 /\ Len(s) \in Nat
      /\ DOMAIN t = 1..Len(s) + 1 /\ DOMAIN s = 1..Len(s)
      /\ t[Len(s) + 1] = e
      /\ \A i \in 1..Len(s) : t[i] = s[i]
  BY AppendProperties, LenProperties
<1> HIDE DEF t
<1>2. Range(t) = Range(s) \cup {e}
  <2>1. ASSUME NEW i \in DOMAIN t PROVE t[i] \in Range(s) \cup {e}
    <3>1. i = Len(s) + 1 \/ i \in 1..Len(s)
      BY <1>1
    <3> QED
      BY <1>1, <3>1 DEF Range
  <2>2. ASSUME NEW i \in DOMAIN s PROVE s[i] \in Range(t)
    <3>1. i \in DOMAIN t /\ t[i] = s[i]
      BY <1>1
    <3> QED
      BY <3>1 DEF Range
  <2>3. e \in Range(t)
    <3>1. Len(s) + 1 \in DOMAIN t
      BY <1>1
    <3> QED
      BY <1>1, <3>1 DEF Range
  <2> QED
    BY <2>1, <2>2, <2>3 DEF Range
<1>3. ASSUME NoRepeats(s), e \notin Range(s) PROVE NoRepeats(t)
  <2> SUFFICES ASSUME NEW i \in DOMAIN t, NEW j \in DOMAIN t, t[i] = t[j]
               PROVE  i = j
    BY DEF NoRepeats
  <2>1. ASSUME NEW k \in 1..Len(s) PROVE t[k] # e
    BY <1>1, <1>3, <2>1 DEF Range
  <2>2. /\ i = Len(s) + 1 \/ i \in 1..Len(s)
        /\ j = Len(s) + 1 \/ j \in 1..Len(s)
    BY <1>1
  <2>3. CASE i \in 1..Len(s) /\ j \in 1..Len(s)
    BY <1>1, <1>3, <2>3 DEF NoRepeats
  <2> QED
    BY <1>1, <2>1, <2>2, <2>3
<1> QED
  BY <1>1, <1>2, <1>3 DEF t

LEMMA TailOfRange ==
  ASSUME NEW S, NEW s \in Seq(S), s # <<>>
  PROVE  /\ Head(s) \in S /\ Head(s) \in Range(s)
         /\ Tail(s) \in Seq(S) /\ Len(Tail(s)) = Len(s) - 1
         /\ Range(s) = Range(Tail(s)) \cup {Head(s)}
         /\ NoRepeats(s) => NoRepeats(Tail(s)) /\ Head(s) \notin Range(Tail(s))
<1> DEFINE t == Tail(s)
<1>1. /\ Head(s) \in S /\ t \in Seq(S) /\ Len(t) = Len(s) - 1
      /\ Len(s) \in Nat /\ Len(s) >= 1 /\ Head(s) = s[1]
      /\ DOMAIN s = 1..Len(s) /\ DOMAIN t = 1..Len(s) - 1
      /\ \A i \in 1..Len(s) - 1 : t[i] = s[i + 1]
  BY HeadTailProperties, LenProperties, EmptySeq
<1> HIDE DEF t
<1>2. Head(s) \in Range(s)
  <2>1. 1 \in DOMAIN s
    BY <1>1
  <2> QED
    BY <1>1, <2>1 DEF Range
<1>3. Range(s) = Range(t) \cup {Head(s)}
  <2>1. ASSUME NEW i \in DOMAIN s PROVE s[i] \in Range(t) \cup {Head(s)}
    <3>1. CASE i = 1
      BY <1>1, <3>1
    <3>2. CASE i # 1
      <4>1. i - 1 \in DOMAIN t /\ t[i - 1] = s[i]
        BY <1>1, <3>2
      <4> QED
        BY <4>1 DEF Range
    <3> QED
      BY <3>1, <3>2
  <2>2. ASSUME NEW i \in DOMAIN t PROVE t[i] \in Range(s)
    <3>1. i + 1 \in DOMAIN s /\ t[i] = s[i + 1]
      BY <1>1
    <3> QED
      BY <3>1 DEF Range
  <2> QED
    BY <1>2, <2>1, <2>2 DEF Range
<1>4. ASSUME NoRepeats(s) PROVE NoRepeats(t) /\ Head(s) \notin Range(t)
  <2>1. ASSUME NEW i \in DOMAIN t PROVE i + 1 \in DOMAIN s /\ i + 1 # 1
    BY <1>1
  <2>2. NoRepeats(t)
    <3> SUFFICES ASSUME NEW i \in DOMAIN t, NEW j \in DOMAIN t, t[i] = t[j]
                 PROVE  i = j
      BY DEF NoRepeats
    <3>1. s[i + 1] = s[j + 1]
      BY <1>1
    <3>2. i + 1 = j + 1
      BY <1>4, <2>1, <3>1 DEF NoRepeats
    <3> QED
      BY <1>1, <3>2
  <2>3. ASSUME NEW i \in DOMAIN t, t[i] = Head(s) PROVE FALSE
    <3>1. s[i + 1] = s[1] /\ 1 \in DOMAIN s
      BY <1>1, <2>3
    <3> QED
      BY <1>4, <2>1, <3>1 DEF NoRepeats
  <2> QED
    BY <2>2, <2>3 DEF Range
<1> QED
  BY <1>1, <1>2, <1>3, <1>4 DEF t

-----------------------------------------------------------------------------
(* The wait group. *)

LEMMA RunningFinite ==
  ASSUME Typed
  PROVE  /\ IsFiniteSet(clients) /\ Cardinality(clients) \in Nat
         /\ IsFiniteSet(Running) /\ Cardinality(Running) \in Nat
         /\ Cardinality(Running) <= Cardinality(clients)
         /\ Cardinality(Running) = 0 <=> Running = {}
<1>1. IsFiniteSet(clients)
  BY DSPsAssumption, FS_Subset DEF Typed
<1>2. Running \in SUBSET clients
  BY DEF Running
<1>3. IsFiniteSet(Running) /\ Cardinality(Running) <= Cardinality(clients)
  BY <1>1, <1>2, FS_Subset
<1> QED
  BY <1>1, <1>3, FS_CardinalityType, FS_EmptySet

\* A client that still has to send leaves room for it in the channel.
LEMMA RoomToSend ==
  ASSUME FanoutInv, NEW d \in clients, fetch[d] = "sending"
  PROVE  ~closed /\ Len(results) < Capacity
<1>1. ~closed
  BY DEF FanoutInv, Phases
<1> DEFINE others == clients \ {d}
<1>2. d \notin Range(results)
  BY DEF FanoutInv, Delivery
<1>3. Len(results) \in Nat /\ DOMAIN results = 1..Len(results)
      /\ results \in [1..Len(results) -> clients]
  BY LenProperties DEF FanoutInv, Typed
<1>4. results \in Injection(1..Len(results), others)
  <2>1. results \in [1..Len(results) -> others]
    BY <1>2, <1>3 DEF Range
  <2>2. NoRepeats(results)
    BY DEF FanoutInv, Delivery
  <2> QED
    BY <1>3, <2>1, <2>2 DEF Injection, IsInjective, NoRepeats
<1>5. /\ IsFiniteSet(others) /\ Cardinality(clients) \in Nat
      /\ Cardinality(others) = Cardinality(clients) - 1
  BY RunningFinite, FS_RemoveElement DEF FanoutInv
<1>6. Cardinality(1..Len(results)) <= Cardinality(others)
  <2> HIDE DEF others
  <2> QED
    BY <1>4, <1>5, FS_Injection
<1>7. Cardinality(1..Len(results)) = Len(results)
  BY <1>3, FS_Interval
<1> QED
  BY <1>1, <1>3, <1>5, <1>6, <1>7 DEF Capacity

-----------------------------------------------------------------------------
(* FanoutInv is inductive. *)

LEMMA StagesOf == \A s \in {"not started", "fetching", "sending", "leaving",
                            "done"} : s \in Stages
BY DEF Stages

LEMMA InitFanoutInv == Init => FanoutInv
<1> SUFFICES ASSUME Init PROVE FanoutInv
  OBVIOUS
<1>1. Running = {} /\ Cardinality(Running) = 0
  BY FS_EmptySet DEF Init, Running
<1>2. Typed
  <2>1. <<>> \in Seq(clients) /\ Len(<<>>) = 0
    BY EmptySeq
  <2>2. IsFiniteSet(clients) /\ Cardinality(clients) \in Nat
    BY DSPsAssumption, FS_Subset, FS_CardinalityType DEF Init
  <2>3. results \in Seq(clients) /\ Len(results) <= Capacity
    <3>1. results = <<>> /\ Capacity = Cardinality(clients)
      BY DEF Init, Capacity
    <3>2. Len(results) = 0
      BY <2>1, <3>1
    <3> QED
      BY <2>1, <2>2, <3>1, <3>2
  <2> QED
    BY <2>1, <2>3, StagesOf DEF Init, Typed
<1>3. Phases /\ Delivery
  BY EmptyRange DEF Init, Phases, Delivery
<1> QED
  BY <1>1, <1>2, <1>3 DEF FanoutInv, Init

LEMMA StartFetchKeepsInv ==
  ASSUME FanoutInv, NEW d \in clients, StartFetch(d)
  PROVE  FanoutInv'
<1> USE DEF FanoutInv
<1>1. d \notin Running /\ Running' = Running \cup {d}
  BY DEF StartFetch, Running, Typed
<1>2. wg' = Cardinality(Running')
  BY <1>1, RunningFinite, FS_AddElement DEF StartFetch
<1>3. Typed'
  BY StagesOf DEF StartFetch, Typed, Capacity
<1>4. Phases'
  BY DEF StartFetch, Phases
<1>5. Delivery'
  BY DEF StartFetch, Delivery, Typed
<1> QED
  BY <1>2, <1>3, <1>4, <1>5

LEMMA FetchEndsKeepsInv ==
  ASSUME FanoutInv, NEW d \in clients, FetchSucceeds(d) \/ FetchFails(d)
  PROVE  FanoutInv'
<1> USE DEF FanoutInv
<1>1. Running' = Running
  BY DEF FetchSucceeds, FetchFails, Running, Typed
<1>2. wg' = Cardinality(Running')
  BY <1>1 DEF FetchSucceeds, FetchFails
<1>3. Typed'
  BY StagesOf DEF FetchSucceeds, FetchFails, Typed, Capacity
<1>4. Phases'
  <2>1. fetch[d] = "fetching" /\ fetch \in [clients -> Stages]
    BY DEF FetchSucceeds, FetchFails, Typed
  <2>2. fetch' \in {[fetch EXCEPT ![d] = "sending"],
                    [fetch EXCEPT ![d] = "leaving"]}
    BY DEF FetchSucceeds, FetchFails
  <2>3. UNCHANGED <<clients, results, closed, closer, main, panicked>>
    BY DEF FetchSucceeds, FetchFails
  <2> QED
    BY <2>1, <2>2, <2>3 DEF Phases
<1>5. Delivery'
  BY OffersAssumption
     DEF FetchSucceeds, FetchFails, Delivery, Typed, Nothing
<1> QED
  BY <1>2, <1>3, <1>4, <1>5

LEMMA SendKeepsInv ==
  ASSUME FanoutInv, NEW d \in clients, Send(d)
  PROVE  FanoutInv'
<1> USE DEF FanoutInv
<1>1. /\ results' = Append(results, d) /\ UNCHANGED panicked
      /\ Len(results) < Capacity
  BY RoomToSend DEF Send
<1>2. Running' = Running
  BY DEF Send, Running, Typed
<1>3. wg' = Cardinality(Running')
  BY <1>2 DEF Send
<1>4. /\ results' \in Seq(clients) /\ Len(results') = Len(results) + 1
      /\ Len(results) \in Nat
      /\ Range(results') = Range(results) \cup {d}
      /\ NoRepeats(results) /\ d \notin Range(results) => NoRepeats(results')
  <2>1. results \in Seq(clients)
    BY DEF Typed
  <2> QED
    BY <1>1, <2>1, AppendToRange, LenProperties
<1>5. Typed'
  <2>1. Capacity \in Nat /\ Capacity' = Capacity
    BY RunningFinite DEF Capacity, Send
  <2>2. Len(results') <= Capacity'
    BY <1>1, <1>4, <2>1
  <2>3. fetch' \in [clients' -> Stages]
    BY StagesOf DEF Send, Typed
  <2> QED
    BY <1>4, <2>2, <2>3 DEF Send, Typed
<1>6. Phases'
  BY <1>1, RoomToSend DEF Send, Phases, Typed
<1>7. Delivery'
  BY <1>4 DEF Send, Delivery, Typed
<1> QED
  BY <1>3, <1>5, <1>6, <1>7

LEMMA DoneKeepsInv ==
  ASSUME FanoutInv, NEW d \in clients, Done(d)
  PROVE  FanoutInv'
<1> USE DEF FanoutInv
<1>1. d \in Running /\ Running' = Running \ {d}
  BY DEF Done, Running, Typed
<1>2. wg' = Cardinality(Running') /\ wg' >= 0
  <2>1. IsFiniteSet(Running) /\ Cardinality(Running) \in Nat \ {0}
    BY <1>1, RunningFinite
  <2>2. Cardinality(Running \ {d}) = Cardinality(Running) - 1
    BY <1>1, <2>1, FS_RemoveElement
  <2> QED
    BY <1>1, <2>1, <2>2 DEF Done
<1>3. Typed'
  BY StagesOf DEF Done, Typed, Capacity
<1>4. Phases'
  <2>1. panicked' = FALSE
    <3>1. wg' = wg - 1 /\ wg' >= 0 /\ panicked' = (panicked \/ wg' < 0)
      BY <1>2 DEF Done
    <3>2. wg' \in Int /\ ~(wg' < 0)
      BY <3>1, RunningFinite
    <3>3. panicked = FALSE
      BY DEF Phases
    <3> QED
      BY <3>1, <3>2, <3>3, Zenon
  <2> QED
    BY <2>1 DEF Done, Phases, Typed
<1>5. Delivery'
  BY DEF Done, Delivery, Typed
<1> QED
  BY <1>2, <1>3, <1>4, <1>5

LEMMA ReceiveKeepsInv ==
  ASSUME FanoutInv, Receive
  PROVE  FanoutInv'
<1> USE DEF FanoutInv
<1>1. /\ Head(results) \in clients
      /\ results' \in Seq(clients) /\ Len(results') = Len(results) - 1
      /\ Len(results) \in Nat
      /\ Range(results) = Range(results') \cup {Head(results)}
      /\ NoRepeats(results')
      /\ Head(results) \notin Range(results')
      /\ Head(results) \in Range(results)
  BY TailOfRange, LenProperties DEF Receive, Typed, Delivery
<1>2. /\ allBids' \in Seq(clients)
      /\ Range(allBids') = Range(allBids) \cup {Head(results)}
      /\ NoRepeats(allBids')
  <2>1. allBids \in Seq(clients) /\ allBids' = Append(allBids, Head(results))
    BY DEF Receive, Typed
  <2>2. NoRepeats(allBids) /\ Head(results) \notin Range(allBids)
    BY <1>1 DEF Delivery
  <2> QED
    BY <1>1, <2>1, <2>2, AppendToRange
<1>3. Running' = Running
  BY DEF Receive, Running
<1>4. Typed'
  <2>1. Capacity \in Nat /\ Capacity' = Capacity
    BY RunningFinite DEF Capacity, Receive
  <2>2. Len(results) <= Capacity
    BY DEF Typed
  <2>3. Len(results') <= Capacity'
    BY <1>1, <2>1, <2>2
  <2> QED
    BY <1>1, <1>2, <2>3 DEF Receive, Typed
<1>5. Phases'
  BY DEF Receive, Phases
<1>6. Delivery'
  BY <1>1, <1>2 DEF Receive, Delivery
<1> QED
  BY <1>3, <1>4, <1>5, <1>6 DEF Receive

LEMMA CloseKeepsInv ==
  ASSUME FanoutInv, Close
  PROVE  FanoutInv'
<1> USE DEF FanoutInv
<1>1. Running' = Running
  BY DEF Close, Running
<1>2. \A d \in clients : fetch[d] = "done"
  <2>1. Running = {}
    BY RunningFinite DEF Close
  <2>2. \A d \in clients : fetch[d] \in Stages /\ fetch[d] # "not started"
    BY DEF Close, Phases, Typed
  <2> QED
    BY <2>1, <2>2 DEF Running, Stages
<1>3. Typed'
  BY DEF Close, Typed, Capacity
<1>4. Phases'
  BY <1>2 DEF Close, Phases
<1>5. Delivery'
  BY DEF Close, Delivery
<1> QED
  BY <1>1, <1>3, <1>4, <1>5 DEF Close

\* Steps of FetchBids and of the clock that leave fetches and channel alone.
LEMMA OtherKeepsInv ==
  ASSUME FanoutInv, StartCloser \/ Return \/ Expire \/ UNCHANGED vars
  PROVE  FanoutInv'
<1> USE DEF FanoutInv
<1>1. UNCHANGED <<clients, fetch, batch, wg, results, closed, allBids,
                  panicked>>
  BY DEF StartCloser, Return, Expire, vars
<1>2. Running' = Running /\ Delivery'
  BY <1>1 DEF Running, Delivery
<1>3. Typed'
  BY <1>1 DEF StartCloser, Return, Expire, vars, Typed, Capacity
<1>4. Phases'
  BY <1>1 DEF StartCloser, Return, Expire, vars, Phases
<1> QED
  BY <1>1, <1>2, <1>3, <1>4

LEMMA NextFanoutInv == FanoutInv /\ [Next]_vars => FanoutInv'
BY StartFetchKeepsInv, FetchEndsKeepsInv, SendKeepsInv, DoneKeepsInv,
   ReceiveKeepsInv, CloseKeepsInv, OtherKeepsInv DEF Next

LEMMA FanoutInvariant == Spec => []FanoutInv
BY InitFanoutInv, NextFanoutInv, PTL DEF Spec

-----------------------------------------------------------------------------
(***************************************************************************)
(* The wait group never counts more than the clients, and the channel      *)
(* never holds more than it was made for.                                  *)
(***************************************************************************)
THEOREM FanoutTypeCorrect == Spec => []TypeOK
<1>1. FanoutInv => TypeOK
  <2> SUFFICES ASSUME FanoutInv PROVE TypeOK
    OBVIOUS
  <2>1. Typed
    BY DEF FanoutInv
  <2>2. wg \in 0..Cardinality(clients)
    BY <2>1, RunningFinite DEF FanoutInv
  <2>3. panicked \in BOOLEAN
    BY DEF FanoutInv, Phases
  <2> QED
    BY <2>1, <2>2, <2>3 DEF Typed, TypeOK
<1> QED
  BY <1>1, FanoutInvariant, PTL

(***************************************************************************)
(* No order of answers, sends and the closer sends on a closed channel,    *)
(* closes it twice or makes the wait group negative.                       *)
(***************************************************************************)
THEOREM FanoutNeverPanics == Spec => []NeverPanics
<1>1. FanoutInv => NeverPanics
  BY DEF FanoutInv, Phases, NeverPanics
<1> QED
  BY <1>1, FanoutInvariant, PTL

\* No goroutine ever waits for room in the channel, even when FetchBids has
\* not yet received anything.
SendNeverBlocks ==
  \A d \in clients : fetch[d] = "sending" => ~closed /\ Len(results) < Capacity

(***************************************************************************)
(* A buffer of one batch per client is enough: each sends at most once.    *)
(***************************************************************************)
THEOREM BufferIsEnough == Spec => []SendNeverBlocks
<1>1. FanoutInv => SendNeverBlocks
  BY RoomToSend DEF SendNeverBlocks
<1> QED
  BY <1>1, FanoutInvariant, PTL

(***************************************************************************)
(* What FetchBids returns holds each fetched batch, once, and no goroutine *)
(* outlives the call.                                                      *)
(***************************************************************************)
THEOREM EverythingIsCollected == Spec => []CollectsEverything
<1>1. FanoutInv => CollectsEverything
  <2> SUFFICES ASSUME FanoutInv, main = "returned", NEW d \in clients
               PROVE  /\ fetch[d] = "done"
                      /\ Received(d) <=> batch[d] # Nothing
                      /\ NoRepeats(allBids)
    BY DEF CollectsEverything, NoRepeats
  <2>1. fetch[d] = "done" /\ Range(results) = {}
    BY EmptyRange DEF FanoutInv, Phases
  <2> QED
    BY <2>1 DEF FanoutInv, Delivery, Received
<1> QED
  BY <1>1, FanoutInvariant, PTL

-----------------------------------------------------------------------------
(* The refinement: a client has its say when its fetch ends, and FetchBids *)
(* returns when its range over the channel does.                           *)

Said == [d \in clients |-> IF fetch[d] \in {"not started", "fetching"} THEN <<>>
                           ELSE <<batch[d]>>]

Result == IF main # "returned" THEN <<>>
          ELSE <<UNION {{d} \X batch[d] : d \in Range(allBids)}>>

LEMMA FetchEndsIsSay ==
  ASSUME FanoutInv, NEW d \in clients, FetchSucceeds(d) \/ FetchFails(d)
  PROVE  Promise!Say(d)
<1>1. PICK bids \in Offers \cup {{}} :
        /\ fetch[d] = "fetching" /\ batch'[d] = bids
        /\ fetch'[d] \notin {"not started", "fetching"}
        /\ \A e \in clients \ {d} : fetch'[e] = fetch[e] /\ batch'[e] = batch[e]
        /\ UNCHANGED <<clients, main, allBids>>
  <2>1. fetch \in [clients -> Stages] /\ DOMAIN batch = clients
    BY DEF FanoutInv, Typed
  <2>2. batch[d] = {} \/ FetchSucceeds(d)
    BY DEF FanoutInv, Delivery, FetchFails, Nothing
  <2>3. CASE FetchSucceeds(d)
    BY <2>1, <2>3 DEF FetchSucceeds
  <2>4. CASE FetchFails(d) /\ batch[d] = {}
    BY <2>1, <2>4 DEF FetchFails
  <2> QED
    BY <2>2, <2>3, <2>4
<1>2. Said[d] = <<>>
  BY <1>1 DEF Said
<1>3. Said' = [Said EXCEPT ![d] = <<bids>>]
  BY <1>1 DEF Said
<1>4. Result' = Result
  <2>1. ASSUME main = "returned" PROVE FALSE
    BY <1>1, <2>1 DEF FanoutInv, Phases
  <2> QED
    BY <1>1, <2>1 DEF Result
<1> QED
  BY <1>1, <1>2, <1>3, <1>4 DEF Promise!Say, Said, Result

LEMMA ReturnIsReturn ==
  ASSUME FanoutInv, Return
  PROVE  Promise!Return
<1>1. /\ \A d \in clients : fetch[d] = "done"
      /\ Range(results) = {} /\ Range(allBids) \subseteq clients
  <2>1. Range(results) = {}
    BY EmptyRange DEF Return
  <2>2. Range(allBids) \subseteq clients
    <3>1. allBids \in [1..Len(allBids) -> clients]
      BY LenProperties DEF FanoutInv, Typed
    <3> QED
      BY <3>1 DEF Range
  <2> QED
    BY <2>1, <2>2 DEF FanoutInv, Phases, Return
<1>2. \A d \in clients : Said[d] = <<batch[d]>> /\ Said[d] # <<>>
  BY <1>1 DEF Said
<1>3. Result = <<>> /\ Said' = Said
  BY DEF Return, Result, Said
<1>4. \A d \in clients \ Range(allBids) : batch[d] = {}
  BY <1>1 DEF FanoutInv, Delivery, Nothing
<1>5. UNION {{d} \X batch[d] : d \in Range(allBids)}
        = UNION {{d} \X Said[d][1] : d \in clients}
  <2>1. \A d \in clients : Said[d][1] = batch[d]
    BY <1>2
  <2> QED
    BY <1>1, <1>4, <2>1
<1>6. Result' = <<UNION {{d} \X batch[d] : d \in Range(allBids)}>>
  BY DEF Return, Result
<1> QED
  BY <1>2, <1>3, <1>5, <1>6 DEF Return, Promise!Return, Said, Result

LEMMA OtherStepsStutter ==
  ASSUME FanoutInv,
         \/ \E d \in clients : StartFetch(d) \/ Send(d) \/ Done(d)
         \/ StartCloser \/ Receive \/ Close \/ Expire \/ UNCHANGED vars
  PROVE  UNCHANGED <<clients, Said, Result>>
<1>1. UNCHANGED <<clients, batch>>
  BY DEF StartFetch, Send, Done, StartCloser, Receive, Close, Expire, vars
<1>2. ASSUME NEW d \in clients
      PROVE  fetch'[d] \in {"not started", "fetching"}
               <=> fetch[d] \in {"not started", "fetching"}
  <2>1. DOMAIN fetch = clients
    BY DEF FanoutInv, Typed
  <2> QED
    BY <2>1
       DEF StartFetch, Send, Done, StartCloser, Receive, Close, Expire, vars
<1>3. Said' = Said
  BY <1>1, <1>2 DEF Said
<1>4. (main # "returned" /\ main' # "returned") \/ UNCHANGED <<main, allBids>>
  BY DEF StartFetch, Send, Done, StartCloser, Receive, Close, Expire, vars
<1>5. Result' = Result
  BY <1>1, <1>4 DEF Result
<1> QED
  BY <1>1, <1>3, <1>5

(***************************************************************************)
(* FetchBids implements Demand, whatever the number of clients: it returns *)
(* once, after every client's say, with all that was said, and what it     *)
(* returned does not change.                                               *)
(***************************************************************************)
THEOREM FetchBidsImplementsDemand == Spec => ImplementsDemand
<1>1. Init => Promise!Init
  BY DEF Init, Promise!Init
<1>2. FanoutInv /\ [Next]_vars
        => [(\E d \in clients : Promise!Say(d)) \/ Promise!Return]_(Promise!vars)
  <2> SUFFICES ASSUME FanoutInv, [Next]_vars
               PROVE  \/ \E d \in clients : Promise!Say(d)
                      \/ Promise!Return
                      \/ UNCHANGED <<clients, Said, Result>>
    BY DEF Promise!vars, Said, Result
  <2> QED
    BY FetchEndsIsSay, ReturnIsReturn, OtherStepsStutter DEF Next
<1> QED
  BY <1>1, <1>2, FanoutInvariant, PTL DEF Spec, ImplementsDemand, Promise!Spec
=============================================================================
