--------------------------- MODULE AwardReporting ---------------------------
(***************************************************************************)
(* What POST /bid promises about each impression it awards, without the    *)
(* queues, the workers and the retries that BidHandler keeps the promise   *)
(* with: an award makes one impression event due, and one win notice when  *)
(* notify; the request is answered only after all that is due has been     *)
(* handed over; what was handed over is settled once and for good.         *)
(***************************************************************************)
CONSTANTS Requests, Slots

VARIABLES event,     \* fate of each slot's impression event
          notice,    \* fate of each slot's win notice
          answered   \* requests that were answered

vars == <<event, notice, answered>>

Init == /\ event = [s \in Slots |-> "none"]
        /\ notice = [s \in Slots |-> "none"]
        /\ answered = {}

Award(s, notify) ==
  /\ event[s] = "none"
  /\ s[1] \notin answered
  /\ event' = [event EXCEPT ![s] = "due"]
  /\ notice' = IF notify THEN [notice EXCEPT ![s] = "due"] ELSE notice
  /\ UNCHANGED answered

\* The event is handed over before the notice.
HandOverEvent(s, fate) ==
  /\ event[s] = "due"
  /\ event' = [event EXCEPT ![s] = fate]
  /\ UNCHANGED <<notice, answered>>

HandOverNotice(s, fate) ==
  /\ event[s] # "due"
  /\ notice[s] = "due"
  /\ notice' = [notice EXCEPT ![s] = fate]
  /\ UNCHANGED <<event, answered>>

SettleEvent(s, fate) ==
  /\ event[s] = "queued"
  /\ event' = [event EXCEPT ![s] = fate]
  /\ UNCHANGED <<notice, answered>>

SettleNotice(s, fate) ==
  /\ notice[s] = "queued"
  /\ notice' = [notice EXCEPT ![s] = fate]
  /\ UNCHANGED <<event, answered>>

AnswerRequest(r) ==
  /\ r \notin answered
  /\ \A s \in Slots : s[1] = r => event[s] # "due" /\ notice[s] # "due"
  /\ answered' = answered \cup {r}
  /\ UNCHANGED <<event, notice>>

Next ==
  \/ \E s \in Slots :
       \/ \E notify \in BOOLEAN : Award(s, notify)
       \/ \E fate \in {"queued", "abandoned"} : HandOverEvent(s, fate)
       \/ \E fate \in {"queued", "missed"} : HandOverNotice(s, fate)
       \/ \E fate \in {"acked", "abandoned"} : SettleEvent(s, fate)
       \/ \E fate \in {"fired", "missed"} : SettleNotice(s, fate)
  \/ \E r \in Requests : AnswerRequest(r)

Spec == Init /\ [][Next]_vars
=============================================================================
