------------------------------- MODULE Demand -------------------------------
(***************************************************************************)
(* What FanoutCoordinator.FetchBids promises: each configured client has   *)
(* one say, a batch of bids or nothing, and the call returns once, when    *)
(* all have had it, with all the bids they gave.                           *)
(***************************************************************************)
CONSTANTS DSPs, Offers

VARIABLES
  clients,   \* the configured clients
  say,       \* <<>> before a client's say, then <<its batch>>
  result     \* <<>> before the return, then <<the bids, with their DSPs>>

vars == <<clients, say, result>>

Init ==
  /\ clients \in SUBSET DSPs
  /\ say = [d \in clients |-> <<>>]
  /\ result = <<>>

Say(d) ==
  /\ say[d] = <<>>
  /\ \E batch \in Offers \cup {{}} : say' = [say EXCEPT ![d] = <<batch>>]
  /\ UNCHANGED <<clients, result>>

Return ==
  /\ result = <<>>
  /\ \A d \in clients : say[d] # <<>>
  /\ result' = <<UNION {{d} \X say[d][1] : d \in clients}>>
  /\ UNCHANGED <<clients, say>>

Spec == Init /\ [][(\E d \in clients : Say(d)) \/ Return]_vars
=============================================================================
