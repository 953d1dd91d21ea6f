------------------------------ MODULE Transfer ------------------------------
(***************************************************************************)
(* What the rest of the server may rely on about the transfers of key sets *)
(* to a card: each starts at most once, suspends the observers when it     *)
(* does, and ends at most once, done (the observers are resumed) or failed *)
(* (they are not).  One whose callback is never called does not end.       *)
(* Observers takes the transfer's steps from here, KeySets implements them. *)
(***************************************************************************)
CONSTANT Transfers

VARIABLE transfer

Init == transfer = [t \in Transfers |-> "none"]

\* The first key goes to the card.
Start(t) ==
  /\ transfer[t] = "none"
  /\ transfer' = [transfer EXCEPT ![t] = "moving"]

\* The last key is on the card.
Finish(t) ==
  /\ transfer[t] = "moving"
  /\ transfer' = [transfer EXCEPT ![t] = "done"]

\* A key set without subkeys is done as soon as it starts.
Pass(t) ==
  /\ transfer[t] = "none"
  /\ transfer' = [transfer EXCEPT ![t] = "done"]

\* A key could not be moved, or nobody was left to be told.
Fail(t) ==
  /\ transfer[t] = "moving"
  /\ transfer' = [transfer EXCEPT ![t] = "failed"]

Next == \E t \in Transfers : Start(t) \/ Finish(t) \/ Pass(t) \/ Fail(t)

Spec == Init /\ [][Next]_transfer
=============================================================================
