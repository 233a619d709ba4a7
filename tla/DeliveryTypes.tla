------------------------------ MODULE DeliveryTypes ------------------------------
(***************************************************************************)
(* The vocabulary shared by the dispatcher and the AO adapter              *)
(* (internal/recovery/dispatcher.go, the types above Dispatcher).          *)
(***************************************************************************)
CONSTANTS Turns,   \* turn handles that AO may hand out
          NoTurn   \* the empty turn handle

ASSUME NoTurnAssumption == NoTurn \notin Turns

\* An observation: obs.Delivery, or why there is none, and what the task oracle
\* says of obs.Receipt ("none" unless the turn completed).
Obs(delivery, receipt) == [delivery |-> delivery, receipt |-> receipt]

\* A delivery receipt, or the error that came instead of it.
Receipt(outcome, state, turn) == [outcome |-> outcome, state |-> state, turn |-> turn]
=============================================================================
