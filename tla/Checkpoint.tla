------------------------------- MODULE Checkpoint -------------------------------
(***************************************************************************)
(* The durable checkpoint of one task (internal/recovery/checkpoint.go)    *)
(* and the pure updates that the dispatcher applies to it before a Save    *)
(* (internal/recovery/dispatcher.go).                                      *)
(*                                                                         *)
(* Only the fields that steer the dispatcher are kept: state, aoTurnId,    *)
(* sideEffect, attempts and nextRetryAt.  The identity fields are fixed    *)
(* for the life of a task; lastErrorKind and lastObservedUtc are           *)
(* diagnostics that no branch of the code reads.                           *)
(***************************************************************************)
EXTENDS Naturals, DeliveryTypes

CONSTANT RetryBudget   \* cp.RetryBudget

ASSUME RetryBudgetAssumption == RetryBudget \in Nat

TaskStates ==
  {"PENDING", "DELIVERY_UNCERTAIN", "WAITING_RETRY", "DELIVERED",
   "COMPLETED", "CANCELLED", "CANCEL_UNCONFIRMED", "BLOCKED"}

\* nextRetryAt relative to the clock: nil, not reached yet, or reached.
Deadlines == {"none", "future", "due"}

Checkpoints ==
  [state: TaskStates, turn: Turns \cup {NoTurn},
   sideEffect: {"PENDING", "COMPLETED"},
   attempts: Nat, retry: Deadlines]

NewTask ==
  [state |-> "PENDING", turn |-> NoTurn, sideEffect |-> "PENDING",
   attempts |-> 0, retry |-> "none"]

\* Mutant: an unconfirmed cancellation is open to Step.
Terminal_ForgetsUnconfirmed(c) ==
  c.state \in {"BLOCKED", "CANCELLED", "COMPLETED"} \/ c.sideEffect = "COMPLETED"

Terminal(c) ==
  \/ c.state \in {"BLOCKED", "CANCELLED", "CANCEL_UNCONFIRMED", "COMPLETED"}
  \/ c.sideEffect = "COMPLETED"

\* States in which the code assumes that AO holds no delivery of the task.
BeforeSend == {"PENDING", "WAITING_RETRY"}

\* The early return of stepLocked: a reconciliation is not due yet.
ReconciliationNotDue(c) ==
  c.state \in {"DELIVERY_UNCERTAIN", "DELIVERED"} /\ c.retry = "future"

SendNotDue(c) == c.state = "WAITING_RETRY" /\ c.retry = "future"

\* Mutant: the counter runs backwards.
CountAttempt_Down(c) == [c EXCEPT !.attempts = @ - 1]
CountAttempt(c) == [c EXCEPT !.attempts = @ + 1]

Block(c) == [c EXCEPT !.state = "BLOCKED", !.retry = "none"]

Cancelled(c) == [c EXCEPT !.state = "CANCELLED", !.retry = "none"]

\* Mutant: the stop is recorded as confirmed before AO was asked.
CancelUnconfirmed_Premature(c) == [c EXCEPT !.state = "CANCELLED", !.retry = "none"]
CancelUnconfirmed(c) ==
  [c EXCEPT !.state = "CANCEL_UNCONFIRMED", !.retry = "none"]

Delivered(c, turn) ==
  [c EXCEPT !.state = "DELIVERED", !.turn = turn, !.retry = "none"]

\* Mutant: one attempt too many.
OutOfBudget_OffByOne(c) == c.attempts > RetryBudget
OutOfBudget(c) == c.attempts >= RetryBudget

ScheduleReconciliation(c) ==
  IF OutOfBudget(c) THEN Block(c) ELSE [c EXCEPT !.retry = "future"]

ReconcileLater(c) ==
  IF OutOfBudget(c) THEN Block(c)
  ELSE [c EXCEPT !.state = "DELIVERY_UNCERTAIN", !.retry = "future"]

ScheduleSendRetry(c) ==
  IF OutOfBudget(c) THEN Block(c)
  ELSE [c EXCEPT !.state = "WAITING_RETRY", !.retry = "future"]

\* A failed Observe costs an attempt and keeps the side of the send barrier.
ObserveFailed(c) ==
  IF c.state \in BeforeSend THEN ScheduleSendRetry(CountAttempt(c))
  ELSE ScheduleReconciliation(CountAttempt(c))

\* Mutant: any receipt will do.
AcceptReceipt_Unchecked(c, receipt) ==
  IF receipt # "missing"
  THEN [c EXCEPT !.state = "COMPLETED", !.sideEffect = "COMPLETED", !.retry = "none"]
  ELSE Block(c)

AcceptReceipt(c, receipt) ==
  IF receipt = "verified"
  THEN [c EXCEPT !.state = "COMPLETED", !.sideEffect = "COMPLETED", !.retry = "none"]
  ELSE Block(c)

\* Mutant: only the attempt is written ahead, not the state.
WriteAheadOf_StateKept(c) == [CountAttempt(c) EXCEPT !.retry = "future"]

\* What is saved before Send: whoever loads it may only reconcile.
WriteAheadOf(c) ==
  [CountAttempt(c) EXCEPT !.state = "DELIVERY_UNCERTAIN", !.retry = "future"]

\* settleCancelObservation: the observations that decide a cancellation, and
\* the checkpoint each of them saves.
Settles(delivery) == delivery \in {"STOPPED", "COMPLETED", "REJECTED"}

SettleCancel(c, obs) ==
  CASE obs.delivery = "STOPPED"  -> [c EXCEPT !.state = "CANCELLED"]
    [] obs.delivery = "REJECTED" -> [c EXCEPT !.state = "BLOCKED"]
    [] obs.delivery = "COMPLETED" /\ obs.receipt = "verified" -> AcceptReceipt(c, obs.receipt)
    [] OTHER -> [c EXCEPT !.state = "CANCEL_UNCONFIRMED", !.sideEffect = "PENDING"]
=============================================================================
