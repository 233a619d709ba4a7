------------------------------- MODULE Dispatcher -------------------------------
(***************************************************************************)
(* Recovery of one task: several processes run Dispatcher.Step in the loop *)
(* of cmd/recovery or in that of Runner, or call Dispatcher.Cancel, against*)
(* one checkpoint file, one run-owned lease file and one AO session.       *)
(*                                                                         *)
(* An action is one piece of I/O (lease, load, save, AO request) together  *)
(* with the code up to the next one.  Between any two of them a process    *)
(* may crash, its context may be cancelled, AO may move on and another     *)
(* process may run.                                                        *)
(***************************************************************************)
EXTENDS Checkpoint, AOAdapter

CONSTANTS Procs,      \* process slots; a slot is reused after a crash or exit
          NoProc,     \* the lease file does not exist
          UseLease,   \* cp.RunOwner # "": cmd/recovery builds a FileLease
          Ops,        \* what processes are started for, see OpKinds
          MaxFaults,  \* bound on crashes, failed file I/O and cancellations
          NoCp        \* Checkpoint{}: what a failed Step returns

ASSUME ProcsAssumption == NoProc \notin Procs
ASSUME NoCpAssumption == NoCp \notin Checkpoints
\* "recovery run", Runner.Run inside another program, Dispatcher.Cancel
OpKinds == {"run", "runner", "cancel"}
ASSUME OpsAssumption == Ops \subseteq OpKinds
ASSUME SwitchesAssumption == UseLease \in BOOLEAN /\ MaxFaults \in Nat

VARIABLES disk,     \* the checkpoint file
          lease,    \* the slot whose record is in the lease file, or NoProc
          pc,       \* where each process is
          op,       \* what each process was started for
          cp,       \* the checkpoint in each process's memory
          ctxDone,  \* the processes whose context is cancelled or timed out
          faults    \* faults injected so far

procVars == <<pc, op, cp, ctxDone>>
vars == <<disk, lease, procVars, faults, aoVars>>

\* "done": Runner.Run has returned a checkpoint and no error.
Down == {"down", "exit0", "exit1", "exit2", "exit3", "done"}
StepPCs == {"artifact", "observe", "recover", "preflight", "writeahead", "send"}
CancelPCs == {"c_mark", "c_recover", "c_saveTurn", "c_observe", "c_check",
              "c_interrupt", "c_confirm"}
\* Where a process believes that it holds the lease.
Holding == StepPCs \cup CancelPCs \cup {"load", "save", "release"}
PCs == Down \cup Holding \cup {"loop", "acquire", "returned"}

TypeOK ==
  /\ disk \in Checkpoints
  /\ lease \in Procs \cup {NoProc}
  /\ pc \in [Procs -> PCs]
  /\ op \in [Procs -> OpKinds]
  /\ cp \in [Procs -> Checkpoints \cup {NoCp}]
  /\ ctxDone \subseteq Procs
  /\ faults \in Nat
  /\ AOTypeOK

Init ==
  /\ disk = NewTask
  /\ lease = NoProc
  /\ pc = [p \in Procs |-> "down"]
  /\ op = [p \in Procs |-> "run"]
  /\ cp = [p \in Procs |-> NoCp]
  /\ ctxDone = {}
  /\ faults = 0
  /\ AOInit

----------------------------------------------------------------------------
At(p, label) == pc[p] = label
Go(p, label) == pc' = [pc EXCEPT ![p] = label]
Keep(p, c) == cp' = [cp EXCEPT ![p] = c]

\* Continue at label with checkpoint c in memory.
Proceed(p, label, c) == Go(p, label) /\ Keep(p, c)
\* "return d.block(...)" and its like: one Save, then return.
Finish(p, c) == Proceed(p, "save", c)
\* Return without a Save.
Leave(p) == Proceed(p, "release", cp[p])

CanFault(kind) == kind \in FaultKinds /\ faults < MaxFaults
Fault(kind) == CanFault(kind) /\ faults' = faults + 1
NoFault == UNCHANGED faults

\* A request made under a cancelled context fails before it is sent.
Answers(p, replies, error) == IF p \in ctxDone THEN {error} ELSE replies

\* FileStore.Save: the rename happens, or the file is as it was.
Saved(p) == disk' = cp[p] /\ NoFault
SaveFailed == Fault("save") /\ UNCHANGED disk

----------------------------------------------------------------------------
(* The loops of cmd/recovery and of Runner. *)

Start(p) ==
  /\ pc[p] \in Down
  /\ \E o \in Ops :
       /\ op' = [op EXCEPT ![p] = o]
       /\ Proceed(p, IF o = "cancel" THEN "acquire" ELSE "loop", NoCp)
  /\ ctxDone' = ctxDone \ {p}
  /\ UNCHANGED <<disk, lease, faults, aoVars>>

Loop(p) ==
  /\ At(p, "loop")
  /\ Proceed(p, IF p \notin ctxDone THEN "acquire"
                ELSE IF op[p] = "run" THEN "exit3" ELSE "down", NoCp)
  /\ UNCHANGED <<disk, lease, op, ctxDone, faults, aoVars>>

ExitCode(p) ==
  IF p \in ctxDone THEN "exit3"
  ELSE IF cp[p] = NoCp THEN "exit1"
  ELSE IF cp[p].state \in {"BLOCKED", "CANCELLED", "CANCEL_UNCONFIRMED"} THEN "exit2"
  ELSE "exit0"

\* Mutant: the runner takes any checkpoint that a Step returns for the last.
RunnerResult_AnyCheckpoint(p) == IF cp[p] # NoCp THEN "done" ELSE "down"

\* A terminal checkpoint is returned without an error, whatever the error of its
\* Step and although the context may be done; everything else is an error.
RunnerResult(p) == IF cp[p] # NoCp /\ Terminal(cp[p]) THEN "done" ELSE "down"

\* After Step: exit, or poll again.  The caller of Cancel ends with it.
Return(p) ==
  /\ At(p, "returned")
  /\ LET again == p \notin ctxDone /\ cp[p] # NoCp /\ ~Terminal(cp[p])
     IN Proceed(p, IF op[p] = "cancel" THEN "down"
                   ELSE IF again THEN "loop"
                   ELSE IF op[p] = "runner" THEN RunnerResult(p)
                   ELSE ExitCode(p), NoCp)
  /\ UNCHANGED <<disk, lease, op, ctxDone, faults, aoVars>>

----------------------------------------------------------------------------
(* acquire and the lease file. *)

\* Mutant: the lease file is opened without O_EXCL.
LeaseGranted_NotExclusive(p) == IF UseLease THEN lease' = p ELSE UNCHANGED lease

\* O_EXCL create: granted only while no lease file exists, whoever wrote it.
LeaseGranted(p) ==
  IF UseLease THEN lease = NoProc /\ lease' = p ELSE UNCHANGED lease

Acquire(p) ==
  /\ At(p, "acquire")
  /\ \/ /\ UseLease => p \notin ctxDone
        /\ LeaseGranted(p) /\ Go(p, "load") /\ NoFault
     \/ /\ UseLease
        /\ p \in ctxDone \/ lease # NoProc
        /\ Go(p, "returned") /\ NoFault /\ UNCHANGED lease
     \/ /\ UseLease
        /\ Fault("load")
        /\ Go(p, "returned") /\ UNCHANGED lease
  /\ UNCHANGED <<disk, op, cp, ctxDone, aoVars>>

\* defer release(): its error is dropped, the lease file may stay behind.
Release(p) ==
  /\ At(p, "release")
  /\ \/ lease' = (IF UseLease THEN NoProc ELSE lease) /\ NoFault
     \/ Fault("release") /\ UNCHANGED lease
  /\ Go(p, "returned")
  /\ UNCHANGED <<disk, op, cp, ctxDone, aoVars>>

\* A stale lease file is never broken by the code; the operator removes it
\* after checking that no live process is working under it.
RemoveStaleLease ==
  /\ lease \in Procs /\ pc[lease] \notin Holding
  /\ lease' = NoProc
  /\ UNCHANGED <<disk, procVars, faults, aoVars>>

----------------------------------------------------------------------------
(* Step. *)

\* What stepLocked does with the checkpoint it has loaded.
Load(p) ==
  /\ At(p, "load") /\ op[p] # "cancel"
  /\ \/ /\ NoFault
        /\ IF Terminal(disk) THEN Finish(p, disk)
           ELSE Proceed(p, IF ReconciliationNotDue(disk) THEN "release" ELSE "artifact", disk)
     \/ Fault("load") /\ Leave(p)
  /\ UNCHANGED <<disk, lease, op, ctxDone, aoVars>>

\* The final Save of a Step or of a Cancel; its error does not change what is
\* in memory.
Save(p) ==
  /\ At(p, "save")
  /\ Saved(p) \/ SaveFailed
  /\ Leave(p)
  /\ UNCHANGED <<lease, op, ctxDone, aoVars>>

Artifact(p) ==
  /\ At(p, "artifact")
  /\ \/ p \notin ctxDone /\ Proceed(p, "observe", cp[p])
     \/ (p \in ctxDone \/ "artifact" \in FaultKinds) /\ Finish(p, Block(cp[p]))
  /\ UNCHANGED <<disk, lease, op, ctxDone, faults, aoVars>>

\* The switch over obs.Delivery, for a checkpoint that is not uncertain.
Dispatch(p, obs) ==
  LET c == cp[p]
      unsent == obs.delivery = "NOT_FOUND" /\ c.state # "DELIVERED"
  IN \/ obs.delivery = "COMPLETED" /\ Finish(p, AcceptReceipt(c, obs.receipt))
     \/ obs.delivery = "ACCEPTED"  /\ Finish(p, Delivered(c, c.turn))
     \/ obs.delivery = "RESERVED"  /\ Proceed(p, "recover", c)
     \/ obs.delivery = "STOPPED"   /\ Finish(p, Cancelled(c))
     \/ obs.delivery \in {"REJECTED", "UNKNOWN"} /\ Finish(p, Block(c))
     \/ obs.delivery = "NOT_FOUND" /\ c.state = "DELIVERED" /\ Finish(p, Block(c))
     \/ unsent /\ SendNotDue(c) /\ Leave(p)
     \/ unsent /\ ~SendNotDue(c) /\ OutOfBudget(c) /\ Finish(p, Block(c))
     \/ unsent /\ ~SendNotDue(c) /\ ~OutOfBudget(c) /\ Proceed(p, "preflight", c)

Observe(p) ==
  /\ At(p, "observe")
  /\ \E obs \in Answers(p, ObserveReplies(cp[p].turn), ObsError) :
       \/ obs.delivery = "ERROR"         /\ Finish(p, ObserveFailed(cp[p]))
       \/ obs.delivery = "NO_SESSION"    /\ Finish(p, Block(cp[p]))
       \/ obs.delivery = "HUMAN_STOPPED" /\ Finish(p, Cancelled(cp[p]))
       \/ /\ obs.delivery \notin {"ERROR", "NO_SESSION", "HUMAN_STOPPED"}
          /\ IF cp[p].state = "DELIVERY_UNCERTAIN"
             THEN Proceed(p, "recover", cp[p])
             ELSE Dispatch(p, obs)
  /\ UNCHANGED <<disk, lease, op, ctxDone, faults, aoVars>>

\* Mutant: a delivery that has completed meanwhile is not recovered.
AfterRecover_LiveOnly(c, r) ==
  CASE r.outcome = "steered" -> Block(c)
    [] r.outcome = "sent" /\ r.state = "ACCEPTED" -> Delivered(c, r.turn)
    [] OTHER -> ReconcileLater(CountAttempt(c))

\* Mutant: a reconciliation that fails costs nothing.
AfterRecover_NotCounted(c, r) ==
  CASE r.outcome = "steered" -> Block(c)
    [] r.outcome = "sent" /\ r.state \in {"ACCEPTED", "COMPLETED"} -> Delivered(c, r.turn)
    [] OTHER -> ReconcileLater(c)

\* Recover-only, the one way out of DELIVERY_UNCERTAIN.
AfterRecover(c, r) ==
  CASE r.outcome = "steered" -> Block(c)
    [] r.outcome = "sent" /\ r.state \in {"ACCEPTED", "COMPLETED"} -> Delivered(c, r.turn)
    [] OTHER -> ReconcileLater(CountAttempt(c))

Recover(p) ==
  /\ At(p, "recover")
  /\ \E r \in Answers(p, RecoverReplies, RecoverError) :
       Finish(p, AfterRecover(cp[p], r))
  /\ UNCHANGED <<disk, lease, op, ctxDone, faults, aoVars>>

Preflight(p) ==
  /\ At(p, "preflight")
  /\ \E ready \in Answers(p, PreflightReplies, FALSE) :
       IF ready THEN Proceed(p, "writeahead", WriteAheadOf(cp[p]))
       ELSE Finish(p, Block(cp[p]))
  /\ UNCHANGED <<disk, lease, op, ctxDone, faults, aoVars>>

\* Mutant: the error of the write-ahead Save is ignored.
WriteAhead_IgnoresError(p) ==
  /\ At(p, "writeahead")
  /\ Saved(p) \/ SaveFailed
  /\ Proceed(p, "send", cp[p])
  /\ UNCHANGED <<lease, op, ctxDone, aoVars>>

\* The write-ahead Save; when it fails nothing is sent.
WriteAhead(p) ==
  /\ At(p, "writeahead")
  /\ \/ Saved(p) /\ Proceed(p, "send", cp[p])
     \/ SaveFailed /\ Leave(p)
  /\ UNCHANGED <<lease, op, ctxDone, aoVars>>

\* Mutant: every error means that the request was not accepted.
AfterSend_ErrorIsRefusal(c, reply, t) ==
  CASE reply = "sent"    -> Delivered(c, t)
    [] reply = "steered" -> Block(c)
    [] OTHER             -> ScheduleSendRetry(c)

\* Mutant: steered text counts as delivered.
AfterSend_AdoptsSteered(c, reply, t) ==
  CASE reply \in {"sent", "steered"} -> Delivered(c, t)
    [] reply = "notAccepted"         -> ScheduleSendRetry(c)
    [] OTHER                         -> ReconcileLater(c)

AfterSend(c, reply, t) ==
  CASE reply = "sent"        -> Delivered(c, t)
    [] reply = "steered"     -> Block(c)
    [] reply = "notAccepted" -> ScheduleSendRetry(c)
    [] OTHER                 -> ReconcileLater(c)

Send(p) ==
  /\ At(p, "send")
  /\ \E t \in Turns, o \in Answers(p, SendOutcomes, Outcome("error", "void")) :
       /\ posts[t] = "unsent"
       /\ posts' = [posts EXCEPT ![t] = o.fate]
       /\ Finish(p, AfterSend(cp[p], o.reply, t))
  /\ UNCHANGED <<disk, lease, op, ctxDone, faults, session, foreign>>

----------------------------------------------------------------------------
(* Cancel. *)

CancelLoad(p) ==
  /\ At(p, "load") /\ op[p] = "cancel"
  /\ \/ /\ NoFault
        /\ CASE disk.state \in {"COMPLETED", "BLOCKED", "CANCELLED"} -> Proceed(p, "release", disk)
             [] disk.turn = NoTurn /\ disk.state \in BeforeSend -> Finish(p, Cancelled(disk))
             [] OTHER -> Proceed(p, "c_mark", CancelUnconfirmed(disk))
     \/ Fault("load") /\ Leave(p)
  /\ UNCHANGED <<disk, lease, op, ctxDone, aoVars>>

\* The two Saves on the way: the cancellation before any AO request, and the
\* turn handle that recover-only found.
CancelSave(p) ==
  /\ pc[p] \in {"c_mark", "c_saveTurn"}
  /\ \/ Saved(p) /\ Proceed(p, IF cp[p].turn = NoTurn THEN "c_recover" ELSE "c_observe", cp[p])
     \/ SaveFailed /\ Leave(p)
  /\ UNCHANGED <<lease, op, ctxDone, aoVars>>

CancelRecover(p) ==
  /\ At(p, "c_recover")
  /\ \E r \in Answers(p, RecoverReplies, RecoverError) :
       IF /\ r.outcome = "sent" /\ r.turn # NoTurn
          /\ r.state \in {"ACCEPTED", "COMPLETED", "STOPPED", "REJECTED"}
       THEN Proceed(p, "c_saveTurn", [cp[p] EXCEPT !.turn = r.turn])
       ELSE Leave(p)
  /\ UNCHANGED <<disk, lease, op, ctxDone, faults, aoVars>>

\* Before the interrupt and, with no way on but to return, after it.
CancelObserve(p) ==
  /\ pc[p] \in {"c_observe", "c_confirm"}
  /\ \E obs \in Answers(p, ObserveReplies(cp[p].turn), ObsError) :
       \/ Settles(obs.delivery) /\ Finish(p, SettleCancel(cp[p], obs))
       \/ /\ ~Settles(obs.delivery)
          /\ IF /\ At(p, "c_observe") /\ UseLease
                /\ obs.delivery \notin {"ERROR"}
             THEN Proceed(p, "c_check", cp[p])
             ELSE Leave(p)
  /\ UNCHANGED <<disk, lease, op, ctxDone, faults, aoVars>>

\* AO.Stop: a precheck, then the interrupt of whatever is live by then.
CancelCheck(p) ==
  /\ At(p, "c_check")
  /\ \E ok \in Answers(p, {StopAllowed(cp[p].turn)} \cup NetworkError(FALSE), FALSE) :
       Proceed(p, IF ok THEN "c_interrupt" ELSE "c_confirm", cp[p])
  /\ UNCHANGED <<disk, lease, op, ctxDone, faults, aoVars>>

CancelInterrupt(p) ==
  /\ At(p, "c_interrupt")
  /\ \/ p \notin ctxDone /\ session /\ posts' = Interrupted /\ foreign' = FALSE
     \/ (p \in ctxDone \/ ~session \/ "network" \in FaultKinds) /\ UNCHANGED <<posts, foreign>>
  /\ Proceed(p, "c_confirm", cp[p])
  /\ UNCHANGED <<disk, lease, op, ctxDone, faults, session>>

----------------------------------------------------------------------------
(* The environment. *)

Crash(p) ==
  /\ pc[p] \notin Down
  /\ Fault("crash")
  /\ Proceed(p, "down", NoCp)
  /\ UNCHANGED <<disk, lease, op, ctxDone, aoVars>>

\* -timeout expires, or SIGINT/SIGTERM arrives.
ContextDone(p) ==
  /\ pc[p] \notin Down /\ p \notin ctxDone
  /\ Fault("context")
  /\ ctxDone' = ctxDone \cup {p}
  /\ UNCHANGED <<disk, lease, pc, op, cp, aoVars>>

DeadlinePasses ==
  /\ disk.retry = "future"
  /\ disk' = [disk EXCEPT !.retry = "due"]
  /\ UNCHANGED <<lease, procVars, faults, aoVars>>

RunStep(p) ==
  \/ Loop(p) \/ Return(p) \/ Acquire(p) \/ Release(p)
  \/ Load(p) \/ Save(p) \/ Artifact(p) \/ Observe(p) \/ Recover(p)
  \/ Preflight(p) \/ WriteAhead(p) \/ Send(p)

CancelStep(p) ==
  \/ CancelLoad(p) \/ CancelSave(p) \/ CancelRecover(p)
  \/ CancelObserve(p) \/ CancelCheck(p) \/ CancelInterrupt(p)

ProcStep(p) == Start(p) \/ RunStep(p) \/ CancelStep(p)

AOStep == AONext /\ UNCHANGED <<disk, lease, procVars, faults>>

Next ==
  \/ \E p \in Procs : ProcStep(p) \/ Crash(p) \/ ContextDone(p)
  \/ RemoveStaleLease \/ DeadlinePasses \/ AOStep

Spec == Init /\ [][Next]_vars
=============================================================================
