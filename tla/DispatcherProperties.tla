-------------------------- MODULE DispatcherProperties --------------------------
(* What the recovery of a task has to guarantee, and the fairness under which *)
(* it has to get somewhere.                                                   *)
EXTENDS Dispatcher, FiniteSets

\* No POST of the task text has reached AO, or can still reach it.
Clear == \A t \in Turns : ~Possible(t)

Posted(t) == posts[t] = "unsent" /\ posts'[t] # "unsent"
Exits(p, code) == pc[p] = "returned" /\ pc'[p] = code

----------------------------------------------------------------------------
(* Safety. *)

\* The text of a task reaches AO at most once, and no second copy is still on
\* its way, whatever crashes, lost or late replies, failed Saves, cancelled
\* contexts and concurrent processes there are (stepLocked, Send).
AtMostOnce == \A s, t \in Turns : Possible(s) /\ Possible(t) => s = t

\* Two processes are never both between Acquire and release (FileLease).
LeaseExcludes ==
  \A p, q \in Procs : pc[p] \in Holding /\ pc[q] \in Holding => p = q

\* A durable checkpoint from which a Step may send never coexists with a POST
\* that AO has, or may still get (the write-ahead of stepLocked and the cases
\* after Send that go back to WAITING_RETRY).
ResendableMeansUnsent == disk.state \in BeforeSend => Clear

\* The POSTs ever made stay within the durable attempt counter and the budget,
\* across crashes and Saves that fail (stepLocked).
PostsWithinBudget ==
  LET n == Cardinality({t \in Turns : posts[t] # "unsent"})
  IN n <= disk.attempts /\ n <= RetryBudget

\* Nothing is sent unless the file already says that it may have been: no send
\* after a Save that failed, nor once a stop has been recorded (stepLocked).
SendIsWrittenAhead ==
  [][(\E t \in Turns : Posted(t)) => disk.state = "DELIVERY_UNCERTAIN"]_vars

\* CANCELLED is saved only when nothing of the task runs, or may start, in AO
\* (Cancel, settleCancelObservation, the Stopped case of stepLocked).
CancelledIsQuiet ==
  disk.state = "CANCELLED" =>
    \A t \in Turns : posts[t] \notin {"wire", "steered", "live", "odd"}

\* COMPLETED is saved only for a turn of this task whose receipt matches
\* (acceptReceipt, reached from Step and from Cancel).
CompletedIsVerified ==
  disk.state = "COMPLETED" => disk.turn \in Turns /\ posts[disk.turn] = "good"

\* DELIVERED names a turn that AO created for this task, also when the handle
\* comes from recover-only after a crash (stepLocked, steerOrSend).
DeliveredIsReal ==
  disk.state = "DELIVERED" => disk.turn \in Turns /\ HasTurn(disk.turn)

\* Text that AO steered into somebody else's turn is never adopted, cancelled
\* as if it were ours, or sent again (ErrSessionContaminated).
SteeredIsQuarantined ==
  (\E t \in Turns : posts[t] = "steered") =>
    disk.state \in {"DELIVERY_UNCERTAIN", "CANCEL_UNCONFIRMED", "BLOCKED"}

\* What was decided stays decided, for every later Step and Cancel of every
\* process; an unconfirmed cancellation may only be settled.
TerminalIsFinal ==
  [][/\ disk.state \in {"COMPLETED", "CANCELLED", "BLOCKED"} => disk'.state = disk.state
     /\ disk.state = "CANCEL_UNCONFIRMED" =>
          disk'.state \in {"CANCEL_UNCONFIRMED", "CANCELLED", "COMPLETED", "BLOCKED"}]_vars

\* While every Save succeeds, the exit codes 0 and 2 of "recovery run" tell what
\* the checkpoint file holds, and a Runner that returns without an error does so
\* because the file is decided (runRecovery, Runner.Run).
ExitsTellTheFile ==
  [][\A p \in Procs :
       /\ Exits(p, "exit0") => disk.state = "COMPLETED"
       /\ Exits(p, "exit2") =>
            disk.state \in {"BLOCKED", "CANCELLED", "CANCEL_UNCONFIRMED", "COMPLETED"}
       /\ Exits(p, "done") => Terminal(disk)]_vars

----------------------------------------------------------------------------
(* The inductive invariant behind the safety properties: what a process       *)
(* carries between two pieces of I/O, and what the file says meanwhile.       *)

\* What keeps two processes apart: the lease, or that there is only one process
\* (a program that runs a Runner for a task without a run owner).
Exclusive == UseLease \/ \A p, q \in Procs : p = q

Working == Holding \ {"load", "release"}
OpenStates == {"PENDING", "WAITING_RETRY", "DELIVERY_UNCERTAIN", "DELIVERED"}
Final == {"COMPLETED", "CANCELLED", "BLOCKED"}

\* A process that works on a checkpoint has one.
Loaded(p) == pc[p] \in Working => cp[p] # NoCp

\* What holds of a process at label with checkpoint c in memory.  Its checkpoint
\* never claims that the text was not sent when it may have been; when it is about
\* to send, nothing was sent before; and no Save it can still make takes back a
\* decision that is in the file.
Fits(label, c) ==
  /\ label \in Working /\ c.state \in BeforeSend => Clear
  /\ label \in {"artifact", "observe"} => c.state \in OpenStates
  /\ label = "preflight" => c.state \in BeforeSend
  /\ label \in {"writeahead", "send"} => Clear /\ c.state = "DELIVERY_UNCERTAIN"
  /\ label = "send" => disk.state = "DELIVERY_UNCERTAIN"
  /\ label \in StepPCs => disk.state \in OpenStates
  /\ label \in CancelPCs => c.state = "CANCEL_UNCONFIRMED" /\ disk.state \notin Final
  /\ label = "save" /\ disk.state \in Final => c.state = disk.state
  /\ label = "save" /\ disk.state = "CANCEL_UNCONFIRMED" =>
       c.state \in Final \cup {"CANCEL_UNCONFIRMED"}

\* Invariant of the code from Acquire to release, at every point where a process
\* can crash or be overtaken (stepLocked, Cancel, FileLease, FileStore).
IInv ==
  /\ AtMostOnce
  /\ ResendableMeansUnsent
  /\ LeaseExcludes
  /\ \A p \in Procs :
       /\ Loaded(p)
       /\ UseLease /\ pc[p] \in Holding => lease = p
       /\ Fits(pc[p], cp[p])

----------------------------------------------------------------------------
(* Refinement. *)

PhaseOf(state) ==
  CASE state \in BeforeSend          -> "open"
    [] state = "DELIVERY_UNCERTAIN"  -> "uncertain"
    [] state = "DELIVERED"           -> "delivered"
    [] state = "CANCEL_UNCONFIRMED"  -> "stopping"
    [] state = "COMPLETED"           -> "completed"
    [] state = "CANCELLED"           -> "cancelled"
    [] state = "BLOCKED"             -> "blocked"

TextOf(fate) ==
  CASE fate \in {"unsent", "void"} -> "none"
    [] fate \in Ended             -> "ended"
    [] OTHER                      -> "active"

Phase == PhaseOf(disk.state)
Texts == [t \in Turns |-> TextOf(posts[t])]
Task == INSTANCE TaskDelivery WITH phase <- Phase, texts <- Texts

Holders == {p \in Procs : pc[p] \in Holding}
IsStale == lease # NoProc /\ pc[lease] \notin Holding
Lock == INSTANCE RunLock WITH holders <- Holders, stale <- IsStale

\* From Acquire to release, through crashes, releases that fail and the operator's
\* clearing of stale files, the lease is the lock that its file operations
\* implement in module RunFiles (acquire, FileLease).
LeaseIsALock == Lock!Spec

\* The processes, the lease, the checkpoint file and AO together do what
\* TaskDelivery promises: each of their steps is one of its steps or none.
ImplementsTaskDelivery == Task!Spec

----------------------------------------------------------------------------
(* Liveness.  Processes are restarted and scheduled, the operator clears    *)
(* stale leases, retry deadlines pass, and AO turns end.                    *)

Fairness ==
  /\ \A p \in Procs : WF_vars(ProcStep(p))
  /\ WF_vars(RemoveStaleLease)
  /\ WF_vars(DeadlinePasses)
  /\ \A t \in Turns : WF_vars(TurnEnds(t) /\ UNCHANGED <<disk, lease, procVars, faults>>)

FairSpec == Spec /\ Fairness

\* Every task is decided: neither the lease, nor the backoff, nor lost replies
\* keep it open for ever (stepLocked, reconcileLater, scheduleSendRetry).
EventuallyDecided == <>[](disk.state \in {"COMPLETED", "CANCELLED", "CANCEL_UNCONFIRMED", "BLOCKED"})

\* Work that AO finished with a matching receipt is accepted in the end, whatever
\* crashes and failed file operations come between (RecoverOnly, acceptReceipt).
VerifiedWorkIsAccepted ==
  \A t \in Turns : posts[t] = "good" ~> disk.state = "COMPLETED"

----------------------------------------------------------------------------
(* What the repository's documents and comments say, and the code does not. *)

\* docs/06-OPERATIONS.md:228, the recovery wrapper holds an exclusive lease
\* throughout preflight and POST.
PreflightAndPostAreExclusive ==
  \A p, q \in Procs :
    {pc[p], pc[q]} \subseteq {"preflight", "writeahead", "send"} => p = q

\* How a run ends tells what has become of the task.  cmd/recovery/main.go:18, exit 0
\* means that the task reached COMPLETED; cmd/recovery/main.go:21, exit 3 is a
\* non-terminal execution, a task that is still waiting or uncertain;
\* internal/recovery/runner.go:69, Run goes on until the task reaches a terminal
\* state or its context is done: when it returns without an error it has.
EndsTellTheTask ==
  [][\A p \in Procs :
       /\ Exits(p, "exit0") => disk.state = "COMPLETED"
       /\ Exits(p, "exit3") => disk.state # "BLOCKED"
       /\ Exits(p, "done") => Terminal(disk)]_vars
=============================================================================
