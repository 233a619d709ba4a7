---------------------------- MODULE DispatcherProofs ----------------------------
(***************************************************************************)
(* Proofs, for every number of processes, POSTs, retries and faults, of    *)
(* the safety properties of DispatcherProperties.                          *)
(***************************************************************************)
EXTENDS DispatcherProperties, TLAPS

----------------------------------------------------------------------------
(* Types of the pure updates. *)

\* Every update of stepLocked and Cancel returns a well-formed checkpoint.
LEMMA UpdateTypes ==
  ASSUME NEW c \in Checkpoints
  PROVE  /\ CountAttempt(c) \in Checkpoints
         /\ Block(c) \in Checkpoints
         /\ Cancelled(c) \in Checkpoints
         /\ CancelUnconfirmed(c) \in Checkpoints
         /\ ScheduleReconciliation(c) \in Checkpoints
         /\ ReconcileLater(c) \in Checkpoints
         /\ ScheduleSendRetry(c) \in Checkpoints
         /\ WriteAheadOf(c) \in Checkpoints
         /\ \A t \in Turns \cup {NoTurn} : Delivered(c, t) \in Checkpoints
<1> USE DEF Checkpoints, TaskStates, Deadlines
<1>1. CountAttempt(c) \in Checkpoints
  BY DEF CountAttempt
<1>2. Block(c) \in Checkpoints
  BY DEF Block
<1>3. Cancelled(c) \in Checkpoints /\ CancelUnconfirmed(c) \in Checkpoints
  BY DEF Cancelled, CancelUnconfirmed
<1>4. ScheduleReconciliation(c) \in Checkpoints
  BY <1>2 DEF ScheduleReconciliation
<1>5. ReconcileLater(c) \in Checkpoints
  BY <1>2 DEF ReconcileLater
<1>6. ScheduleSendRetry(c) \in Checkpoints
  BY <1>2 DEF ScheduleSendRetry
<1>7. WriteAheadOf(c) \in Checkpoints
  BY <1>1 DEF WriteAheadOf
<1>8. \A t \in Turns \cup {NoTurn} : Delivered(c, t) \in Checkpoints
  BY DEF Delivered
<1> QED
  BY <1>1, <1>2, <1>3, <1>4, <1>5, <1>6, <1>7, <1>8

LEMMA ReplyUpdateTypes ==
  ASSUME NEW c \in Checkpoints
  PROVE  /\ ObserveFailed(c) \in Checkpoints
         /\ \A r : AcceptReceipt(c, r) \in Checkpoints
         /\ \A obs : SettleCancel(c, obs) \in Checkpoints
         /\ \A reply : \A t \in Turns : AfterSend(c, reply, t) \in Checkpoints
<1>1. CountAttempt(c) \in Checkpoints
  BY UpdateTypes
<1>2. ObserveFailed(c) \in Checkpoints
  BY <1>1, UpdateTypes DEF ObserveFailed
<1>3. \A r : AcceptReceipt(c, r) \in Checkpoints
  BY UpdateTypes DEF AcceptReceipt, Checkpoints, TaskStates, Deadlines
<1>4. \A obs : SettleCancel(c, obs) \in Checkpoints
  BY <1>3 DEF SettleCancel, Checkpoints, TaskStates
<1>5. \A reply : \A t \in Turns : AfterSend(c, reply, t) \in Checkpoints
  BY UpdateTypes DEF AfterSend
<1> QED
  BY <1>2, <1>3, <1>4, <1>5

LEMMA NewTaskType == NewTask \in Checkpoints
BY DEF NewTask, Checkpoints, TaskStates, Deadlines

\* What recover-only returns names a turn, or none.
LEMMA RecoverReplyTypes ==
  ASSUME NEW p \in Procs,
         NEW r \in Answers(p, RecoverReplies, RecoverError)
  PROVE  r.turn \in Turns \cup {NoTurn}
BY DEF Answers, RecoverReplies, RecoverError, NetworkError, FoundByRecover, Receipt

LEMMA AfterRecoverType ==
  ASSUME NEW p \in Procs, NEW c \in Checkpoints,
         NEW r \in Answers(p, RecoverReplies, RecoverError)
  PROVE  AfterRecover(c, r) \in Checkpoints
<1>1. r.turn \in Turns \cup {NoTurn}
  BY RecoverReplyTypes
<1>2. CountAttempt(c) \in Checkpoints
  BY UpdateTypes
<1> QED
  BY <1>1, <1>2, UpdateTypes DEF AfterRecover

\* The fate of a POST is one of PostStates, and the client is told of an accepted
\* one only if AO has it, and of a refused one only if AO will never have it.
LEMMA SendOutcomeTypes ==
  ASSUME NEW p \in Procs,
         NEW o \in Answers(p, SendOutcomes, Outcome("error", "void"))
  PROVE  /\ o.fate \in PostStates
         /\ o.reply = "notAccepted" => o.fate = "void"
BY DEF Answers, SendOutcomes, Outcome, AcceptedAs, PostStates, TurnStates, Ended

----------------------------------------------------------------------------
(* Type correctness.  TypeOK alone is not inductive: that an update applies  *)
(* to a checkpoint, and not to NoCp, needs Loaded.                           *)

TypeInv == TypeOK /\ \A p \in Procs : Loaded(p)

\* A process that moves on keeps the types, if it has a checkpoint to work on.
LEMMA ProceedTypes ==
  ASSUME TypeInv, NEW p \in Procs, NEW label \in PCs, NEW c \in Checkpoints \cup {NoCp},
         Proceed(p, label, c), label \in Working => c # NoCp
  PROVE  /\ pc' \in [Procs -> PCs]
         /\ cp' \in [Procs -> Checkpoints \cup {NoCp}]
         /\ \A q \in Procs : Loaded(q)'
<1>1. pc' = [pc EXCEPT ![p] = label] /\ cp' = [cp EXCEPT ![p] = c]
  BY DEF Proceed, Go, Keep
<1> QED
  BY <1>1 DEF TypeInv, TypeOK, Loaded

\* Fault and NoFault keep the counter a number.
LEMMA FaultTypes ==
  ASSUME TypeInv, \/ NoFault \/ \E kind : Fault(kind)
  PROVE  faults' \in Nat
BY DEF TypeInv, TypeOK, NoFault, Fault

\* A process at a point of Working has a checkpoint.
LEMMA WorkingCheckpoint ==
  ASSUME TypeInv, NEW p \in Procs, pc[p] \in Working
  PROVE  cp[p] \in Checkpoints
BY DEF TypeInv, TypeOK, Loaded

LEMMA LoopTypes ==
  ASSUME TypeInv, NEW p \in Procs, Start(p) \/ Loop(p) \/ Return(p)
  PROVE  TypeInv'
<1> USE DEF PCs, Down
<1>1. CASE Start(p)
  <2>1. PICK o \in Ops : /\ op' = [op EXCEPT ![p] = o]
                         /\ Proceed(p, IF o = "cancel" THEN "acquire" ELSE "loop", NoCp)
    BY <1>1 DEF Start
  <2>2. o \in OpKinds
    BY OpsAssumption
  <2>3. {"loop", "acquire"} \cap Working = {}
    BY DEF Working, Holding, StepPCs, CancelPCs
  <2>4. /\ pc' \in [Procs -> PCs]
        /\ cp' \in [Procs -> Checkpoints \cup {NoCp}]
        /\ \A q \in Procs : Loaded(q)'
    BY <2>1, <2>3, ProceedTypes
  <2> QED
    BY <1>1, <2>1, <2>2, <2>4 DEF Start, TypeInv, TypeOK, AOTypeOK, aoVars
<1>2. CASE Loop(p)
  <2>1. PICK label \in {"exit3", "acquire", "down"} : Proceed(p, label, NoCp)
    BY <1>2 DEF Loop
  <2>2. label \notin Working
    BY DEF Working, Holding, StepPCs, CancelPCs
  <2>3. /\ pc' \in [Procs -> PCs]
        /\ cp' \in [Procs -> Checkpoints \cup {NoCp}]
        /\ \A q \in Procs : Loaded(q)'
    BY <2>1, <2>2, ProceedTypes
  <2> QED
    BY <1>2, <2>3 DEF Loop, TypeInv, TypeOK, AOTypeOK, aoVars
<1>3. CASE Return(p)
  <2>1. PICK label \in {"loop"} \cup Down : Proceed(p, label, NoCp)
    BY <1>3 DEF Return, ExitCode, RunnerResult
  <2>2. label \notin Working
    BY DEF Working, Holding, StepPCs, CancelPCs
  <2>3. /\ pc' \in [Procs -> PCs]
        /\ cp' \in [Procs -> Checkpoints \cup {NoCp}]
        /\ \A q \in Procs : Loaded(q)'
    BY <2>1, <2>2, ProceedTypes
  <2> QED
    BY <1>3, <2>3 DEF Return, TypeInv, TypeOK, AOTypeOK, aoVars
<1> QED
  BY <1>1, <1>2, <1>3

\* A process that moves on, the file, lease, contexts and AO keeping their types.
LEMMA MoveTypes ==
  ASSUME TypeInv, NEW p \in Procs,
         \E label \in PCs, c \in Checkpoints \cup {NoCp} :
            Proceed(p, label, c) /\ (label \in Working => c # NoCp),
         disk' \in Checkpoints, lease' \in Procs \cup {NoProc},
         op' = op, ctxDone' = ctxDone, faults' \in Nat, AOTypeOK'
  PROVE  TypeInv'
<1>1. PICK label \in PCs, c \in Checkpoints \cup {NoCp} :
        Proceed(p, label, c) /\ (label \in Working => c # NoCp)
  OBVIOUS
<1>2. /\ pc' \in [Procs -> PCs]
      /\ cp' \in [Procs -> Checkpoints \cup {NoCp}]
      /\ \A q \in Procs : Loaded(q)'
  BY <1>1, ProceedTypes
<1> QED
  BY <1>2 DEF TypeInv, TypeOK

\* The moves of an action end at labels of PCs, and those of Working with a
\* checkpoint in memory.
LEMMA LoadTypes ==
  ASSUME TypeInv, NEW p \in Procs, Load(p) \/ CancelLoad(p)
  PROVE  TypeInv'
<1> USE DEF PCs, Holding, StepPCs, CancelPCs, Working
<1>1. disk \in Checkpoints /\ disk # NoCp /\ cp[p] \in Checkpoints \cup {NoCp}
  BY NoCpAssumption DEF TypeInv, TypeOK
<1>2. /\ Cancelled(disk) \in Checkpoints /\ Cancelled(disk) # NoCp
      /\ CancelUnconfirmed(disk) \in Checkpoints /\ CancelUnconfirmed(disk) # NoCp
  BY <1>1, UpdateTypes, NoCpAssumption
<1>3. \E label \in PCs, c \in Checkpoints \cup {NoCp} :
        Proceed(p, label, c) /\ (label \in Working => c # NoCp)
  <2>1. CASE Leave(p)
    BY <1>1, <2>1 DEF Leave
  <2>2. CASE ~Leave(p) /\ Load(p)
    BY <1>1, <2>2 DEF Load, Finish
  <2>3. CASE ~Leave(p) /\ CancelLoad(p)
    BY <1>1, <1>2, <2>3 DEF CancelLoad, Finish
  <2> QED
    BY <2>1, <2>2, <2>3
<1>4. faults' \in Nat
  BY FaultTypes DEF Load, CancelLoad
<1> QED
  BY <1>3, <1>4, MoveTypes DEF Load, CancelLoad, TypeInv, TypeOK, AOTypeOK, aoVars

LEMMA SaveTypes ==
  ASSUME TypeInv, NEW p \in Procs, Save(p) \/ WriteAhead(p) \/ CancelSave(p)
  PROVE  TypeInv'
<1> USE DEF PCs, Holding, StepPCs, CancelPCs, Working
<1>1. cp[p] \in Checkpoints /\ cp[p] # NoCp
  BY WorkingCheckpoint, NoCpAssumption DEF Save, WriteAhead, CancelSave, At
<1>2. \E label \in PCs, c \in Checkpoints \cup {NoCp} :
        Proceed(p, label, c) /\ (label \in Working => c # NoCp)
  BY <1>1 DEF Save, WriteAhead, CancelSave, Leave
<1>3. faults' \in Nat
  BY FaultTypes DEF Save, WriteAhead, CancelSave, Saved, SaveFailed
<1>4. disk' \in Checkpoints
  BY <1>1 DEF Save, WriteAhead, CancelSave, Saved, SaveFailed, TypeInv, TypeOK
<1> QED
  BY <1>2, <1>3, <1>4, MoveTypes
  DEF Save, WriteAhead, CancelSave, TypeInv, TypeOK, AOTypeOK, aoVars

LEMMA LeaseTypes ==
  ASSUME TypeInv, NEW p \in Procs, Acquire(p) \/ Release(p) \/ RemoveStaleLease
  PROVE  TypeInv'
<1>1. pc' \in [Procs -> PCs] /\ \A q \in Procs : Loaded(q)'
  BY DEF Acquire, Release, RemoveStaleLease, Go, Loaded, TypeInv, TypeOK, PCs, Holding,
         StepPCs, CancelPCs, Working, procVars
<1>2. lease' \in Procs \cup {NoProc}
  BY DEF Acquire, Release, RemoveStaleLease, LeaseGranted, TypeInv, TypeOK
<1>3. faults' \in Nat
  BY FaultTypes DEF Acquire, Release, RemoveStaleLease, NoFault
<1> QED
  BY <1>1, <1>2, <1>3
  DEF Acquire, Release, RemoveStaleLease, TypeInv, TypeOK, AOTypeOK, aoVars, procVars

LEMMA DispatchTypes ==
  ASSUME NEW p \in Procs, NEW obs, cp[p] \in Checkpoints, Dispatch(p, obs)
  PROVE  \E label \in PCs, c \in Checkpoints : Proceed(p, label, c)
<1> DEFINE c == cp[p]
<1>1. /\ AcceptReceipt(c, obs.receipt) \in Checkpoints
      /\ Block(c) \in Checkpoints /\ Cancelled(c) \in Checkpoints
      /\ Delivered(c, c.turn) \in Checkpoints
  <2>1. c.turn \in Turns \cup {NoTurn}
    BY DEF Checkpoints
  <2> QED
    BY <2>1, UpdateTypes, ReplyUpdateTypes
<1>2. {"save", "recover", "release", "preflight"} \subseteq PCs
  BY DEF PCs, Holding, StepPCs
<1> QED
  BY <1>1, <1>2 DEF Dispatch, Finish, Leave

LEMMA ObserveTypes ==
  ASSUME TypeInv, NEW p \in Procs, Observe(p) \/ CancelObserve(p)
  PROVE  TypeInv'
<1>1. cp[p] \in Checkpoints
  BY WorkingCheckpoint
  DEF Observe, CancelObserve, At, Working, Holding, StepPCs, CancelPCs
<1>2. /\ ObserveFailed(cp[p]) \in Checkpoints /\ Block(cp[p]) \in Checkpoints
      /\ Cancelled(cp[p]) \in Checkpoints
      /\ \A obs : SettleCancel(cp[p], obs) \in Checkpoints
  BY <1>1, UpdateTypes, ReplyUpdateTypes
<1>3. {"save", "recover", "release", "c_check"} \subseteq PCs
  BY DEF PCs, Holding, StepPCs, CancelPCs
<1>4. \E label \in PCs, c \in Checkpoints : Proceed(p, label, c)
  <2>1. CASE Observe(p)
    <3>1. PICK obs : \/ Finish(p, ObserveFailed(cp[p])) \/ Finish(p, Block(cp[p]))
                     \/ Finish(p, Cancelled(cp[p])) \/ Proceed(p, "recover", cp[p])
                     \/ Dispatch(p, obs)
      BY <2>1 DEF Observe
    <3> QED
      BY <1>1, <1>2, <1>3, <3>1, DispatchTypes DEF Finish
  <2>2. CASE CancelObserve(p)
    BY <1>1, <1>2, <1>3, <2>2 DEF CancelObserve, Finish, Leave
  <2> QED
    BY <2>1, <2>2
<1> QED
  BY <1>4, MoveTypes, NoCpAssumption
  DEF Observe, CancelObserve, TypeInv, TypeOK, AOTypeOK, aoVars

LEMMA RequestTypes ==
  ASSUME TypeInv, NEW p \in Procs,
         Artifact(p) \/ Recover(p) \/ Preflight(p) \/ CancelRecover(p) \/ CancelCheck(p)
  PROVE  TypeInv'
<1>1. cp[p] \in Checkpoints
  BY WorkingCheckpoint
  DEF Artifact, Recover, Preflight, CancelRecover, CancelCheck, At, Working, Holding,
      StepPCs, CancelPCs
<1>2. Block(cp[p]) \in Checkpoints /\ WriteAheadOf(cp[p]) \in Checkpoints
  BY <1>1, UpdateTypes
<1>3. {"observe", "save", "writeahead", "release", "c_saveTurn", "c_interrupt", "c_confirm"}
        \subseteq PCs
  BY DEF PCs, Holding, StepPCs, CancelPCs
<1>4. \E label \in PCs, c \in Checkpoints : Proceed(p, label, c)
  <2>1. CASE Artifact(p)
    BY <1>1, <1>2, <1>3, <2>1 DEF Artifact, Finish
  <2>2. CASE Recover(p)
    BY <1>1, <1>3, <2>2, AfterRecoverType DEF Recover, Finish
  <2>3. CASE Preflight(p)
    BY <1>2, <1>3, <2>3 DEF Preflight, Finish
  <2>4. CASE CancelRecover(p)
    <3>1. PICK r \in Answers(p, RecoverReplies, RecoverError) :
            \/ Proceed(p, "c_saveTurn", [cp[p] EXCEPT !.turn = r.turn])
            \/ Leave(p)
      BY <2>4 DEF CancelRecover
    <3>2. [cp[p] EXCEPT !.turn = r.turn] \in Checkpoints
      BY <1>1, RecoverReplyTypes DEF Checkpoints
    <3> QED
      BY <1>1, <1>3, <3>1, <3>2 DEF Leave
  <2>5. CASE CancelCheck(p)
    BY <1>1, <1>3, <2>5 DEF CancelCheck
  <2> QED
    BY <2>1, <2>2, <2>3, <2>4, <2>5
<1>5. UNCHANGED <<disk, lease, op, ctxDone, faults, aoVars>>
  BY DEF Artifact, Recover, Preflight, CancelRecover, CancelCheck
<1> QED
  BY <1>4, <1>5, MoveTypes, NoCpAssumption DEF TypeInv, TypeOK, AOTypeOK, aoVars

LEMMA PostTypes ==
  ASSUME TypeInv, NEW p \in Procs, Send(p) \/ CancelInterrupt(p)
  PROVE  TypeInv'
<1>1. cp[p] \in Checkpoints
  BY WorkingCheckpoint DEF Send, CancelInterrupt, At, Working, Holding, StepPCs, CancelPCs
<1>2. {"save", "c_confirm"} \subseteq PCs
  BY DEF PCs, Holding, CancelPCs
<1>3. CASE Send(p)
  <2>1. PICK t \in Turns, o \in Answers(p, SendOutcomes, Outcome("error", "void")) :
          /\ posts' = [posts EXCEPT ![t] = o.fate]
          /\ Finish(p, AfterSend(cp[p], o.reply, t))
    BY <1>3 DEF Send
  <2>2. AfterSend(cp[p], o.reply, t) \in Checkpoints
    BY <1>1, ReplyUpdateTypes
  <2>3. posts' \in [Turns -> PostStates]
    BY <2>1, SendOutcomeTypes DEF TypeInv, TypeOK, AOTypeOK
  <2>4. AOTypeOK'
    BY <1>3, <2>3 DEF Send, TypeInv, TypeOK, AOTypeOK
  <2> QED
    BY <1>2, <1>3, <2>1, <2>2, <2>4, MoveTypes, NoCpAssumption DEF Send, Finish, TypeInv, TypeOK
<1>4. CASE CancelInterrupt(p)
  <2>1. Interrupted \in [Turns -> PostStates]
    BY DEF Interrupted, TypeInv, TypeOK, AOTypeOK, PostStates, TurnStates, Ended
  <2>2. AOTypeOK'
    BY <1>4, <2>1 DEF CancelInterrupt, TypeInv, TypeOK, AOTypeOK
  <2>3. Proceed(p, "c_confirm", cp[p])
    BY <1>4 DEF CancelInterrupt
  <2> QED
    BY <1>1, <1>2, <1>4, <2>2, <2>3, MoveTypes, NoCpAssumption
    DEF CancelInterrupt, TypeInv, TypeOK
<1> QED
  BY <1>3, <1>4

\* Crashes, cancelled contexts, deadlines, and AO on its own.
LEMMA EnvironmentTypes ==
  ASSUME TypeInv,
         \/ \E p \in Procs : Crash(p) \/ ContextDone(p)
         \/ DeadlinePasses
         \/ AOStep
  PROVE  TypeInv'
<1>1. ASSUME NEW p \in Procs, Crash(p) PROVE TypeInv'
  <2>1. "down" \in PCs /\ "down" \notin Working
    BY DEF PCs, Down, Working, Holding, StepPCs, CancelPCs
  <2>2. faults' \in Nat
    BY <1>1, FaultTypes DEF Crash
  <2> QED
    BY <1>1, <2>1, <2>2, MoveTypes DEF Crash, TypeInv, TypeOK, AOTypeOK, aoVars
<1>2. ASSUME NEW p \in Procs, ContextDone(p) PROVE TypeInv'
  <2>1. faults' \in Nat
    BY <1>2, FaultTypes DEF ContextDone
  <2> QED
    BY <1>2, <2>1 DEF ContextDone, TypeInv, TypeOK, Loaded, AOTypeOK, aoVars
<1>3. CASE DeadlinePasses
  BY <1>3
  DEF DeadlinePasses, TypeInv, TypeOK, Loaded, Checkpoints, Deadlines, procVars, AOTypeOK, aoVars
<1>4. CASE AOStep
  <2>1. AOTypeOK'
    BY <1>4
    DEF AOStep, AONext, LateAccept, LateLoss, TurnEnds, TurnTurnsOdd, SessionLost,
        ForeignStarts, ForeignEnds, AcceptedAs, TypeInv, TypeOK, AOTypeOK, PostStates,
        TurnStates, Ended
  <2> QED
    BY <1>4, <2>1 DEF AOStep, TypeInv, TypeOK, Loaded, procVars
<1> QED
  BY <1>1, <1>2, <1>3, <1>4

LEMMA TypeInit == Init => TypeInv
<1> SUFFICES ASSUME Init PROVE TypeInv
  OBVIOUS
<1>1. TypeOK
  BY NewTaskType
  DEF Init, TypeOK, AOInit, AOTypeOK, PCs, Down, PostStates, OpKinds
<1>2. \A p \in Procs : Loaded(p)
  BY DEF Init, Loaded, Working, Holding, StepPCs, CancelPCs
<1> QED
  BY <1>1, <1>2 DEF TypeInv

LEMMA TypeStep ==
  ASSUME TypeInv, [Next]_vars
  PROVE  TypeInv'
<1>1. ASSUME NEW p \in Procs, ProcStep(p) PROVE TypeInv'
  <2>1. CASE Start(p) \/ Loop(p) \/ Return(p)
    BY <2>1, LoopTypes
  <2>2. CASE Acquire(p) \/ Release(p)
    BY <2>2, LeaseTypes
  <2>3. CASE Load(p) \/ CancelLoad(p)
    BY <2>3, LoadTypes
  <2>4. CASE Save(p) \/ WriteAhead(p) \/ CancelSave(p)
    BY <2>4, SaveTypes
  <2>5. CASE Observe(p) \/ CancelObserve(p)
    BY <2>5, ObserveTypes
  <2>6. CASE Artifact(p) \/ Recover(p) \/ Preflight(p) \/ CancelRecover(p) \/ CancelCheck(p)
    BY <2>6, RequestTypes
  <2>7. CASE Send(p) \/ CancelInterrupt(p)
    BY <2>7, PostTypes
  <2> QED
    BY <1>1, <2>1, <2>2, <2>3, <2>4, <2>5, <2>6, <2>7 DEF ProcStep, RunStep, CancelStep
<1>2. CASE RemoveStaleLease
  <2>1. lease \in Procs
    BY <1>2 DEF RemoveStaleLease
  <2> QED
    BY <1>2, <2>1, LeaseTypes
<1>3. CASE \/ \E p \in Procs : Crash(p) \/ ContextDone(p)
           \/ DeadlinePasses
           \/ AOStep
  BY <1>3, EnvironmentTypes
<1>4. CASE UNCHANGED vars
  BY <1>4 DEF vars, procVars, aoVars, TypeInv, TypeOK, AOTypeOK, Loaded
<1> QED
  BY <1>1, <1>2, <1>3, <1>4 DEF Next

\* TypeOK: every reachable state is well typed.  The dispatcher never applies an
\* update to the empty checkpoint that a failed Load returns.
THEOREM TypeCorrect == Spec => []TypeOK
<1>1. TypeInv => TypeOK
  BY DEF TypeInv
<1> QED
  BY TypeInit, TypeStep, <1>1, PTL DEF Spec

----------------------------------------------------------------------------
(* Safety, for checkpoints with a run owner or one process at a time.       *)

\* The states in which each update leaves a checkpoint.
LEMMA UpdateStates ==
  ASSUME NEW c \in Checkpoints
  PROVE  /\ Block(c).state = "BLOCKED"
         /\ Cancelled(c).state = "CANCELLED"
         /\ CancelUnconfirmed(c).state = "CANCEL_UNCONFIRMED"
         /\ \A t : Delivered(c, t).state = "DELIVERED"
         /\ ReconcileLater(c).state \in {"DELIVERY_UNCERTAIN", "BLOCKED"}
         /\ ScheduleSendRetry(c).state \in {"WAITING_RETRY", "BLOCKED"}
         /\ ScheduleReconciliation(c).state \in {c.state, "BLOCKED"}
         /\ WriteAheadOf(c).state = "DELIVERY_UNCERTAIN"
         /\ CountAttempt(c).state = c.state
         /\ \A r : AcceptReceipt(c, r).state \in {"COMPLETED", "BLOCKED"}
         /\ \A obs : SettleCancel(c, obs).state \in Final \cup {"CANCEL_UNCONFIRMED"}
<1> USE DEF Checkpoints
<1>1. Block(c).state = "BLOCKED"
  BY DEF Block
<1>2. Cancelled(c).state = "CANCELLED" /\ CancelUnconfirmed(c).state = "CANCEL_UNCONFIRMED"
  BY DEF Cancelled, CancelUnconfirmed
<1>3. \A t : Delivered(c, t).state = "DELIVERED"
  BY DEF Delivered
<1>4. ReconcileLater(c).state \in {"DELIVERY_UNCERTAIN", "BLOCKED"}
  BY <1>1 DEF ReconcileLater
<1>5. ScheduleSendRetry(c).state \in {"WAITING_RETRY", "BLOCKED"}
  BY <1>1 DEF ScheduleSendRetry
<1>6. ScheduleReconciliation(c).state \in {c.state, "BLOCKED"}
  BY <1>1 DEF ScheduleReconciliation
<1>7. CountAttempt(c) \in Checkpoints /\ CountAttempt(c).state = c.state
  BY UpdateTypes DEF CountAttempt
<1>8. WriteAheadOf(c).state = "DELIVERY_UNCERTAIN"
  BY <1>7 DEF WriteAheadOf
<1>9. \A r : AcceptReceipt(c, r).state \in {"COMPLETED", "BLOCKED"}
  BY <1>1 DEF AcceptReceipt
<1>10. \A obs : SettleCancel(c, obs).state \in Final \cup {"CANCEL_UNCONFIRMED"}
  BY <1>9 DEF SettleCancel, Final
<1> QED
  BY <1>1, <1>2, <1>3, <1>4, <1>5, <1>6, <1>7, <1>8, <1>9, <1>10

\* A reply makes the text sendable again only if it was before, or if AO said that
\* it had not accepted the request.
LEMMA ReplyStates ==
  ASSUME NEW c \in Checkpoints
  PROVE  /\ ObserveFailed(c).state \in BeforeSend => c.state \in BeforeSend
         /\ \A r : AfterRecover(c, r).state \notin BeforeSend
         /\ \A reply, t : AfterSend(c, reply, t).state \in BeforeSend => reply = "notAccepted"
<1> USE DEF BeforeSend
<1>1. CountAttempt(c) \in Checkpoints /\ CountAttempt(c).state = c.state
  BY UpdateTypes, UpdateStates
<1>2. ObserveFailed(c).state \in BeforeSend => c.state \in BeforeSend
  BY <1>1, UpdateStates DEF ObserveFailed
<1>3. \A r : AfterRecover(c, r).state \notin BeforeSend
  BY <1>1, UpdateStates DEF AfterRecover
<1>4. \A reply, t : AfterSend(c, reply, t).state \in BeforeSend => reply = "notAccepted"
  BY UpdateStates DEF AfterSend
<1> QED
  BY <1>2, <1>3, <1>4

SafetyInv == TypeInv /\ IInv

\* Only one process is between Acquire and release.
LEMMA Exclusion ==
  ASSUME IInv, NEW p \in Procs, NEW q \in Procs,
         pc[p] \in Holding, pc[q] \in Holding
  PROVE  p = q
BY DEF IInv, LeaseExcludes

\* Outside Holding nothing is asked of a process.
LEMMA FitsOutside ==
  ASSUME NEW label, label \notin Holding, NEW c
  PROVE  Fits(label, c) /\ Fits(label, c)'
BY DEF Fits, Holding, Working, StepPCs, CancelPCs

\* A process that holds the lease moves on, and neither the file nor AO changes.
LEMMA QuietMove ==
  ASSUME SafetyInv, TypeInv', NEW p \in Procs, pc[p] \in Holding,
         NEW label, NEW c, Proceed(p, label, c), Fits(label, c),
         UNCHANGED <<disk, lease, posts>>
  PROVE  SafetyInv'
<1>1. pc' = [pc EXCEPT ![p] = label] /\ cp' = [cp EXCEPT ![p] = c]
  BY DEF Proceed, Go, Keep
<1>2. AtMostOnce' /\ ResendableMeansUnsent'
  BY DEF SafetyInv, IInv, AtMostOnce, ResendableMeansUnsent, Clear, Possible
<1>3. ASSUME NEW q \in Procs
      PROVE  /\ pc'[q] \in Holding => q = p /\ (UseLease => lease' = q)
             /\ Fits(pc[q], cp[q])'
  <2>1. CASE q = p
    <3>1. pc'[q] = label /\ cp'[q] = c /\ (UseLease => lease' = p)
      BY <1>1, <2>1 DEF SafetyInv, TypeInv, TypeOK, IInv
    <3>2. Fits(label, c)'
      BY DEF Fits, Clear, Possible
    <3> QED
      BY <2>1, <3>1, <3>2 DEF Fits
  <2>2. CASE q # p
    <3>1. pc[q] \notin Holding
      BY <2>2, Exclusion DEF SafetyInv
    <3>2. pc'[q] = pc[q]
      BY <1>1, <2>2 DEF SafetyInv, TypeInv, TypeOK
    <3> QED
      BY <3>1, <3>2 DEF Fits, Holding, Working, StepPCs, CancelPCs
  <2> QED
    BY <2>1, <2>2
<1> QED
  BY <1>2, <1>3 DEF SafetyInv, IInv, TypeInv, LeaseExcludes

\* Labels at which nothing is asked of the checkpoint in memory.
LEMMA FitsRelease ==
  ASSUME NEW c
  PROVE  Fits("release", c) /\ Fits("load", c)
BY DEF Fits, Working, StepPCs, CancelPCs

\* A final Save fits whatever decides or stops the task, or keeps a claim that was
\* true, as long as the file holds no decision.
LEMMA FitsSave ==
  ASSUME NEW c, disk.state \in OpenStates, c.state \in BeforeSend => Clear
  PROVE  Fits("save", c)
BY DEF Fits, Working, StepPCs, CancelPCs, OpenStates, Final

LEMMA LoadSafe ==
  ASSUME SafetyInv, TypeInv', NEW p \in Procs, Load(p) \/ CancelLoad(p)
  PROVE  SafetyInv'
<1> USE DEF Holding, Working, StepPCs, CancelPCs
<1>1. disk \in Checkpoints /\ pc[p] \in Holding /\ UNCHANGED <<disk, lease, posts>>
  BY DEF SafetyInv, TypeInv, TypeOK, Load, CancelLoad, At, aoVars
<1>2. disk.state \in BeforeSend => Clear
  BY DEF SafetyInv, IInv, ResendableMeansUnsent
<1>3. disk.state \in OpenStates \cup Final \cup {"CANCEL_UNCONFIRMED"}
  BY <1>1 DEF Checkpoints, TaskStates, OpenStates, Final
<1>4. \E label, c : Proceed(p, label, c) /\ Fits(label, c)
  <2>1. CASE Leave(p)
    BY <2>1, FitsRelease DEF Leave
  <2>2. CASE ~Leave(p) /\ Load(p)
    <3>1. Fits("save", disk)
      BY <1>2, <1>3 DEF Fits, Final, OpenStates
    <3>2. ~Terminal(disk) => Fits("artifact", disk)
      BY <1>2, <1>3 DEF Fits, Final, OpenStates, Terminal
    <3> QED
      BY <2>2, <3>1, <3>2, FitsRelease DEF Load, Finish
  <2>3. CASE ~Leave(p) /\ CancelLoad(p)
    <3>1. disk.state \in BeforeSend => Fits("save", Cancelled(disk))
      BY <1>1, UpdateStates, FitsSave DEF BeforeSend, OpenStates
    <3>2. disk.state \notin Final => Fits("c_mark", CancelUnconfirmed(disk))
      BY <1>1, UpdateStates DEF Fits, BeforeSend
    <3> QED
      BY <2>3, <3>1, <3>2, FitsRelease DEF CancelLoad, Finish, Final
  <2> QED
    BY <2>1, <2>2, <2>3
<1> QED
  BY <1>1, <1>4, QuietMove

LEMMA DispatchSafe ==
  ASSUME NEW p \in Procs, NEW obs, cp[p] \in Checkpoints,
         cp[p].state \in OpenStates \ {"DELIVERY_UNCERTAIN"},
         cp[p].state \in BeforeSend => Clear, disk.state \in OpenStates,
         Dispatch(p, obs)
  PROVE  \E label, c : Proceed(p, label, c) /\ Fits(label, c)
<1> DEFINE c == cp[p]
<1>1. /\ Fits("save", AcceptReceipt(c, obs.receipt))
      /\ Fits("save", Delivered(c, c.turn))
      /\ Fits("save", Cancelled(c))
      /\ Fits("save", Block(c))
  BY UpdateStates, FitsSave DEF BeforeSend
<1>2. Fits("recover", c)
  BY DEF Fits, Working, Holding, StepPCs, CancelPCs
<1>3. c.state # "DELIVERED" => Fits("preflight", c)
  BY DEF Fits, Working, Holding, StepPCs, CancelPCs, OpenStates, BeforeSend
<1> QED
  BY <1>1, <1>2, <1>3, FitsRelease DEF Dispatch, Finish, Leave

LEMMA StepSafe ==
  ASSUME SafetyInv, TypeInv', NEW p \in Procs,
         Artifact(p) \/ Observe(p) \/ Recover(p) \/ Preflight(p)
  PROVE  SafetyInv'
<1>1. /\ pc[p] \in {"artifact", "observe", "recover", "preflight"}
      /\ UNCHANGED <<disk, lease, posts>>
  BY DEF Artifact, Observe, Recover, Preflight, At, aoVars
<1>2. pc[p] \in Holding /\ pc[p] \in Working /\ pc[p] \in StepPCs
  BY <1>1 DEF Holding, Working, StepPCs
<1>3. cp[p] \in Checkpoints
  BY <1>2, WorkingCheckpoint DEF SafetyInv
<1>4. Fits(pc[p], cp[p])
  BY DEF SafetyInv, IInv
<1>5. /\ disk.state \in OpenStates
      /\ cp[p].state \in BeforeSend => Clear
      /\ pc[p] \in {"artifact", "observe"} => cp[p].state \in OpenStates
      /\ pc[p] = "preflight" => cp[p].state \in BeforeSend
  BY <1>2, <1>4 DEF Fits
<1>6. Fits("save", Block(cp[p])) /\ Fits("save", Cancelled(cp[p]))
  BY <1>3, <1>5, UpdateStates, FitsSave DEF BeforeSend
<1>7. \E label, c : Proceed(p, label, c) /\ Fits(label, c)
  <2>1. CASE Artifact(p)
    <3>1. Fits("observe", cp[p])
      BY <1>5, <2>1 DEF Fits, Artifact, At, Working, Holding, StepPCs, CancelPCs
    <3> QED
      BY <1>6, <2>1, <3>1 DEF Artifact, Finish
  <2>2. CASE Observe(p)
    <3>1. Fits("save", ObserveFailed(cp[p]))
      BY <1>3, <1>5, ReplyStates, FitsSave
    <3>2. Fits("recover", cp[p])
      BY <1>5 DEF Fits, Working, Holding, StepPCs, CancelPCs
    <3>3. cp[p].state \in OpenStates
      BY <1>5, <2>2 DEF Observe, At
    <3>4. \/ Finish(p, ObserveFailed(cp[p])) \/ Finish(p, Block(cp[p]))
          \/ Finish(p, Cancelled(cp[p])) \/ Proceed(p, "recover", cp[p])
          \/ cp[p].state # "DELIVERY_UNCERTAIN" /\ \E obs : Dispatch(p, obs)
      BY <2>2 DEF Observe
    <3> QED
      BY <1>3, <1>5, <1>6, <3>1, <3>2, <3>3, <3>4, DispatchSafe DEF Finish
  <2>3. CASE Recover(p)
    <3>1. \A r : Fits("save", AfterRecover(cp[p], r))
      BY <1>3, <1>5, ReplyStates, FitsSave
    <3> QED
      BY <2>3, <3>1 DEF Recover, Finish
  <2>4. CASE Preflight(p)
    <3>1. Clear
      BY <1>5, <2>4 DEF Preflight, At
    <3>2. Fits("writeahead", WriteAheadOf(cp[p]))
      BY <1>3, <1>5, <3>1, UpdateStates
      DEF Fits, Working, Holding, StepPCs, CancelPCs, BeforeSend
    <3> QED
      BY <1>6, <2>4, <3>2 DEF Preflight, Finish
  <2> QED
    BY <2>1, <2>2, <2>3, <2>4
<1> QED
  BY <1>1, <1>2, <1>7, QuietMove

LEMMA CancelSafe ==
  ASSUME SafetyInv, TypeInv', NEW p \in Procs,
         CancelRecover(p) \/ CancelObserve(p) \/ CancelCheck(p)
  PROVE  SafetyInv'
<1>1. pc[p] \in CancelPCs /\ UNCHANGED <<disk, lease, posts>>
  BY DEF CancelRecover, CancelObserve, CancelCheck, At, CancelPCs, aoVars
<1>2. pc[p] \in Holding /\ pc[p] \in Working
  BY <1>1 DEF Holding, Working, CancelPCs
<1>3. cp[p] \in Checkpoints
  BY <1>2, WorkingCheckpoint DEF SafetyInv
<1>4. cp[p].state = "CANCEL_UNCONFIRMED" /\ disk.state \notin Final
  BY <1>1 DEF SafetyInv, IInv, Fits
<1>5. ASSUME NEW label \in CancelPCs, NEW c, c.state = "CANCEL_UNCONFIRMED"
      PROVE  Fits(label, c)
  BY <1>4, <1>5 DEF Fits, CancelPCs, StepPCs, BeforeSend
<1>6. \A obs : Fits("save", SettleCancel(cp[p], obs))
  <2> SUFFICES ASSUME NEW obs PROVE Fits("save", SettleCancel(cp[p], obs))
    OBVIOUS
  <2>1. SettleCancel(cp[p], obs).state \in Final \cup {"CANCEL_UNCONFIRMED"}
    BY <1>3, UpdateStates
  <2> QED
    BY <1>4, <2>1 DEF Fits, Final, BeforeSend, StepPCs, CancelPCs
<1>7. \E label, c : Proceed(p, label, c) /\ Fits(label, c)
  <2>1. CASE CancelRecover(p)
    <3>1. \A t : [cp[p] EXCEPT !.turn = t].state = "CANCEL_UNCONFIRMED"
      BY <1>3, <1>4 DEF Checkpoints
    <3>2. \A t : Fits("c_saveTurn", [cp[p] EXCEPT !.turn = t])
      BY <1>5, <3>1 DEF CancelPCs
    <3> QED
      BY <2>1, <3>2, FitsRelease DEF CancelRecover, Leave
  <2>2. CASE CancelObserve(p)
    <3>1. Fits("c_check", cp[p])
      BY <1>4, <1>5 DEF CancelPCs
    <3> QED
      BY <1>6, <2>2, <3>1, FitsRelease DEF CancelObserve, Finish, Leave
  <2>3. CASE CancelCheck(p)
    <3>1. Fits("c_interrupt", cp[p]) /\ Fits("c_confirm", cp[p])
      BY <1>4, <1>5 DEF CancelPCs
    <3> QED
      BY <2>3, <3>1 DEF CancelCheck
  <2> QED
    BY <2>1, <2>2, <2>3
<1> QED
  BY <1>1, <1>2, <1>7, QuietMove

\* Where a process is, and what it has in memory, once it has moved on.
LEMMA Moved ==
  ASSUME TypeInv, NEW p \in Procs, NEW label, NEW c, Proceed(p, label, c)
  PROVE  pc'[p] = label /\ cp'[p] = c /\ \A q \in Procs \ {p} : pc'[q] = pc[q]
BY DEF Proceed, Go, Keep, TypeInv, TypeOK

\* While p holds the lease no other process holds anything, whatever p does to the
\* file or makes AO do: a step of p keeps the invariant if it does so for p and for
\* the file.
LEMMA HolderMove ==
  ASSUME SafetyInv, TypeInv', NEW p \in Procs, pc[p] \in Holding,
         \A q \in Procs \ {p} : pc'[q] = pc[q],
         UseLease => lease' = p, Fits(pc[p], cp[p])', AtMostOnce', ResendableMeansUnsent'
  PROVE  SafetyInv'
<1>1. ASSUME NEW q \in Procs, q # p
      PROVE  pc'[q] \notin Holding
  BY <1>1, Exclusion DEF SafetyInv
<1>2. ASSUME NEW q \in Procs
      PROVE  /\ pc'[q] \in Holding => q = p /\ (UseLease => lease' = q)
             /\ Fits(pc[q], cp[q])'
  <2>1. CASE q = p
    BY <2>1
  <2>2. CASE q # p
    BY <1>1, <2>2 DEF Fits, Holding, Working, StepPCs, CancelPCs
  <2> QED
    BY <2>1, <2>2
<1> QED
  BY <1>2 DEF SafetyInv, IInv, TypeInv, LeaseExcludes

LEMMA SaveSafe ==
  ASSUME SafetyInv, TypeInv', NEW p \in Procs, Save(p) \/ WriteAhead(p) \/ CancelSave(p)
  PROVE  SafetyInv'
<1> USE DEF Holding, Working, StepPCs, CancelPCs
<1>1. /\ pc[p] \in {"save", "writeahead", "c_mark", "c_saveTurn"}
      /\ UNCHANGED <<lease, posts>>
  BY DEF Save, WriteAhead, CancelSave, At, aoVars
<1>2. Fits(pc[p], cp[p]) /\ (UseLease => lease' = p)
  BY <1>1 DEF SafetyInv, IInv
<1>3. disk' = disk \/ disk' = cp[p]
  BY DEF Save, WriteAhead, CancelSave, Saved, SaveFailed
<1>4. AtMostOnce' /\ (Clear <=> Clear')
  BY <1>1 DEF SafetyInv, IInv, AtMostOnce, Clear, Possible
<1>5. ResendableMeansUnsent'
  BY <1>1, <1>2, <1>3, <1>4 DEF Fits, SafetyInv, IInv, ResendableMeansUnsent
<1>6. /\ \A q \in Procs \ {p} : pc'[q] = pc[q]
      /\ cp'[p] = cp[p]
      /\ \/ pc'[p] = "release"
         \/ WriteAhead(p) /\ disk' = cp[p] /\ pc'[p] = "send"
         \/ CancelSave(p) /\ disk' = cp[p] /\ pc'[p] \in {"c_recover", "c_observe"}
  BY Moved DEF SafetyInv, Save, WriteAhead, CancelSave, Saved, Leave
<1>7. Fits(pc[p], cp[p])'
  <2>1. CASE pc'[p] = "release"
    BY <2>1 DEF Fits
  <2>2. CASE WriteAhead(p) /\ disk' = cp[p] /\ pc'[p] = "send"
    <3>1. pc[p] = "writeahead"
      BY <2>2 DEF WriteAhead, At
    <3> QED
      BY <1>2, <1>4, <1>6, <2>2, <3>1 DEF Fits, OpenStates, BeforeSend
  <2>3. CASE CancelSave(p) /\ disk' = cp[p] /\ pc'[p] \in {"c_recover", "c_observe"}
    <3>1. pc[p] \in {"c_mark", "c_saveTurn"}
      BY <2>3 DEF CancelSave
    <3> QED
      BY <1>2, <1>6, <2>3, <3>1 DEF Fits, BeforeSend, Final
  <2> QED
    BY <1>6, <2>1, <2>2, <2>3
<1> QED
  BY <1>1, <1>2, <1>4, <1>5, <1>6, <1>7, HolderMove

LEMMA SendSafe ==
  ASSUME SafetyInv, TypeInv', NEW p \in Procs, Send(p)
  PROVE  SafetyInv'
<1> USE DEF Holding, Working, StepPCs, CancelPCs
<1>1. pc[p] = "send" /\ disk' = disk /\ lease' = lease
  BY DEF Send, At
<1>2. Fits(pc[p], cp[p]) /\ (UseLease => lease' = p)
  BY <1>1 DEF SafetyInv, IInv
<1>3. Clear /\ disk.state = "DELIVERY_UNCERTAIN"
  BY <1>1, <1>2 DEF Fits
<1>4. PICK t \in Turns, o \in Answers(p, SendOutcomes, Outcome("error", "void")) :
        /\ posts' = [posts EXCEPT ![t] = o.fate]
        /\ Finish(p, AfterSend(cp[p], o.reply, t))
  BY DEF Send
<1>5. \A u \in Turns : u # t => ~Possible(u)'
  BY <1>3, <1>4 DEF Clear, Possible, SafetyInv, TypeInv, TypeOK, AOTypeOK
<1>6. AtMostOnce'
  BY <1>5 DEF AtMostOnce
<1>7. ResendableMeansUnsent'
  BY <1>1, <1>3 DEF ResendableMeansUnsent, BeforeSend
<1>8. cp[p] \in Checkpoints
  BY <1>1, WorkingCheckpoint DEF SafetyInv
<1>9. /\ pc'[p] = "save" /\ cp'[p] = AfterSend(cp[p], o.reply, t)
      /\ \A q \in Procs \ {p} : pc'[q] = pc[q]
  BY <1>4, Moved DEF Finish, SafetyInv
<1>10. cp'[p].state \in BeforeSend => Clear'
  <2>1. SUFFICES ASSUME o.fate = "void" PROVE Clear'
    BY <1>8, <1>9, ReplyStates, SendOutcomeTypes
  <2>2. ~Possible(t)'
    BY <1>4, <2>1 DEF Possible, SafetyInv, TypeInv, TypeOK, AOTypeOK
  <2> QED
    BY <1>5, <2>2 DEF Clear
<1>11. Fits(pc[p], cp[p])'
  BY <1>1, <1>3, <1>9, <1>10 DEF Fits, Final
<1> QED
  BY <1>1, <1>2, <1>6, <1>7, <1>9, <1>11, HolderMove

\* AO moves POSTs that it has, or may get, and no others.
LEMMA AOMoves ==
  ASSUME TypeInv, TypeInv',
         \A t \in Turns : Possible(t)' => Possible(t)
  PROVE  (Clear => Clear') /\ (AtMostOnce => AtMostOnce')
BY DEF Clear, AtMostOnce

LEMMA InterruptSafe ==
  ASSUME SafetyInv, TypeInv', NEW p \in Procs, CancelInterrupt(p)
  PROVE  SafetyInv'
<1> USE DEF Holding, Working, StepPCs, CancelPCs
<1>1. pc[p] = "c_interrupt" /\ disk' = disk /\ lease' = lease
  BY DEF CancelInterrupt, At
<1>2. Fits(pc[p], cp[p]) /\ (UseLease => lease' = p)
  BY <1>1 DEF SafetyInv, IInv
<1>3. \A t \in Turns : Possible(t)' => Possible(t)
  BY DEF CancelInterrupt, Interrupted, Possible, SafetyInv, TypeInv, TypeOK, AOTypeOK
<1>4. AtMostOnce' /\ ResendableMeansUnsent'
  BY <1>1, <1>3, AOMoves DEF SafetyInv, IInv, ResendableMeansUnsent
<1>5. /\ pc'[p] = "c_confirm" /\ cp'[p] = cp[p]
      /\ \A q \in Procs \ {p} : pc'[q] = pc[q]
  BY Moved DEF CancelInterrupt, SafetyInv
<1>6. Fits(pc[p], cp[p])'
  BY <1>1, <1>2, <1>5 DEF Fits, BeforeSend
<1> QED
  BY <1>1, <1>2, <1>4, <1>5, <1>6, HolderMove

\* Steps outside the lease, and the two that take and release it.
LEMMA LeaseSafe ==
  ASSUME Exclusive, SafetyInv, TypeInv', NEW p \in Procs,
         Start(p) \/ Loop(p) \/ Return(p) \/ Acquire(p) \/ Release(p)
  PROVE  SafetyInv'
<1> USE DEF Holding, Working, StepPCs, CancelPCs
<1>1. UNCHANGED <<disk, posts>>
  BY DEF Start, Loop, Return, Acquire, Release, aoVars
<1>2. AtMostOnce' /\ ResendableMeansUnsent' /\ (Clear => Clear')
  BY <1>1 DEF SafetyInv, IInv, AtMostOnce, ResendableMeansUnsent, Clear, Possible
<1>3. ASSUME NEW q \in Procs
      PROVE  /\ pc'[q] \in Holding => /\ UseLease => lease' = q
                                     /\ \A r \in Procs : pc'[r] \in Holding => r = q
             /\ Fits(pc[q], cp[q])'
  <2>1. CASE Start(p) \/ Loop(p) \/ Return(p)
    <3>1. PICK label : label \notin Holding /\ Proceed(p, label, NoCp)
      BY <2>1 DEF Start, Loop, Return, ExitCode, RunnerResult
    <3>2. lease' = lease
      BY <2>1 DEF Start, Loop, Return
    <3>3. \A r \in Procs : (pc'[r] = pc[r] /\ cp'[r] = cp[r]) \/ pc'[r] \notin Holding
      BY <3>1 DEF Proceed, Go, Keep, SafetyInv, TypeInv, TypeOK
    <3> QED
      BY <1>1, <1>2, <3>2, <3>3 DEF Fits, SafetyInv, IInv, LeaseExcludes
  <2>2. CASE Acquire(p)
    <3>1. cp' = cp
      BY <2>2 DEF Acquire
    <3>2. CASE LeaseGranted(p) /\ Go(p, "load")
      <4>1. ASSUME NEW r \in Procs, r # p PROVE pc[r] \notin Holding
        BY <3>2, <4>1, ProcsAssumption DEF SafetyInv, IInv, LeaseGranted, Exclusive
      <4>2. \A r \in Procs : pc'[r] \notin Holding \/ (r = p /\ pc'[r] = "load")
        BY <3>2, <4>1 DEF Go, SafetyInv, TypeInv, TypeOK
      <4> QED
        BY <3>2, <4>2 DEF Fits, LeaseGranted
    <3>3. CASE lease' = lease /\ Go(p, "returned")
      <4>1. \A r \in Procs : pc'[r] = pc[r] \/ pc'[r] \notin Holding
        BY <3>3 DEF Go, SafetyInv, TypeInv, TypeOK
      <4> QED
        BY <1>1, <1>2, <3>1, <3>3, <4>1 DEF Fits, SafetyInv, IInv, LeaseExcludes
    <3> QED
      BY <2>2, <3>2, <3>3 DEF Acquire
  <2>3. CASE Release(p)
    <3>1. pc[p] = "release" /\ pc' = [pc EXCEPT ![p] = "returned"]
      BY <2>3 DEF Release, At, Go
    <3>2. pc'[q] \notin Holding
      BY <3>1, Exclusion DEF SafetyInv, TypeInv, TypeOK
    <3> QED
      BY <3>2 DEF Fits
  <2> QED
    BY <2>1, <2>2, <2>3
<1> QED
  BY <1>2, <1>3 DEF SafetyInv, IInv, TypeInv, LeaseExcludes

LEMMA EnvironmentSafe ==
  ASSUME SafetyInv, TypeInv',
         \/ \E p \in Procs : Crash(p) \/ ContextDone(p)
         \/ RemoveStaleLease \/ DeadlinePasses \/ AOStep \/ UNCHANGED vars
  PROVE  SafetyInv'
<1>1. disk'.state = disk.state
  BY DEF Crash, ContextDone, RemoveStaleLease, DeadlinePasses, AOStep, vars,
         SafetyInv, TypeInv, TypeOK, Checkpoints
<1>2. \A t \in Turns : Possible(t)' => Possible(t)
  BY DEF Crash, ContextDone, RemoveStaleLease, DeadlinePasses, AOStep, vars, aoVars,
         AONext, LateAccept, LateLoss, TurnEnds, TurnTurnsOdd, SessionLost, ForeignStarts,
         ForeignEnds, Possible, SafetyInv, TypeInv, TypeOK, AOTypeOK
<1>3. AtMostOnce' /\ (Clear => Clear')
  BY <1>2, AOMoves DEF SafetyInv, IInv
<1>4. ResendableMeansUnsent'
  BY <1>1, <1>3 DEF SafetyInv, IInv, ResendableMeansUnsent
<1>5. ASSUME NEW q \in Procs
      PROVE  \/ pc'[q] = pc[q] /\ cp'[q] = cp[q]
             \/ pc'[q] \notin Holding
  BY DEF Crash, ContextDone, RemoveStaleLease, DeadlinePasses, AOStep, vars, procVars,
         Proceed, Go, Keep, Holding, StepPCs, CancelPCs, SafetyInv, TypeInv, TypeOK
<1>6. ASSUME NEW q \in Procs, pc'[q] \in Holding
      PROVE  /\ UseLease => lease' = q
             /\ \A r \in Procs : pc'[r] \in Holding => r = q
  <2>1. (UseLease => lease = q) /\ pc[q] \in Holding
    BY <1>5, <1>6 DEF SafetyInv, IInv
  <2>2. \A r \in Procs : pc'[r] \in Holding => r = q
    BY <1>5, <1>6, Exclusion DEF SafetyInv
  <2> QED
    BY <2>1, <2>2 DEF Crash, ContextDone, RemoveStaleLease, DeadlinePasses, AOStep, vars
<1>7. ASSUME NEW q \in Procs
      PROVE  Fits(pc[q], cp[q])'
  <2>1. CASE pc'[q] = pc[q] /\ cp'[q] = cp[q]
    BY <1>1, <1>3, <2>1 DEF Fits, SafetyInv, IInv
  <2>2. CASE pc'[q] \notin Holding
    BY <2>2 DEF Fits, Holding, Working, StepPCs, CancelPCs
  <2> QED
    BY <1>5, <2>1, <2>2
<1> QED
  BY <1>3, <1>4, <1>6, <1>7 DEF SafetyInv, IInv, TypeInv, LeaseExcludes

\* One step keeps the invariant.
LEMMA SafetyStep ==
  ASSUME Exclusive, SafetyInv, [Next]_vars
  PROVE  SafetyInv'
<1>1. TypeInv'
  BY TypeStep DEF SafetyInv
<1>2. ASSUME NEW p \in Procs, ProcStep(p) PROVE SafetyInv'
  <2>1. CASE Start(p) \/ Loop(p) \/ Return(p) \/ Acquire(p) \/ Release(p)
    BY <1>1, <2>1, LeaseSafe
  <2>2. CASE Load(p) \/ CancelLoad(p)
    BY <1>1, <2>2, LoadSafe
  <2>3. CASE Save(p) \/ WriteAhead(p) \/ CancelSave(p)
    BY <1>1, <2>3, SaveSafe
  <2>4. CASE Artifact(p) \/ Observe(p) \/ Recover(p) \/ Preflight(p)
    BY <1>1, <2>4, StepSafe
  <2>5. CASE CancelRecover(p) \/ CancelObserve(p) \/ CancelCheck(p)
    BY <1>1, <2>5, CancelSafe
  <2>6. CASE Send(p)
    BY <1>1, <2>6, SendSafe
  <2>7. CASE CancelInterrupt(p)
    BY <1>1, <2>7, InterruptSafe
  <2> QED
    BY <1>2, <2>1, <2>2, <2>3, <2>4, <2>5, <2>6, <2>7 DEF ProcStep, RunStep, CancelStep
<1>3. CASE \/ \E p \in Procs : Crash(p) \/ ContextDone(p)
           \/ RemoveStaleLease \/ DeadlinePasses \/ AOStep \/ UNCHANGED vars
  BY <1>1, <1>3, EnvironmentSafe
<1> QED
  BY <1>2, <1>3 DEF Next

LEMMA SafetyInit == Init => SafetyInv
<1> SUFFICES ASSUME Init PROVE SafetyInv
  OBVIOUS
<1>1. TypeInv
  BY TypeInit
<1>2. Clear /\ AtMostOnce
  BY DEF Init, AOInit, Clear, AtMostOnce, Possible
<1>3. ASSUME NEW p \in Procs
      PROVE  pc[p] \notin Holding /\ Fits(pc[p], cp[p])
  BY FitsOutside DEF Init, Holding, StepPCs, CancelPCs
<1> QED
  BY <1>1, <1>2, <1>3 DEF SafetyInv, IInv, ResendableMeansUnsent, TypeInv, LeaseExcludes

\* IInv: the invariant on which the theorems below rest holds in every reachable
\* state of a task with a run owner, and of one that a single process recovers.
THEOREM InductiveInvariant == ASSUME Exclusive PROVE Spec => []IInv
<1>1. SafetyInv => IInv
  BY DEF SafetyInv
<1> QED
  BY SafetyInit, SafetyStep, <1>1, PTL DEF Spec

\* AtMostOnce: for any number of processes, restarts and faults, the text of a task
\* with a run owner reaches AO at most once, without help from AO; without a lease the
\* same holds as long as one process at a time recovers the task, however it crashes.
THEOREM AtMostOnceDelivery == ASSUME Exclusive PROVE Spec => []AtMostOnce
<1>1. IInv => AtMostOnce
  BY DEF IInv
<1> QED
  BY InductiveInvariant, <1>1, PTL

\* LeaseExcludes: the lease file serializes the processes from Load to the last Save.
THEOREM MutualExclusion == ASSUME Exclusive PROVE Spec => []LeaseExcludes
<1>1. IInv => LeaseExcludes
  BY Exclusion DEF LeaseExcludes
<1> QED
  BY InductiveInvariant, <1>1, PTL

\* PreflightAndPostAreExclusive: what docs/06-OPERATIONS.md:228 says of every task holds for
\* a task with a run owner, and for one that a single process recovers; it is the task
\* without a lease, and with two processes, that refutes it.
THEOREM ExclusiveSend == ASSUME Exclusive PROVE Spec => []PreflightAndPostAreExclusive
<1>1. IInv => PreflightAndPostAreExclusive
  BY Exclusion DEF PreflightAndPostAreExclusive, Holding, StepPCs
<1> QED
  BY InductiveInvariant, <1>1, PTL

\* ResendableMeansUnsent: after any crash, a checkpoint that allows a send is right
\* about AO.
THEOREM DurableBarrier == ASSUME Exclusive PROVE Spec => []ResendableMeansUnsent
<1>1. IInv => ResendableMeansUnsent
  BY DEF IInv
<1> QED
  BY InductiveInvariant, <1>1, PTL

----------------------------------------------------------------------------
(* Action properties, from the same invariant.                              *)

\* SendIsWrittenAhead: whoever sends has the write-ahead in the file.
THEOREM WriteAheadPrecedesSend == ASSUME Exclusive PROVE Spec => SendIsWrittenAhead
<1>1. ASSUME SafetyInv, [Next]_vars, NEW t \in Turns, Posted(t)
      PROVE  disk.state = "DELIVERY_UNCERTAIN"
  <2>1. posts[t] = "unsent" /\ posts' # posts
    BY <1>1 DEF Posted
  <2>2. AOStep \/ \E p \in Procs : Send(p) \/ CancelInterrupt(p)
    BY <1>1, <2>1
    DEF Next, ProcStep, RunStep, CancelStep, Start, Loop, Return, Acquire, Release, Load,
        Save, Artifact, Observe, Recover, Preflight, WriteAhead, CancelLoad, CancelSave,
        CancelRecover, CancelObserve, CancelCheck, Crash, ContextDone, RemoveStaleLease,
        DeadlinePasses, vars, aoVars
  <2>3. ~AOStep
    BY <1>1, <2>1
    DEF AOStep, AONext, LateAccept, LateLoss, TurnEnds, TurnTurnsOdd, SessionLost,
        ForeignStarts, ForeignEnds, Posted, SafetyInv, TypeInv, TypeOK, AOTypeOK
  <2>4. \A p \in Procs : ~CancelInterrupt(p)
    BY <1>1, <2>1 DEF CancelInterrupt, Interrupted, Posted, SafetyInv, TypeInv, TypeOK, AOTypeOK
  <2>5. PICK p \in Procs : pc[p] = "send"
    BY <2>2, <2>3, <2>4 DEF Send, At
  <2> QED
    BY <1>1, <2>5 DEF SafetyInv, IInv, Fits
<1>2. SafetyInv /\ [Next]_vars =>
        [(\E t \in Turns : Posted(t)) => disk.state = "DELIVERY_UNCERTAIN"]_vars
  BY <1>1
<1> QED
  BY SafetyInit, SafetyStep, <1>2, PTL DEF Spec, SendIsWrittenAhead

\* What a step may do to a decision.
Stands ==
  /\ disk.state \in {"COMPLETED", "CANCELLED", "BLOCKED"} => disk'.state = disk.state
  /\ disk.state = "CANCEL_UNCONFIRMED" =>
       disk'.state \in {"CANCEL_UNCONFIRMED", "CANCELLED", "COMPLETED", "BLOCKED"}

LEMMA DecisionStep ==
  ASSUME SafetyInv, [Next]_vars
  PROVE  Stands
<1>1. CASE disk'.state = disk.state
  BY <1>1 DEF Stands
<1>2. CASE disk'.state # disk.state
  <2>1. PICK p \in Procs : Save(p) \/ WriteAhead(p) \/ CancelSave(p)
    BY <1>2
    DEF Next, ProcStep, RunStep, CancelStep, Start, Loop, Return, Acquire, Release, Load,
        Artifact, Observe, Recover, Preflight, Send, CancelLoad, CancelRecover,
        CancelObserve, CancelCheck, CancelInterrupt, Crash, ContextDone,
        RemoveStaleLease, DeadlinePasses, AOStep, vars,
        SafetyInv, TypeInv, TypeOK, Checkpoints
  <2>2. disk' = cp[p]
    BY <1>2, <2>1 DEF Save, WriteAhead, CancelSave, Saved, SaveFailed
  <2>3. Fits(pc[p], cp[p])
    BY DEF SafetyInv, IInv
  <2>4. pc[p] \in {"save", "writeahead", "c_mark", "c_saveTurn"}
    BY <2>1 DEF Save, WriteAhead, CancelSave, At
  <2> QED
    BY <2>2, <2>3, <2>4 DEF Stands, Fits, StepPCs, CancelPCs, OpenStates, Final
<1> QED
  BY <1>1, <1>2

\* TerminalIsFinal: no Step and no Cancel, of any process, however delayed or
\* interrupted, takes back what the file has decided.
THEOREM DecisionsStand == ASSUME Exclusive PROVE Spec => TerminalIsFinal
<1>1. SafetyInv /\ [Next]_vars => [Stands]_vars
  BY DecisionStep
<1> QED
  BY SafetyInit, SafetyStep, <1>1, PTL DEF Spec, TerminalIsFinal, Stands
=============================================================================
