-------------------------------- MODULE ExitProofs --------------------------------
(***************************************************************************)
(* Proofs that the exits of the two loops tell what the checkpoint file    *)
(* holds, for a task that processes recover one at a time and Saves that   *)
(* succeed, and that whatever is called delivered or completed is so in    *)
(* AO, with or without a lease.                                            *)
(***************************************************************************)
EXTENDS OutcomeProofs

\* The side effect is done only where the task is.
Plain(c) == c.sideEffect = "COMPLETED" => c.state = "COMPLETED"

\* A decision that a process returns with is in the file, or has been settled there.
Reported(c) ==
  /\ c.state \in Final => disk.state = c.state
  /\ c.state = "CANCEL_UNCONFIRMED" => disk.state \in Final \cup {"CANCEL_UNCONFIRMED"}

\* What holds of a process at label with c in memory.
Reports(label, c) ==
  /\ label \in {"loop", "acquire", "load"} => c = NoCp
  /\ c # NoCp => Plain(c)
  /\ label = "recover" => c.state \in OpenStates
  /\ label \in CancelPCs \ {"c_mark"} => disk.state = "CANCEL_UNCONFIRMED"
  /\ label \in {"release", "returned"} /\ c # NoCp => Reported(c)

ReportInv ==
  /\ SafetyInv
  /\ Plain(disk)
  /\ \A p \in Procs : Reports(pc[p], cp[p])

----------------------------------------------------------------------------
(* Updates.                                                                  *)

\* An update of a task that is not completed leaves the side effect open, unless it
\* completes the task.
LEMMA UpdatePlain ==
  ASSUME NEW c \in Checkpoints, Plain(c), c.state # "COMPLETED"
  PROVE  /\ Plain(Block(c)) /\ Plain(Cancelled(c)) /\ Plain(CancelUnconfirmed(c))
         /\ Plain(ReconcileLater(c)) /\ Plain(ScheduleSendRetry(c))
         /\ Plain(ScheduleReconciliation(c)) /\ Plain(WriteAheadOf(c))
         /\ Plain(CountAttempt(c)) /\ CountAttempt(c).state # "COMPLETED"
         /\ \A t : Plain(Delivered(c, t))
         /\ \A r : Plain(AcceptReceipt(c, r))
<1> USE DEF Checkpoints, Plain
<1>1. c.sideEffect = "PENDING"
  OBVIOUS
<1>2. CountAttempt(c) \in Checkpoints /\ CountAttempt(c).state = c.state
      /\ CountAttempt(c).sideEffect = "PENDING"
  BY <1>1, UpdateTypes DEF CountAttempt
<1>3. Block(c).sideEffect = "PENDING"
  BY <1>1 DEF Block
<1>4. Cancelled(c).sideEffect = "PENDING" /\ CancelUnconfirmed(c).sideEffect = "PENDING"
  BY <1>1 DEF Cancelled, CancelUnconfirmed
<1>5. /\ ReconcileLater(c).sideEffect = "PENDING" /\ ScheduleSendRetry(c).sideEffect = "PENDING"
      /\ ScheduleReconciliation(c).sideEffect = "PENDING"
  BY <1>1, <1>3 DEF ReconcileLater, ScheduleSendRetry, ScheduleReconciliation
<1>6. WriteAheadOf(c).sideEffect = "PENDING"
  BY <1>2 DEF WriteAheadOf
<1>7. \A t : Delivered(c, t).sideEffect = "PENDING"
  BY <1>1 DEF Delivered
<1>8. \A r : AcceptReceipt(c, r).state = "COMPLETED" \/ AcceptReceipt(c, r).sideEffect = "PENDING"
  BY <1>3 DEF AcceptReceipt
<1> QED
  BY <1>2, <1>3, <1>4, <1>5, <1>6, <1>7, <1>8

LEMMA ReplyPlain ==
  ASSUME NEW c \in Checkpoints, Plain(c), c.state # "COMPLETED"
  PROVE  /\ Plain(ObserveFailed(c))
         /\ \A r : Plain(AfterRecover(c, r))
         /\ \A reply, t : Plain(AfterSend(c, reply, t))
         /\ \A obs : Plain(SettleCancel(c, obs))
<1>1. /\ CountAttempt(c) \in Checkpoints /\ Plain(CountAttempt(c))
      /\ CountAttempt(c).state # "COMPLETED"
  BY UpdateTypes, UpdatePlain
<1>2. Plain(ObserveFailed(c))
  BY <1>1, UpdatePlain DEF ObserveFailed
<1>3. \A r : Plain(AfterRecover(c, r))
  BY <1>1, UpdatePlain DEF AfterRecover
<1>4. \A reply, t : Plain(AfterSend(c, reply, t))
  BY UpdatePlain DEF AfterSend
<1>5. \A obs : Plain(SettleCancel(c, obs))
  <2> SUFFICES ASSUME NEW obs PROVE Plain(SettleCancel(c, obs))
    OBVIOUS
  <2>1. c.sideEffect = "PENDING"
    BY DEF Checkpoints, Plain
  <2>2. /\ [c EXCEPT !.state = "CANCELLED"].sideEffect = "PENDING"
        /\ [c EXCEPT !.state = "BLOCKED"].sideEffect = "PENDING"
        /\ [c EXCEPT !.state = "CANCEL_UNCONFIRMED", !.sideEffect = "PENDING"].sideEffect
             = "PENDING"
    BY <2>1 DEF Checkpoints
  <2>3. Plain(AcceptReceipt(c, obs.receipt))
    BY UpdatePlain
  <2> QED
    BY <2>2, <2>3 DEF SettleCancel, Plain
<1> QED
  BY <1>2, <1>3, <1>4, <1>5

----------------------------------------------------------------------------
(* Steps.                                                                    *)

\* What the others return with is not taken back by a step of p.
LEMMA OthersReport ==
  ASSUME ReportInv, SafetyInv', Stands, NEW q \in Procs, pc'[q] = pc[q], cp'[q] = cp[q],
         pc[q] \notin CancelPCs \/ disk'.state = disk.state
  PROVE  Reports(pc[q], cp[q])'
<1>1. Reports(pc[q], cp[q])
  BY DEF ReportInv
<1>2. Reported(cp[q]) => Reported(cp[q])'
  BY DEF Reported, Stands, Final
<1> QED
  BY <1>1, <1>2 DEF Reports, Plain

LEMMA HolderReports ==
  ASSUME ReportInv, SafetyInv', Stands, NEW p \in Procs, pc[p] \in Holding,
         NEW label, NEW c, Proceed(p, label, c), Reports(label, c)', Plain(disk)'
  PROVE  ReportInv'
<1>1. pc'[p] = label /\ cp'[p] = c /\ \A q \in Procs \ {p} : pc'[q] = pc[q]
  BY Moved DEF ReportInv, SafetyInv
<1>2. \A q \in Procs \ {p} : cp'[q] = cp[q]
  BY DEF Proceed, Keep, ReportInv, SafetyInv, TypeInv, TypeOK
<1>3. ASSUME NEW q \in Procs, q # p PROVE Reports(pc[q], cp[q])'
  <2>1. pc[q] \notin CancelPCs
    BY <1>3, Exclusion DEF ReportInv, SafetyInv, Holding
  <2> QED
    BY <1>1, <1>2, <1>3, <2>1, OthersReport
<1>4. Reports(pc[p], cp[p])'
  BY <1>1 DEF Reports, Reported, Plain
<1> QED
  BY <1>3, <1>4 DEF ReportInv

\* p moves on to a point from which it does not return yet, and the file stays.
LEMMA QuietReports ==
  ASSUME ReportInv, SafetyInv', Stands, NEW p \in Procs, pc[p] \in Holding,
         NEW label, NEW c, Proceed(p, label, c), Reports(label, c), disk' = disk
  PROVE  ReportInv'
<1>1. Reports(label, c)' /\ Plain(disk)'
  BY DEF Reports, Reported, ReportInv, Plain
<1> QED
  BY <1>1, HolderReports

LEMMA LoadReports ==
  ASSUME ReportInv, SafetyInv', Stands, NEW p \in Procs, Load(p) \/ CancelLoad(p)
  PROVE  ReportInv'
<1>1. /\ disk \in Checkpoints /\ Plain(disk) /\ disk' = disk
      /\ pc[p] = "load" /\ pc[p] \in Holding /\ cp[p] = NoCp
  BY DEF ReportInv, Reports, SafetyInv, TypeInv, TypeOK, Load, CancelLoad, At, Holding
<1>2. \E label, c : Proceed(p, label, c) /\ Reports(label, c)
  <2>1. CASE Leave(p)
    <3>1. Reports("release", NoCp)
      BY DEF Reports, CancelPCs
    <3> QED
      BY <1>1, <2>1, <3>1 DEF Leave
  <2>2. CASE ~Leave(p) /\ Load(p)
    <3>1. Reports("save", disk) /\ Reports("artifact", disk) /\ Reports("release", disk)
      BY <1>1 DEF Reports, Reported, CancelPCs, Final
    <3> QED
      BY <2>2, <3>1 DEF Load, Finish
  <2>3. CASE ~Leave(p) /\ CancelLoad(p)
    <3>1. Reports("release", disk)
      BY <1>1 DEF Reports, Reported, CancelPCs, Final
    <3>2. disk.state # "COMPLETED" =>
            Reports("save", Cancelled(disk)) /\ Reports("c_mark", CancelUnconfirmed(disk))
      BY <1>1, UpdatePlain DEF Reports, CancelPCs
    <3> QED
      BY <2>3, <3>1, <3>2 DEF CancelLoad, Finish, BeforeSend
  <2> QED
    BY <2>1, <2>2, <2>3
<1> QED
  BY <1>1, <1>2, QuietReports

LEMMA SaveReports ==
  ASSUME "save" \notin FaultKinds,
         ReportInv, SafetyInv', Stands, NEW p \in Procs, Save(p) \/ WriteAhead(p) \/ CancelSave(p)
  PROVE  ReportInv'
<1>1. /\ pc[p] \in {"save", "writeahead", "c_mark", "c_saveTurn"}
      /\ pc[p] \in Holding /\ pc[p] \in Working
  BY DEF Save, WriteAhead, CancelSave, At, Working, Holding, StepPCs, CancelPCs
<1>2. cp[p] \in Checkpoints /\ cp[p] # NoCp /\ Plain(cp[p])
  BY <1>1, WorkingCheckpoint, NoCpAssumption DEF ReportInv, SafetyInv, Reports
<1>3. disk' = cp[p]
  BY DEF Save, WriteAhead, CancelSave, Saved, SaveFailed, Fault, CanFault
<1>4. pc[p] \in CancelPCs => cp[p].state = "CANCEL_UNCONFIRMED"
  BY DEF ReportInv, SafetyInv, IInv, Fits
<1>5. PICK label, c : /\ c = cp[p] /\ Proceed(p, label, c)
                      /\ \/ label \in {"release", "send"}
                         \/ pc[p] \in CancelPCs /\ label \in {"c_recover", "c_observe"}
  BY DEF Save, WriteAhead, CancelSave, Saved, SaveFailed, Leave, Fault, CanFault, CancelPCs
<1>6. Reports(label, c)' /\ Plain(disk)'
  BY <1>2, <1>3, <1>4, <1>5 DEF Reports, Reported, Plain, CancelPCs, Final
<1> QED
  BY <1>1, <1>5, <1>6, HolderReports

LEMMA StepReports ==
  ASSUME ReportInv, SafetyInv', Stands, NEW p \in Procs,
         Artifact(p) \/ Observe(p) \/ Recover(p) \/ Preflight(p) \/ Send(p)
  PROVE  ReportInv'
<1> DEFINE c == cp[p]
<1>1. pc[p] \in Holding /\ pc[p] \in Working /\ disk' = disk
  BY DEF Artifact, Observe, Recover, Preflight, Send, At, Holding, Working, StepPCs
<1>2. c \in Checkpoints /\ c # NoCp /\ Fits(pc[p], c) /\ Reports(pc[p], c)
  BY <1>1, WorkingCheckpoint, NoCpAssumption DEF ReportInv, SafetyInv, IInv
<1>3. c.state \in OpenStates
  BY <1>1, <1>2
  DEF Artifact, Observe, Recover, Preflight, Send, At, Fits, Reports, OpenStates, BeforeSend
<1>4. Plain(c) /\ c.state # "COMPLETED"
  BY <1>2, <1>3 DEF Reports, OpenStates
<1>5. ASSUME NEW d, Plain(d) PROVE Reports("save", d)
  BY <1>5 DEF Reports, CancelPCs
<1>6. /\ Reports("save", Block(c)) /\ Reports("save", Cancelled(c))
      /\ Reports("save", ObserveFailed(c))
      /\ \A r : Reports("save", AfterRecover(c, r)) /\ Reports("save", AcceptReceipt(c, r))
      /\ \A t : Reports("save", Delivered(c, t))
      /\ \A reply, t : Reports("save", AfterSend(c, reply, t))
  BY <1>2, <1>4, <1>5, UpdatePlain, ReplyPlain
<1>7. /\ Reports("observe", c) /\ Reports("recover", c) /\ Reports("preflight", c)
      /\ Reports("writeahead", WriteAheadOf(c))
  BY <1>2, <1>3, <1>4, UpdatePlain DEF Reports, CancelPCs
<1>8. Reports("release", c)
  BY <1>3, <1>4 DEF Reports, Reported, CancelPCs, OpenStates, Final
<1>9. \E label, d : Proceed(p, label, d) /\ Reports(label, d)
  <2>1. CASE Artifact(p)
    BY <1>6, <1>7, <2>1 DEF Artifact, Finish
  <2>2. CASE Observe(p)
    <3>1. ASSUME NEW obs, Dispatch(p, obs)
          PROVE  \E label, d : Proceed(p, label, d) /\ Reports(label, d)
      BY <1>6, <1>7, <1>8, <3>1 DEF Dispatch, Finish, Leave
    <3> QED
      BY <1>6, <1>7, <2>2, <3>1 DEF Observe, Finish
  <2>3. CASE Recover(p)
    BY <1>6, <2>3 DEF Recover, Finish
  <2>4. CASE Preflight(p)
    BY <1>6, <1>7, <2>4 DEF Preflight, Finish
  <2>5. CASE Send(p)
    BY <1>6, <2>5 DEF Send, Finish
  <2> QED
    BY <2>1, <2>2, <2>3, <2>4, <2>5
<1> QED
  BY <1>1, <1>9, QuietReports

LEMMA CancelReports ==
  ASSUME ReportInv, SafetyInv', Stands, NEW p \in Procs,
         CancelRecover(p) \/ CancelObserve(p) \/ CancelCheck(p) \/ CancelInterrupt(p)
  PROVE  ReportInv'
<1> DEFINE c == cp[p]
<1>1. /\ pc[p] \in Holding /\ pc[p] \in Working /\ pc[p] \in CancelPCs \ {"c_mark"}
      /\ disk' = disk
  BY DEF CancelRecover, CancelObserve, CancelCheck, CancelInterrupt, At, Holding, Working, CancelPCs
<1>2. /\ c \in Checkpoints /\ c # NoCp /\ c.state = "CANCEL_UNCONFIRMED" /\ Plain(c)
      /\ disk.state = "CANCEL_UNCONFIRMED"
  BY <1>1, WorkingCheckpoint, NoCpAssumption DEF ReportInv, Reports, SafetyInv, IInv, Fits
<1>3. ASSUME NEW d, Plain(d),
             NEW label \in {"save", "c_saveTurn", "c_check", "c_interrupt", "c_confirm"}
      PROVE  Reports(label, d)
  BY <1>2, <1>3 DEF Reports, CancelPCs
<1>4. /\ \A obs : Reports("save", SettleCancel(c, obs))
      /\ \A t : Reports("c_saveTurn", [c EXCEPT !.turn = t])
      /\ Reports("c_check", c) /\ Reports("c_interrupt", c) /\ Reports("c_confirm", c)
  <2>1. \A t : Plain([c EXCEPT !.turn = t])
    BY <1>2 DEF Plain, Checkpoints
  <2>2. \A obs : Plain(SettleCancel(c, obs))
    BY <1>2, ReplyPlain
  <2> QED
    BY <1>2, <1>3, <2>1, <2>2
<1>5. Reports("release", c)
  BY <1>2 DEF Reports, Reported, CancelPCs, Final
<1>6. \E label, d : Proceed(p, label, d) /\ Reports(label, d)
  BY <1>4, <1>5 DEF CancelRecover, CancelObserve, CancelCheck, CancelInterrupt, Finish, Leave
<1> QED
  BY <1>1, <1>6, QuietReports

\* Outside the lease, and what happens to processes and to AO.
LEMMA OtherReports ==
  ASSUME ReportInv, SafetyInv', Stands,
         \/ \E p \in Procs : \/ Start(p) \/ Loop(p) \/ Return(p) \/ Acquire(p) \/ Release(p)
                             \/ Crash(p) \/ ContextDone(p)
         \/ RemoveStaleLease \/ DeadlinePasses \/ AOStep \/ UNCHANGED vars
  PROVE  ReportInv'
<1>1. /\ disk \in Checkpoints /\ disk'.state = disk.state /\ disk'.sideEffect = disk.sideEffect
  BY DEF Start, Loop, Return, Acquire, Release, Crash, ContextDone, RemoveStaleLease,
         DeadlinePasses, AOStep, vars, ReportInv, SafetyInv, TypeInv, TypeOK, Checkpoints
<1>2. ASSUME NEW q \in Procs
      PROVE  \/ pc'[q] = pc[q] /\ cp'[q] = cp[q]
             \/ cp'[q] = NoCp /\ pc'[q] \in Down \cup {"loop", "acquire"}
             \/ cp'[q] = cp[q] /\ pc[q] = "acquire" /\ pc'[q] \in {"load", "returned"}
             \/ cp'[q] = cp[q] /\ pc[q] = "release" /\ pc'[q] = "returned"
  <2>1. CASE \E p \in Procs : Start(p) \/ Loop(p) \/ Return(p) \/ Crash(p)
    <3>1. PICK p \in Procs, label \in Down \cup {"loop", "acquire"} : Proceed(p, label, NoCp)
      BY <2>1 DEF Start, Loop, Return, Crash, ExitCode, RunnerResult, Down
    <3> QED
      BY <3>1 DEF Proceed, Go, Keep, ReportInv, SafetyInv, TypeInv, TypeOK
  <2>2. CASE \E p \in Procs : Acquire(p) \/ Release(p)
    BY <2>2 DEF Acquire, Release, At, Go, ReportInv, SafetyInv, TypeInv, TypeOK
  <2>3. CASE \/ \E p \in Procs : ContextDone(p)
             \/ RemoveStaleLease \/ DeadlinePasses \/ AOStep \/ UNCHANGED vars
    BY <2>3 DEF ContextDone, RemoveStaleLease, DeadlinePasses, AOStep, vars, procVars
  <2> QED
    BY <2>1, <2>2, <2>3
<1>3. ASSUME NEW q \in Procs PROVE Reports(pc[q], cp[q])'
  <2>1. Reports(pc[q], cp[q])
    BY DEF ReportInv
  <2>2. CASE pc'[q] = pc[q] /\ cp'[q] = cp[q]
    BY <1>1, <2>2, OthersReport
  <2>3. CASE cp'[q] = NoCp /\ pc'[q] \in Down \cup {"loop", "acquire"}
    BY <2>3 DEF Reports, Down, CancelPCs
  <2>4. CASE cp'[q] = cp[q] /\ pc[q] = "acquire" /\ pc'[q] \in {"load", "returned"}
    BY <2>1, <2>4 DEF Reports, CancelPCs
  <2>5. CASE cp'[q] = cp[q] /\ pc[q] = "release" /\ pc'[q] = "returned"
    BY <1>1, <2>1, <2>5 DEF Reports, Reported, Plain, CancelPCs
  <2> QED
    BY <1>2, <2>2, <2>3, <2>4, <2>5
<1> QED
  BY <1>1, <1>3 DEF ReportInv, Plain

LEMMA ReportStep ==
  ASSUME Exclusive, "save" \notin FaultKinds, ReportInv, [Next]_vars
  PROVE  ReportInv'
<1>1. SafetyInv' /\ Stands
  BY SafetyStep, DecisionStep DEF ReportInv
<1>2. ASSUME NEW p \in Procs, ProcStep(p) PROVE ReportInv'
  <2>1. CASE Start(p) \/ Loop(p) \/ Return(p) \/ Acquire(p) \/ Release(p)
    BY <1>1, <2>1, OtherReports
  <2>2. CASE Load(p) \/ CancelLoad(p)
    BY <1>1, <2>2, LoadReports
  <2>3. CASE Save(p) \/ WriteAhead(p) \/ CancelSave(p)
    BY <1>1, <2>3, SaveReports
  <2>4. CASE Artifact(p) \/ Observe(p) \/ Recover(p) \/ Preflight(p) \/ Send(p)
    BY <1>1, <2>4, StepReports
  <2>5. CASE CancelRecover(p) \/ CancelObserve(p) \/ CancelCheck(p) \/ CancelInterrupt(p)
    BY <1>1, <2>5, CancelReports
  <2> QED
    BY <1>2, <2>1, <2>2, <2>3, <2>4, <2>5 DEF ProcStep, RunStep, CancelStep
<1>3. CASE \/ \E p \in Procs : Crash(p) \/ ContextDone(p)
           \/ RemoveStaleLease \/ DeadlinePasses \/ AOStep \/ UNCHANGED vars
  BY <1>1, <1>3, OtherReports
<1> QED
  BY <1>2, <1>3 DEF Next

LEMMA ReportInit == Init => ReportInv
<1> SUFFICES ASSUME Init PROVE ReportInv
  OBVIOUS
<1>1. Plain(disk)
  BY DEF Init, NewTask, Plain
<1>2. \A p \in Procs : Reports(pc[p], cp[p])
  BY DEF Init, Reports, CancelPCs
<1> QED
  BY <1>1, <1>2, SafetyInit DEF ReportInv

\* Only Return leads to an exit of a loop.
LEMMA ExitsWithCheckpoint ==
  ASSUME TypeInv, [Next]_vars, NEW p \in Procs, pc[p] = "returned",
         pc'[p] \in {"exit0", "exit2", "done"}
  PROVE  /\ cp[p] \in Checkpoints /\ Terminal(cp[p])
         /\ pc'[p] = "exit0" =>
              cp[p].state \notin {"BLOCKED", "CANCELLED", "CANCEL_UNCONFIRMED"}
<1>1. pc \in [Procs -> PCs] /\ cp[p] \in Checkpoints \cup {NoCp}
  BY DEF TypeInv, TypeOK
<1>2. Return(p)
  <2>1. PICK q \in Procs : ProcStep(q) \/ Crash(q)
    BY DEF Next, ContextDone, RemoveStaleLease, DeadlinePasses, AOStep, vars, procVars
  <2>2. Crash(q) \/ q # p => FALSE
    BY <1>1, <2>1
    DEF Crash, ProcStep, RunStep, CancelStep, Start, Loop, Return, Acquire, Release, Load, Save,
        Artifact, Observe, Dispatch, Recover, Preflight, WriteAhead, Send, CancelLoad, CancelSave,
        CancelRecover, CancelObserve, CancelCheck, CancelInterrupt, Finish, Leave, Proceed, Go
  <2> QED
    BY <2>1, <2>2
    DEF ProcStep, RunStep, CancelStep, Start, Loop, Acquire, Release, Load, Save, Artifact,
        Observe, Recover, Preflight, WriteAhead, Send, CancelLoad, CancelSave, CancelRecover,
        CancelObserve, CancelCheck, CancelInterrupt, At, Down
<1>3. /\ cp[p] \in Checkpoints /\ Terminal(cp[p])
      /\ pc'[p] = "exit0" => cp[p].state \notin {"BLOCKED", "CANCELLED", "CANCEL_UNCONFIRMED"}
  <2> DEFINE again == p \notin ctxDone /\ cp[p] # NoCp /\ ~Terminal(cp[p])
             label == IF op[p] = "cancel" THEN "down"
                      ELSE IF again THEN "loop"
                      ELSE IF op[p] = "runner" THEN RunnerResult(p)
                      ELSE ExitCode(p)
  <2>1. pc'[p] = label
    BY <1>1, <1>2 DEF Return, Proceed, Go
  <2>2. ~again /\ label \in {RunnerResult(p), ExitCode(p)}
    BY <2>1
  <2>3. CASE label = RunnerResult(p)
    <3>1. RunnerResult(p) \in {"done", "down"}
      BY DEF RunnerResult
    <3>2. RunnerResult(p) = "done"
      BY <2>1, <2>3, <3>1
    <3>3. cp[p] # NoCp /\ Terminal(cp[p])
      BY <3>2 DEF RunnerResult
    <3> QED
      BY <1>1, <2>1, <2>3, <3>2, <3>3
  <2>4. CASE label = ExitCode(p)
    <3>1. ExitCode(p) \in {"exit0", "exit2"}
      BY <2>1, <2>4 DEF ExitCode
    <3>2. /\ p \notin ctxDone /\ cp[p] # NoCp
          /\ ExitCode(p) = "exit0" =>
               cp[p].state \notin {"BLOCKED", "CANCELLED", "CANCEL_UNCONFIRMED"}
      BY <3>1 DEF ExitCode
    <3> QED
      BY <1>1, <2>1, <2>2, <2>4, <3>2
  <2> QED
    BY <2>2, <2>3, <2>4
<1> QED
  BY <1>3

LEMMA ExitsAreTrue ==
  ASSUME ReportInv, [Next]_vars, NEW p \in Procs, pc[p] = "returned",
         pc'[p] \in {"exit0", "exit2", "done"}
  PROVE  /\ pc'[p] = "exit0" => disk.state = "COMPLETED"
         /\ pc'[p] = "exit2" =>
              disk.state \in {"BLOCKED", "CANCELLED", "CANCEL_UNCONFIRMED", "COMPLETED"}
         /\ pc'[p] = "done" => Terminal(disk)
<1>1. /\ cp[p] \in Checkpoints /\ Terminal(cp[p])
      /\ pc'[p] = "exit0" => cp[p].state \notin {"BLOCKED", "CANCELLED", "CANCEL_UNCONFIRMED"}
  BY ExitsWithCheckpoint DEF ReportInv, SafetyInv
<1>2. Plain(cp[p]) /\ Reported(cp[p])
  BY <1>1, NoCpAssumption DEF ReportInv, Reports
<1>3. /\ cp[p].state \in Final \cup {"CANCEL_UNCONFIRMED"}
      /\ pc'[p] = "exit0" => cp[p].state = "COMPLETED"
  BY <1>1, <1>2 DEF Terminal, Plain, Final
<1>4. /\ disk.state \in Final \cup {"CANCEL_UNCONFIRMED"}
      /\ pc'[p] = "exit0" => disk.state = "COMPLETED"
  BY <1>2, <1>3 DEF Reported, Final
<1> QED
  BY <1>4 DEF Terminal, Final

\* ExitsTellTheFile: with Saves that succeed, exit codes 0 and 2, and a Runner that returns
\* without an error, are right about the file, although other processes have worked on it
\* since the lease was released.
THEOREM ExitsAreReports ==
  ASSUME Exclusive, "save" \notin FaultKinds
  PROVE  Spec => ExitsTellTheFile
<1> DEFINE A == \A p \in Procs :
       /\ Exits(p, "exit0") => disk.state = "COMPLETED"
       /\ Exits(p, "exit2") =>
            disk.state \in {"BLOCKED", "CANCELLED", "CANCEL_UNCONFIRMED", "COMPLETED"}
       /\ Exits(p, "done") => Terminal(disk)
<1>1. ReportInv /\ [Next]_vars => [A]_vars
  BY ExitsAreTrue DEF Exits
<1> QED
  BY ReportInit, ReportStep, <1>1, PTL DEF Spec, ExitsTellTheFile

----------------------------------------------------------------------------
(* What is said of AO.  A process adds to a checkpoint only what AO told it   *)
(* of its own request, and AO takes none of it back, so that no exclusion is  *)
(* needed for any of this.                                                    *)

\* What checkpoint c says of a turn and of its result is so.
Honest(c) ==
  /\ Plain(c)
  /\ c.turn # NoTurn => HasTurn(c.turn)
  /\ Contract # "any" /\ c.state = "DELIVERED" => c.turn # NoTurn
  /\ c.state = "COMPLETED" => c.turn # NoTurn /\ posts[c.turn] = "good"

HonestInv ==
  /\ TypeInv
  /\ Honest(disk)
  /\ \A p \in Procs : cp[p] # NoCp => Honest(cp[p])
  /\ \A p \in Procs : pc[p] \in StepPCs \cup CancelPCs => cp[p].state # "COMPLETED"

\* A turn that AO has made, and a result that it has, stay.
ResultsStay ==
  \A t \in Turns : /\ HasTurn(t) => HasTurn(t)'
                   /\ posts[t] = "good" => posts'[t] = "good"

LEMMA ResultsAreKept == ASSUME TypeInv, [Next]_vars PROVE ResultsStay
<1>1. posts \in [Turns -> PostStates]
  BY DEF TypeInv, TypeOK, AOTypeOK
<1>2. CASE posts' = posts
  BY <1>2 DEF ResultsStay, HasTurn
<1>3. CASE \E p \in Procs : Send(p)
  BY <1>1, <1>3 DEF Send, ResultsStay, HasTurn, TurnStates, Ended
<1>4. CASE \E p \in Procs : CancelInterrupt(p)
  BY <1>1, <1>4 DEF CancelInterrupt, Interrupted, ResultsStay, HasTurn, TurnStates, Ended
<1>5. CASE AOStep
  BY <1>1, <1>5
  DEF AOStep, AONext, LateAccept, LateLoss, TurnEnds, TurnTurnsOdd, SessionLost, ForeignStarts,
      ForeignEnds, ResultsStay, HasTurn, TurnStates, Ended, AcceptedAs
<1>6. posts' = posts \/ AOStep \/ \E p \in Procs : Send(p) \/ CancelInterrupt(p)
  BY DEF Next, ProcStep, RunStep, CancelStep, Start, Loop, Return, Acquire, Release, Load, Save,
         Artifact, Observe, Recover, Preflight, WriteAhead, CancelLoad, CancelSave, CancelRecover,
         CancelObserve, CancelCheck, Crash, ContextDone, RemoveStaleLease, DeadlinePasses, vars,
         aoVars
<1> QED
  BY <1>2, <1>3, <1>4, <1>5, <1>6

LEMMA HonestStays ==
  ASSUME NEW c \in Checkpoints, Honest(c), ResultsStay
  PROVE  Honest(c)'
BY DEF Honest, Plain, ResultsStay, Checkpoints

\* An update that says nothing new of AO.
LEMMA HonestUpdate ==
  ASSUME NEW c \in Checkpoints, Honest(c), c.state # "COMPLETED", NEW d,
         Plain(d), d.turn = c.turn, d.state \notin {"DELIVERED", "COMPLETED"} \ {c.state}
  PROVE  Honest(d)
BY DEF Honest

LEMMA HonestUpdates ==
  ASSUME NEW c \in Checkpoints, Honest(c), c.state # "COMPLETED"
  PROVE  /\ Honest(Block(c)) /\ Honest(Cancelled(c)) /\ Honest(CancelUnconfirmed(c))
         /\ Honest(ReconcileLater(c)) /\ Honest(ScheduleSendRetry(c))
         /\ Honest(WriteAheadOf(c)) /\ Honest(ObserveFailed(c))
         /\ Honest(ReconcileLater(CountAttempt(c)))
<1> DEFINE n == CountAttempt(c)
<1>1. /\ n \in Checkpoints /\ n.turn = c.turn /\ n.state = c.state /\ Plain(n)
      /\ Plain(c)
  BY UpdateTypes, UpdateTurns, UpdateStates, UpdatePlain DEF Honest
<1>2. Honest(n)
  BY <1>1, HonestUpdate
<1>3. ASSUME NEW d \in Checkpoints, Honest(d), d.state # "COMPLETED"
      PROVE  /\ Honest(Block(d)) /\ Honest(Cancelled(d)) /\ Honest(CancelUnconfirmed(d))
             /\ Honest(ReconcileLater(d)) /\ Honest(ScheduleSendRetry(d))
             /\ Honest(ScheduleReconciliation(d)) /\ Honest(WriteAheadOf(d))
  <2>1. Plain(d)
    BY <1>3 DEF Honest
  <2> QED
    BY <1>3, <2>1, UpdateTurns, UpdateStates, UpdatePlain, HonestUpdate
<1>4. Honest(ObserveFailed(c))
  BY <1>1, <1>2, <1>3 DEF ObserveFailed
<1> QED
  BY <1>1, <1>2, <1>3, <1>4

\* A receipt completes the task only if it is that of the turn in the checkpoint.
LEMMA HonestAccept ==
  ASSUME NEW c \in Checkpoints, Honest(c), c.state # "COMPLETED", NEW r,
         r = "verified" => c.turn # NoTurn /\ posts[c.turn] = "good"
  PROVE  Honest(AcceptReceipt(c, r))
<1>1. /\ AcceptReceipt(c, r).turn = c.turn /\ Plain(AcceptReceipt(c, r))
      /\ AcceptReceipt(c, r).state \in {"COMPLETED", "BLOCKED"}
  BY UpdateTurns, UpdateStates, UpdatePlain DEF Honest
<1>2. CASE r = "verified"
  BY <1>1, <1>2 DEF Honest
<1>3. CASE r # "verified"
  BY <1>3, HonestUpdates DEF AcceptReceipt
<1> QED
  BY <1>2, <1>3

\* A result that is reported with an observation is that of the turn asked for.
LEMMA ObserveIsOfTurn ==
  ASSUME NEW p \in Procs, NEW turn \in Turns \cup {NoTurn}, turn # NoTurn => HasTurn(turn),
         NEW obs \in Answers(p, ObserveReplies(turn), ObsError)
  PROVE  /\ obs.delivery = "ACCEPTED" => turn # NoTurn
         /\ obs.receipt = "verified" => turn # NoTurn /\ posts[turn] = "good"
<1>1. CASE obs \in {ObsError, Obs("NO_SESSION", "none")}
  BY <1>1 DEF ObsError, Obs
<1>2. CASE obs \in ContractObs
  BY <1>2 DEF ContractObs, Obs
<1>3. CASE turn = NoTurn /\ obs = Obs("NOT_FOUND", "none")
  BY <1>3 DEF Obs
<1>4. CASE turn # NoTurn /\ obs = ObsOfTurn(posts[turn])
  BY <1>4 DEF ObsOfTurn, Obs, HasTurn, TurnStates, Ended
<1> QED
  BY <1>1, <1>2, <1>3, <1>4 DEF Answers, ObserveReplies, NetworkError

LEMMA RecoverIsOfTurn ==
  ASSUME NEW p \in Procs, NEW r \in Answers(p, RecoverReplies, RecoverError), r.turn # NoTurn
  PROVE  r.turn \in Turns /\ HasTurn(r.turn)
BY DEF Answers, RecoverReplies, NetworkError, RecoverError, FoundByRecover, Receipt

\* A step of p leaves the file alone, or saves the checkpoint that p has.
SavesOwn(p) ==
  \/ disk' = disk
  \/ cp[p] # NoCp /\ disk' = cp[p]

\* p moves on with a checkpoint that is honest, and saves at most the one it had.
LEMMA HonestMove ==
  ASSUME HonestInv, TypeInv', ResultsStay, NEW p \in Procs, NEW label, NEW c,
         Proceed(p, label, c), c # NoCp => Honest(c)',
         label \in StepPCs \cup CancelPCs => c.state # "COMPLETED",
         SavesOwn(p)
  PROVE  HonestInv'
<1>1. pc'[p] = label /\ cp'[p] = c /\ \A q \in Procs \ {p} : pc'[q] = pc[q]
  BY Moved DEF HonestInv
<1>2. \A q \in Procs \ {p} : cp'[q] = cp[q]
  BY DEF Proceed, Keep, HonestInv, TypeInv, TypeOK
<1>3. Honest(disk)'
  <2>1. disk' \in Checkpoints /\ Honest(disk')
    BY DEF SavesOwn, HonestInv, TypeInv, TypeOK
  <2> QED
    BY <2>1 DEF Honest, Plain, ResultsStay, Checkpoints
<1>4. ASSUME NEW q \in Procs, cp'[q] # NoCp PROVE Honest(cp[q])'
  <2>1. CASE q = p
    BY <1>1, <1>4, <2>1 DEF Honest, Plain, HasTurn
  <2>2. CASE q # p
    <3>1. cp'[q] = cp[q] /\ cp[q] \in Checkpoints /\ Honest(cp[q])
      BY <1>2, <1>4, <2>2 DEF HonestInv, TypeInv, TypeOK
    <3> QED
      BY <3>1 DEF Honest, Plain, ResultsStay, Checkpoints
  <2> QED
    BY <2>1, <2>2
<1> QED
  BY <1>1, <1>2, <1>3, <1>4 DEF HonestInv

\* p may move on to label with c in memory, on what AO has told it so far.
Sayable(label, c) ==
  /\ c # NoCp => Honest(c)
  /\ label \in StepPCs \cup CancelPCs => c.state # "COMPLETED"

LEMMA HonestStep ==
  ASSUME HonestInv, TypeInv', ResultsStay, NEW p \in Procs, NEW label, NEW c,
         Proceed(p, label, c), Sayable(label, c),
         SavesOwn(p)
  PROVE  HonestInv'
<1>1. cp'[p] = c /\ cp'[p] \in Checkpoints \cup {NoCp}
  BY Moved DEF HonestInv, TypeInv, TypeOK
<1>2. c # NoCp => Honest(c)'
  BY <1>1, HonestStays DEF Sayable
<1> QED
  BY <1>2, HonestMove DEF Sayable

\* What a process knows while it works on a checkpoint.
LEMMA WorksHonestly ==
  ASSUME HonestInv, NEW p \in Procs, pc[p] \in Working
  PROVE  /\ cp[p] \in Checkpoints /\ cp[p] # NoCp /\ Honest(cp[p])
         /\ cp[p].turn \in Turns \cup {NoTurn}
         /\ cp[p].turn # NoTurn => HasTurn(cp[p].turn)
BY WorkingCheckpoint, NoCpAssumption DEF HonestInv, Honest, Checkpoints

LEMMA LoadHonest ==
  ASSUME HonestInv, NEW p \in Procs, Load(p) \/ CancelLoad(p)
  PROVE  \E label, c : Proceed(p, label, c) /\ Sayable(label, c)
<1>1. disk \in Checkpoints /\ Honest(disk) /\ (cp[p] # NoCp => Honest(cp[p]))
  BY DEF HonestInv, TypeInv, TypeOK
<1>2. CASE Leave(p)
  BY <1>1, <1>2 DEF Leave, Sayable, StepPCs, CancelPCs
<1>3. CASE ~Leave(p) /\ Load(p)
  <2>1. Sayable("save", disk) /\ Sayable("release", disk)
    BY <1>1 DEF Sayable, StepPCs, CancelPCs
  <2>2. ~Terminal(disk) => Sayable("artifact", disk)
    BY <1>1 DEF Sayable, Terminal
  <2> QED
    BY <1>3, <2>1, <2>2 DEF Load, Finish
<1>4. CASE ~Leave(p) /\ CancelLoad(p)
  <2>1. Sayable("release", disk)
    BY <1>1 DEF Sayable, StepPCs, CancelPCs
  <2>2. disk.state # "COMPLETED" =>
          Sayable("save", Cancelled(disk)) /\ Sayable("c_mark", CancelUnconfirmed(disk))
    BY <1>1, HonestUpdates, UpdateStates DEF Sayable, StepPCs, CancelPCs
  <2> QED
    BY <1>4, <2>1, <2>2 DEF CancelLoad, Finish, BeforeSend
<1> QED
  BY <1>2, <1>3, <1>4

LEMMA StepHonest ==
  ASSUME HonestInv, NEW p \in Procs, Artifact(p) \/ Observe(p) \/ Recover(p) \/ Preflight(p)
  PROVE  \E label, c : Proceed(p, label, c) /\ Sayable(label, c)
<1> DEFINE c == cp[p]
<1>1. pc[p] \in Working /\ pc[p] \in StepPCs
  BY DEF Artifact, Observe, Recover, Preflight, At, Working, Holding, StepPCs
<1>2. /\ c \in Checkpoints /\ c # NoCp /\ Honest(c) /\ c.state # "COMPLETED" /\ Plain(c)
      /\ c.turn \in Turns \cup {NoTurn} /\ (c.turn # NoTurn => HasTurn(c.turn))
  BY <1>1, WorksHonestly DEF HonestInv, Honest
<1>3. ASSUME NEW d, Honest(d) PROVE Sayable("save", d) /\ Sayable("release", d)
  BY <1>3 DEF Sayable, StepPCs, CancelPCs
<1>4. /\ Sayable("save", Block(c)) /\ Sayable("save", Cancelled(c))
      /\ Sayable("save", ObserveFailed(c)) /\ Sayable("release", c)
      /\ Sayable("save", ReconcileLater(CountAttempt(c)))
  BY <1>2, <1>3, HonestUpdates
<1>5. /\ Sayable("observe", c) /\ Sayable("recover", c) /\ Sayable("preflight", c)
      /\ Sayable("writeahead", WriteAheadOf(c))
  BY <1>2, HonestUpdates, UpdateStates DEF Sayable
<1>6. ASSUME NEW t \in Turns \cup {NoTurn}, t # NoTurn => HasTurn(t),
             Contract = "any" \/ t # NoTurn
      PROVE  Sayable("save", Delivered(c, t))
  <2>1. /\ Delivered(c, t).state = "DELIVERED" /\ Delivered(c, t).turn = t
        /\ Plain(Delivered(c, t))
    BY <1>2, UpdateStates, UpdateTurns, UpdatePlain
  <2>2. Honest(Delivered(c, t))
    BY <1>6, <2>1 DEF Honest
  <2> QED
    BY <1>3, <2>2
<1>7. CASE Artifact(p)
  BY <1>4, <1>5, <1>7 DEF Artifact, Finish
<1>8. CASE Observe(p)
  <2>1. PICK obs \in Answers(p, ObserveReplies(c.turn), ObsError) :
          \/ Finish(p, ObserveFailed(c)) \/ Finish(p, Block(c)) \/ Finish(p, Cancelled(c))
          \/ Proceed(p, "recover", c) \/ Dispatch(p, obs)
    BY <1>8 DEF Observe
  <2>2. /\ obs.delivery = "ACCEPTED" => c.turn # NoTurn
        /\ obs.receipt = "verified" => c.turn # NoTurn /\ posts[c.turn] = "good"
    BY <1>2, ObserveIsOfTurn
  <2>3. Sayable("save", AcceptReceipt(c, obs.receipt))
    BY <1>2, <1>3, <1>4, <2>2, HonestAccept
  <2>4. obs.delivery = "ACCEPTED" => Sayable("save", Delivered(c, c.turn))
    BY <1>2, <1>6, <2>2
  <2>5. CASE Dispatch(p, obs)
    BY <1>4, <1>5, <2>3, <2>4, <2>5 DEF Dispatch, Finish, Leave
  <2> QED
    BY <1>4, <1>5, <2>1, <2>5 DEF Finish
<1>9. CASE Recover(p)
  <2>1. PICK r \in Answers(p, RecoverReplies, RecoverError) : Finish(p, AfterRecover(c, r))
    BY <1>9 DEF Recover
  <2>2. r.turn \in Turns \cup {NoTurn} /\ (r.turn # NoTurn => HasTurn(r.turn))
    BY RecoverReplyTypes, RecoverIsOfTurn
  <2>3. CASE r.outcome = "sent" /\ r.state \in {"ACCEPTED", "COMPLETED"}
    <3>1. Contract = "any" \/ r.turn # NoTurn
      BY <2>3, RecoverTells, NoTurnAssumption
    <3> QED
      BY <1>6, <2>1, <2>2, <2>3, <3>1 DEF AfterRecover, Finish
  <2>4. CASE ~(r.outcome = "sent" /\ r.state \in {"ACCEPTED", "COMPLETED"})
    BY <1>4, <2>1, <2>4 DEF AfterRecover, Finish
  <2> QED
    BY <2>3, <2>4
<1>10. CASE Preflight(p)
  BY <1>4, <1>5, <1>10 DEF Preflight, Finish
<1> QED
  BY <1>7, <1>8, <1>9, <1>10

LEMMA CancelHonest ==
  ASSUME HonestInv, NEW p \in Procs,
         CancelRecover(p) \/ CancelObserve(p) \/ CancelCheck(p) \/ CancelInterrupt(p)
  PROVE  \E label, c : Proceed(p, label, c) /\ Sayable(label, c)
<1> DEFINE c == cp[p]
<1>1. pc[p] \in Working /\ pc[p] \in CancelPCs
  BY DEF CancelRecover, CancelObserve, CancelCheck, CancelInterrupt, At, Working, Holding, CancelPCs
<1>2. /\ c \in Checkpoints /\ c # NoCp /\ Honest(c) /\ c.state # "COMPLETED" /\ Plain(c)
      /\ c.turn \in Turns \cup {NoTurn} /\ (c.turn # NoTurn => HasTurn(c.turn))
  BY <1>1, WorksHonestly DEF HonestInv, Honest
<1>3. \A label : Sayable(label, c)
  BY <1>2 DEF Sayable
<1>4. CASE CancelRecover(p)
  <2>1. PICK r \in Answers(p, RecoverReplies, RecoverError) :
          \/ r.turn # NoTurn /\ Proceed(p, "c_saveTurn", [c EXCEPT !.turn = r.turn])
          \/ Leave(p)
    BY <1>4 DEF CancelRecover
  <2>2. r.turn # NoTurn => Sayable("c_saveTurn", [c EXCEPT !.turn = r.turn])
    BY <1>2, RecoverIsOfTurn DEF Sayable, Honest, Plain, Checkpoints
  <2> QED
    BY <1>3, <2>1, <2>2 DEF Leave
<1>5. CASE CancelObserve(p)
  <2>1. PICK obs \in Answers(p, ObserveReplies(c.turn), ObsError) :
          Finish(p, SettleCancel(c, obs)) \/ Proceed(p, "c_check", c) \/ Leave(p)
    BY <1>5 DEF CancelObserve
  <2>2. obs.receipt = "verified" => c.turn # NoTurn /\ posts[c.turn] = "good"
    BY <1>2, ObserveIsOfTurn
  <2>3. /\ SettleCancel(c, obs).turn = c.turn /\ Plain(SettleCancel(c, obs))
        /\ SettleCancel(c, obs).state \in Final \cup {"CANCEL_UNCONFIRMED"}
    BY <1>2, UpdateTurns, UpdateStates, ReplyPlain
  <2>4. CASE SettleCancel(c, obs).state = "COMPLETED"
    <3>1. obs.receipt = "verified"
      BY <1>2, <2>4 DEF SettleCancel, Checkpoints
    <3> QED
      BY <1>2, <1>3, <2>1, <2>2, <2>3, <2>4, <3>1
      DEF Honest, Sayable, Finish, Leave, StepPCs, CancelPCs
  <2>5. CASE SettleCancel(c, obs).state # "COMPLETED"
    <3>1. Honest(SettleCancel(c, obs))
      BY <1>2, <2>3, <2>5, HonestUpdate DEF Final
    <3> QED
      BY <1>3, <2>1, <3>1 DEF Sayable, Finish, Leave, StepPCs, CancelPCs
  <2> QED
    BY <2>4, <2>5
<1>6. CASE CancelCheck(p) \/ CancelInterrupt(p)
  BY <1>3, <1>6 DEF CancelCheck, CancelInterrupt
<1> QED
  BY <1>4, <1>5, <1>6

LEMMA SaveHonest ==
  ASSUME HonestInv, NEW p \in Procs, Save(p) \/ WriteAhead(p) \/ CancelSave(p)
  PROVE  /\ \E label, c : Proceed(p, label, c) /\ Sayable(label, c)
         /\ SavesOwn(p)
<1>1. pc[p] \in Working /\ (WriteAhead(p) \/ CancelSave(p) => pc[p] \in StepPCs \cup CancelPCs)
  BY DEF Save, WriteAhead, CancelSave, At, Working, Holding, StepPCs, CancelPCs
<1>2. cp[p] # NoCp /\ Honest(cp[p])
  BY <1>1, WorksHonestly
<1>3. /\ Sayable("release", cp[p])
      /\ WriteAhead(p) \/ CancelSave(p) => \A label : Sayable(label, cp[p])
  BY <1>1, <1>2 DEF Sayable, HonestInv, StepPCs, CancelPCs
<1>4. SavesOwn(p)
  BY <1>2 DEF Save, WriteAhead, CancelSave, Saved, SaveFailed, SavesOwn
<1>5. \E label : /\ Proceed(p, label, cp[p])
                 /\ label = "release" \/ WriteAhead(p) \/ CancelSave(p)
  BY DEF Save, WriteAhead, CancelSave, Leave
<1> QED
  BY <1>2, <1>3, <1>4, <1>5

LEMMA SendHonest ==
  ASSUME HonestInv, TypeInv', ResultsStay, NEW p \in Procs, Send(p)
  PROVE  HonestInv'
<1> DEFINE c == cp[p]
<1>1. pc[p] \in Working /\ pc[p] \in StepPCs /\ SavesOwn(p)
  BY DEF Send, SavesOwn, At, Working, Holding, StepPCs
<1>2. /\ c \in Checkpoints /\ Honest(c) /\ c.state # "COMPLETED" /\ Plain(c)
      /\ posts \in [Turns -> PostStates]
  BY <1>1, WorksHonestly DEF HonestInv, Honest, TypeInv, TypeOK, AOTypeOK
<1>3. PICK t \in Turns, o \in Answers(p, SendOutcomes, Outcome("error", "void")) :
        posts' = [posts EXCEPT ![t] = o.fate] /\ Finish(p, AfterSend(c, o.reply, t))
  BY DEF Send
<1>4. PICK d : d = AfterSend(c, o.reply, t) /\ Proceed(p, "save", d)
  BY <1>3 DEF Finish
<1>5. d \in Checkpoints
  BY <1>2, <1>4, ReplyUpdateTypes
<1>6. CASE o.reply = "sent"
  <2>1. d = Delivered(c, t)
    BY <1>4, <1>6 DEF AfterSend
  <2>2. d.state = "DELIVERED" /\ d.turn = t /\ Plain(d)
    BY <1>2, <2>1, UpdateStates, UpdateTurns, UpdatePlain
  <2>3. HasTurn(t)'
    BY <1>2, <1>3, <1>6, SendTells DEF HasTurn, TurnStates
  <2>4. Honest(d)'
    BY <2>2, <2>3, NoTurnAssumption DEF Honest, Plain
  <2> QED
    BY <1>1, <1>4, <2>4, HonestMove DEF StepPCs, CancelPCs, SavesOwn
<1>7. CASE o.reply # "sent"
  <2>1. d \in {Block(c), ScheduleSendRetry(c), ReconcileLater(c)}
    BY <1>4, <1>7 DEF AfterSend
  <2>2. Honest(d)
    BY <1>2, <2>1, HonestUpdates
  <2>3. Sayable("save", d)
    BY <2>2 DEF Sayable, StepPCs, CancelPCs
  <2> QED
    BY <1>1, <1>4, <2>3, HonestStep
<1> QED
  BY <1>6, <1>7

\* Outside the lease, and what happens to processes and to AO.
LEMMA OtherHonest ==
  ASSUME HonestInv, TypeInv', ResultsStay,
         \/ \E p \in Procs : \/ Start(p) \/ Loop(p) \/ Return(p) \/ Acquire(p) \/ Release(p)
                             \/ Crash(p) \/ ContextDone(p)
         \/ RemoveStaleLease \/ DeadlinePasses \/ AOStep \/ UNCHANGED vars
  PROVE  HonestInv'
<1>1. CASE \E p \in Procs : Start(p) \/ Loop(p) \/ Return(p) \/ Crash(p)
  <2>1. PICK p \in Procs, label \in Down \cup {"loop", "acquire"} :
          Proceed(p, label, NoCp) /\ SavesOwn(p)
    BY <1>1 DEF Start, Loop, Return, Crash, ExitCode, RunnerResult, Down, SavesOwn
  <2>2. Sayable(label, NoCp)
    BY DEF Sayable, Down, StepPCs, CancelPCs
  <2> QED
    BY <2>1, <2>2, HonestStep
<1>2. CASE \E p \in Procs : Acquire(p) \/ Release(p)
  <2>1. PICK p \in Procs, label \in {"load", "returned"} :
          Proceed(p, label, cp[p]) /\ SavesOwn(p)
    BY <1>2 DEF Acquire, Release, Proceed, Keep, SavesOwn, HonestInv, TypeInv, TypeOK
  <2>2. Sayable(label, cp[p])
    BY DEF HonestInv, Sayable, StepPCs, CancelPCs
  <2> QED
    BY <2>1, <2>2, HonestStep
<1>3. CASE \/ \E p \in Procs : ContextDone(p)
           \/ RemoveStaleLease \/ DeadlinePasses \/ AOStep \/ UNCHANGED vars
  <2>1. pc' = pc /\ cp' = cp /\ disk \in Checkpoints
    BY <1>3
    DEF ContextDone, RemoveStaleLease, DeadlinePasses, AOStep, vars, procVars, HonestInv,
        TypeInv, TypeOK
  <2>2. /\ disk'.state = disk.state /\ disk'.turn = disk.turn
        /\ disk'.sideEffect = disk.sideEffect
    BY <1>3, <2>1
    DEF ContextDone, RemoveStaleLease, DeadlinePasses, AOStep, vars, procVars, Checkpoints
  <2>3. Honest(disk)'
    BY <2>1, <2>2 DEF HonestInv, Honest, Plain, ResultsStay, Checkpoints
  <2>4. \A q \in Procs : cp[q] # NoCp => Honest(cp[q])'
    BY <2>1 DEF HonestInv, TypeInv, TypeOK, Honest, Plain, ResultsStay, Checkpoints
  <2> QED
    BY <2>1, <2>3, <2>4 DEF HonestInv
<1> QED
  BY <1>1, <1>2, <1>3

LEMMA HonestNext ==
  ASSUME HonestInv, [Next]_vars
  PROVE  HonestInv'
<1>1. TypeInv' /\ ResultsStay
  BY TypeStep, ResultsAreKept DEF HonestInv
<1>2. ASSUME NEW p \in Procs, ProcStep(p) PROVE HonestInv'
  <2>1. CASE Start(p) \/ Loop(p) \/ Return(p) \/ Acquire(p) \/ Release(p)
    BY <1>1, <2>1, OtherHonest
  <2>2. CASE Load(p) \/ CancelLoad(p)
    BY <1>1, <2>2, LoadHonest, HonestStep DEF Load, CancelLoad, SavesOwn
  <2>3. CASE Save(p) \/ WriteAhead(p) \/ CancelSave(p)
    BY <1>1, <2>3, SaveHonest, HonestStep
  <2>4. CASE Artifact(p) \/ Observe(p) \/ Recover(p) \/ Preflight(p)
    BY <1>1, <2>4, StepHonest, HonestStep DEF Artifact, Observe, Recover, Preflight, SavesOwn
  <2>5. CASE CancelRecover(p) \/ CancelObserve(p) \/ CancelCheck(p) \/ CancelInterrupt(p)
    BY <1>1, <2>5, CancelHonest, HonestStep
    DEF CancelRecover, CancelObserve, CancelCheck, CancelInterrupt, SavesOwn
  <2>6. CASE Send(p)
    BY <1>1, <2>6, SendHonest
  <2> QED
    BY <1>2, <2>1, <2>2, <2>3, <2>4, <2>5, <2>6 DEF ProcStep, RunStep, CancelStep
<1>3. CASE \/ \E p \in Procs : Crash(p) \/ ContextDone(p)
           \/ RemoveStaleLease \/ DeadlinePasses \/ AOStep \/ UNCHANGED vars
  BY <1>1, <1>3, OtherHonest
<1> QED
  BY <1>2, <1>3 DEF Next

LEMMA HonestInit == Init => HonestInv
<1> SUFFICES ASSUME Init PROVE HonestInv
  OBVIOUS
<1>1. Honest(disk)
  BY DEF Init, NewTask, Honest, Plain
<1>2. \A p \in Procs : cp[p] = NoCp /\ pc[p] \notin StepPCs \cup CancelPCs
  BY DEF Init, StepPCs, CancelPCs
<1> QED
  BY <1>1, <1>2, TypeInit DEF HonestInv

\* CompletedIsVerified: COMPLETED in the file stands for a turn of this task whose receipt
\* matches, whatever processes share the file, with or without a lease, and whatever else
\* the AO interface may answer (acceptReceipt).
THEOREM VerifiedCompletion == Spec => []CompletedIsVerified
<1>1. HonestInv => CompletedIsVerified
  BY DEF HonestInv, Honest, TypeInv, TypeOK, Checkpoints, CompletedIsVerified
<1> QED
  BY HonestInit, HonestNext, <1>1, PTL DEF Spec

\* DeliveredIsReal: DELIVERED in the file names a turn that AO made for this task, with or
\* without a lease, as long as AO does not report a delivery without its turn
\* (stepLocked, steerOrSend).
THEOREM RealDelivery == ASSUME Contract # "any" PROVE Spec => []DeliveredIsReal
<1>1. HonestInv => DeliveredIsReal
  BY DEF HonestInv, Honest, TypeInv, TypeOK, Checkpoints, DeliveredIsReal
<1> QED
  BY HonestInit, HonestNext, <1>1, PTL DEF Spec

\* Exit code 0 means work that AO has finished for this task, with a matching receipt.
ExitZeroIsVerified ==
  [][\A p \in Procs : Exits(p, "exit0") => \E t \in Turns : posts[t] = "good"]_vars

\* Exit code 0 of "recovery run" is never a lie about AO, although Saves may fail, processes
\* may share the file without a lease, and the file need not say COMPLETED: that is all that
\* is left of main.go:18 (runRecovery).
THEOREM ExitZeroIsTrue == Spec => ExitZeroIsVerified
<1>1. ASSUME HonestInv, [Next]_vars, NEW p \in Procs, Exits(p, "exit0")
      PROVE  \E t \in Turns : posts[t] = "good"
  <2>1. /\ cp[p] \in Checkpoints /\ cp[p] # NoCp /\ Honest(cp[p])
        /\ cp[p].state = "COMPLETED"
    BY <1>1, ExitsWithCheckpoint, NoCpAssumption DEF Exits, HonestInv, Honest, Plain, Terminal
  <2> QED
    BY <2>1 DEF Honest, Checkpoints
<1>2. HonestInv /\ [Next]_vars
        => [\A p \in Procs : Exits(p, "exit0") => \E t \in Turns : posts[t] = "good"]_vars
  BY <1>1
<1> QED
  BY HonestInit, HonestNext, <1>2, PTL DEF Spec, ExitZeroIsVerified
=============================================================================
