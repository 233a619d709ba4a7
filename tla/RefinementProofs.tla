---------------------------- MODULE RefinementProofs ----------------------------
(***************************************************************************)
(* Proofs that the processes, the lease, the checkpoint file and AO        *)
(* together implement module TaskDelivery, and the lease module RunLock.   *)
(***************************************************************************)
EXTENDS OutcomeProofs

\* What a final Save may not do to what the file says, besides what Fits and Truth
\* exclude already.
Decides(old, new) ==
  /\ old = "DELIVERY_UNCERTAIN" => new # "COMPLETED"
  /\ old = "DELIVERED" => new # "DELIVERY_UNCERTAIN"
  /\ new = "CANCEL_UNCONFIRMED" => old = new

\* What the file says while a process with checkpoint c in memory is at label.
Follows(label, c) ==
  /\ label \in {"artifact", "observe"} => c.state = disk.state
  /\ label \in {"recover", "preflight", "writeahead"} => disk.state # "DELIVERED"
  /\ label = "c_mark" => disk.state \notin BeforeSend
  /\ label \in CancelPCs \ {"c_mark"} => disk.state = "CANCEL_UNCONFIRMED"
  /\ label = "save" => Decides(disk.state, c.state)

TaskInv ==
  /\ OutcomeInv
  /\ \A p \in Procs : pc[p] \in Working => Follows(pc[p], cp[p])

----------------------------------------------------------------------------
(* The invariant.                                                            *)

LEMMA HolderFollows ==
  ASSUME TaskInv, OutcomeInv', NEW p \in Procs, pc[p] \in Holding,
         \A q \in Procs \ {p} : pc'[q] = pc[q],
         pc'[p] \in Working => Follows(pc[p], cp[p])'
  PROVE  TaskInv'
<1>1. ASSUME NEW q \in Procs, q # p
      PROVE  pc'[q] \notin Working
  BY <1>1, Exclusion DEF TaskInv, OutcomeInv, SafetyInv, Working
<1> QED
  BY <1>1 DEF TaskInv

LEMMA QuietFollows ==
  ASSUME TaskInv, OutcomeInv', NEW p \in Procs, pc[p] \in Holding,
         NEW label, NEW c, Proceed(p, label, c), label \in Working => Follows(label, c),
         disk' = disk
  PROVE  TaskInv'
<1>1. pc'[p] = label /\ cp'[p] = c /\ \A q \in Procs \ {p} : pc'[q] = pc[q]
  BY Moved DEF TaskInv, OutcomeInv, SafetyInv
<1>2. label \in Working => Follows(pc[p], cp[p])'
  BY <1>1 DEF Follows
<1> QED
  BY <1>1, <1>2, HolderFollows

\* A claim of the file about a turn excludes that nothing was sent.
LEMMA HeldTurn ==
  ASSUME OutcomeInv, NEW c \in Checkpoints, Truth(c), c.turn # NoTurn
  PROVE  /\ ~Clear
         /\ \A t \in Turns : posts[t] # "wire"
         /\ disk.state \notin BeforeSend
<1>1. c.turn \in Turns /\ HasTurn(c.turn)
  BY DEF Truth, Checkpoints
<1>2. Possible(c.turn) /\ posts[c.turn] # "wire"
  BY <1>1 DEF HasTurn, TurnStates, Ended, Possible
<1>3. ~Clear
  BY <1>1, <1>2 DEF Clear
<1>4. \A t \in Turns : posts[t] # "wire"
  BY <1>1, <1>2 DEF OutcomeInv, SafetyInv, IInv, AtMostOnce, Possible
<1> QED
  BY <1>3, <1>4 DEF OutcomeInv, SafetyInv, IInv, ResendableMeansUnsent

LEMMA LoadFollows ==
  ASSUME TaskInv, OutcomeInv', NEW p \in Procs, Load(p) \/ CancelLoad(p)
  PROVE  TaskInv'
<1>1. disk \in Checkpoints /\ Truth(disk) /\ pc[p] \in Holding /\ disk' = disk
  BY DEF TaskInv, OutcomeInv, SafetyInv, TypeInv, TypeOK, Load, CancelLoad, At, Holding
<1>2. \E label, c : Proceed(p, label, c) /\ (label \in Working => Follows(label, c))
  <2>1. CASE Leave(p)
    BY <2>1 DEF Leave, Working
  <2>2. CASE ~Leave(p) /\ Load(p)
    <3>1. Follows("save", disk) /\ Follows("artifact", disk)
      BY DEF Follows, Decides, CancelPCs
    <3> QED
      BY <2>2, <3>1 DEF Load, Finish, Working
  <2>3. CASE ~Leave(p) /\ CancelLoad(p)
    <3>1. Follows("save", Cancelled(disk))
      BY <1>1, UpdateStates DEF Follows, Decides, CancelPCs
    <3>2. disk.state \notin BeforeSend => Follows("c_mark", CancelUnconfirmed(disk))
      BY DEF Follows, CancelPCs
    <3>3. disk.turn # NoTurn => disk.state \notin BeforeSend
      BY <1>1, HeldTurn DEF TaskInv
    <3> QED
      BY <2>3, <3>1, <3>2, <3>3 DEF CancelLoad, Finish, Working
  <2> QED
    BY <2>1, <2>2, <2>3
<1> QED
  BY <1>1, <1>2, QuietFollows

LEMMA SaveFollows ==
  ASSUME TaskInv, OutcomeInv', NEW p \in Procs, Save(p) \/ WriteAhead(p) \/ CancelSave(p)
  PROVE  TaskInv'
<1>1. pc[p] \in Working /\ pc[p] \in Holding
  BY DEF Save, WriteAhead, CancelSave, At, Working, Holding, StepPCs, CancelPCs
<1>2. \A q \in Procs \ {p} : pc'[q] = pc[q]
  BY Moved DEF TaskInv, OutcomeInv, SafetyInv, Save, WriteAhead, CancelSave, Leave
<1>3. \/ pc'[p] \in {"release", "send"}
      \/ /\ pc[p] \in CancelPCs /\ disk' = cp[p]
         /\ pc'[p] \in {"c_recover", "c_observe"} /\ cp'[p] = cp[p]
  BY Moved DEF TaskInv, OutcomeInv, SafetyInv, Save, WriteAhead, CancelSave, Saved, Leave, CancelPCs
<1>4. pc[p] \in CancelPCs => cp[p].state = "CANCEL_UNCONFIRMED"
  BY DEF TaskInv, OutcomeInv, SafetyInv, IInv, Fits
<1>5. pc'[p] \in Working => Follows(pc[p], cp[p])'
  BY <1>3, <1>4 DEF Follows, Working, CancelPCs
<1> QED
  BY <1>1, <1>2, <1>5, HolderFollows

LEMMA StepFollows ==
  ASSUME Contract # "any", TaskInv, OutcomeInv', NEW p \in Procs,
         Artifact(p) \/ Observe(p) \/ Recover(p) \/ Preflight(p)
  PROVE  TaskInv'
<1> DEFINE c == cp[p]
<1>1. pc[p] \in Holding /\ pc[p] \in Working /\ pc[p] \in StepPCs /\ disk' = disk
  BY DEF Artifact, Observe, Recover, Preflight, At, Holding, Working, StepPCs
<1>2. c \in Checkpoints /\ Truth(c) /\ Follows(pc[p], c) /\ AtMostOnce
  BY <1>1, WorkingCheckpoint DEF TaskInv, OutcomeInv, SafetyInv, IInv
<1>3. ASSUME NEW d, d.state \in {"BLOCKED", "CANCELLED"} PROVE Follows("save", d)
  BY <1>3 DEF Follows, Decides, CancelPCs
<1>4. Follows("save", Block(c)) /\ Follows("save", Cancelled(c))
  BY <1>2, <1>3, UpdateStates
<1>5. \E label, d : Proceed(p, label, d) /\ (label \in Working => Follows(label, d))
  <2>1. CASE Artifact(p)
    <3>1. Follows("observe", c)
      BY <1>2, <2>1 DEF Artifact, At, Follows, CancelPCs
    <3> QED
      BY <1>4, <2>1, <3>1 DEF Artifact, Finish
  <2>2. CASE Observe(p)
    <3>1. c.state = disk.state /\ c.state \in OpenStates
      BY <1>2, <2>2 DEF Observe, At, Follows, TaskInv, OutcomeInv, SafetyInv, IInv, Fits
    <3>2. c.turn \in Turns \cup {NoTurn} /\ (c.turn # NoTurn => HasTurn(c.turn))
      BY <1>2 DEF Checkpoints, Truth
    <3>3. ASSUME NEW d, d.state \in {c.state, "WAITING_RETRY"} PROVE Follows("save", d)
      BY <3>1, <3>3 DEF Follows, Decides, CancelPCs, OpenStates
    <3>4. Follows("save", ObserveFailed(c))
      <4>1. CountAttempt(c) \in Checkpoints /\ CountAttempt(c).state = c.state
        BY <1>2, UpdateTypes, UpdateStates
      <4>2. ObserveFailed(c).state \in {c.state, "WAITING_RETRY", "BLOCKED"}
        BY <4>1, UpdateStates DEF ObserveFailed
      <4> QED
        BY <1>3, <3>3, <4>2
    <3>5. c.state # "DELIVERED" => Follows("recover", c) /\ Follows("preflight", c)
      BY <3>1 DEF Follows, CancelPCs
    <3>6. PICK obs \in Answers(p, ObserveReplies(c.turn), ObsError) :
            \/ Finish(p, ObserveFailed(c)) \/ Finish(p, Block(c)) \/ Finish(p, Cancelled(c))
            \/ c.state = "DELIVERY_UNCERTAIN" /\ Proceed(p, "recover", c)
            \/ c.state # "DELIVERY_UNCERTAIN" /\ Dispatch(p, obs)
      BY <2>2 DEF Observe
    <3>7. obs.delivery = "RESERVED" => c.state # "DELIVERED"
      <4>1. SUFFICES ASSUME obs.delivery = "RESERVED", c.state = "DELIVERED" PROVE FALSE
        OBVIOUS
      <4>2. \E t \in Turns : posts[t] = "wire"
        BY <3>2, <4>1, ObserveTells
      <4>3. c.turn # NoTurn
        BY <1>2, <4>1 DEF Truth
      <4> QED
        BY <1>2, <4>2, <4>3, HeldTurn DEF TaskInv
    <3>8. ASSUME c.state # "DELIVERY_UNCERTAIN"
          PROVE  /\ Follows("save", AcceptReceipt(c, obs.receipt))
                 /\ Follows("save", Delivered(c, c.turn))
      <4>1. AcceptReceipt(c, obs.receipt).state \in {"COMPLETED", "BLOCKED"}
        BY <1>2, UpdateStates
      <4>2. Delivered(c, c.turn).state = "DELIVERED"
        BY <1>2, UpdateStates
      <4> QED
        BY <3>1, <3>8, <4>1, <4>2 DEF Follows, Decides, CancelPCs
    <3>9. ASSUME c.state # "DELIVERY_UNCERTAIN", Dispatch(p, obs)
          PROVE  \/ Finish(p, AcceptReceipt(c, obs.receipt)) \/ Finish(p, Delivered(c, c.turn))
                 \/ Finish(p, Cancelled(c)) \/ Finish(p, Block(c)) \/ Leave(p)
                 \/ obs.delivery = "RESERVED" /\ Proceed(p, "recover", c)
                 \/ c.state # "DELIVERED" /\ Proceed(p, "preflight", c)
      BY <3>9 DEF Dispatch
    <3>10. CASE c.state # "DELIVERY_UNCERTAIN" /\ Dispatch(p, obs)
      BY <1>4, <3>5, <3>7, <3>8, <3>9, <3>10 DEF Finish, Leave, Working
    <3>11. CASE ~Dispatch(p, obs) \/ c.state = "DELIVERY_UNCERTAIN"
      BY <1>4, <3>4, <3>5, <3>6, <3>11 DEF Finish
    <3> QED
      BY <3>10, <3>11
  <2>3. CASE Recover(p)
    <3>1. PICK r \in Answers(p, RecoverReplies, RecoverError) : Finish(p, AfterRecover(c, r))
      BY <2>3 DEF Recover
    <3>2. disk.state # "DELIVERED"
      BY <1>2, <2>3 DEF Recover, At, Follows
    <3>3. AfterRecover(c, r).state \in {"BLOCKED", "DELIVERED", "DELIVERY_UNCERTAIN"}
      <4>1. CountAttempt(c) \in Checkpoints
        BY <1>2, UpdateTypes
      <4>2. /\ Block(c).state = "BLOCKED" /\ Delivered(c, r.turn).state = "DELIVERED"
            /\ ReconcileLater(CountAttempt(c)).state \in {"BLOCKED", "DELIVERY_UNCERTAIN"}
        BY <1>2, <4>1, UpdateStates
      <4> QED
        BY <4>2 DEF AfterRecover
    <3>4. Follows("save", AfterRecover(c, r))
      BY <3>2, <3>3 DEF Follows, Decides, CancelPCs
    <3> QED
      BY <3>1, <3>4 DEF Finish
  <2>4. CASE Preflight(p)
    <3>1. Follows("writeahead", WriteAheadOf(c))
      BY <1>2, <2>4 DEF Preflight, At, Follows, CancelPCs
    <3> QED
      BY <1>4, <2>4, <3>1 DEF Preflight, Finish
  <2> QED
    BY <2>1, <2>2, <2>3, <2>4
<1> QED
  BY <1>1, <1>5, QuietFollows

LEMMA CancelFollows ==
  ASSUME TaskInv, OutcomeInv', NEW p \in Procs,
         CancelRecover(p) \/ CancelObserve(p) \/ CancelCheck(p) \/ CancelInterrupt(p)
  PROVE  TaskInv'
<1>1. /\ pc[p] \in Holding /\ pc[p] \in Working /\ pc[p] \in CancelPCs \ {"c_mark"}
      /\ disk' = disk
  BY DEF CancelRecover, CancelObserve, CancelCheck, CancelInterrupt, At, Holding, Working, CancelPCs
<1>2. disk.state = "CANCEL_UNCONFIRMED"
  BY <1>1 DEF TaskInv, Follows
<1> DEFINE Labels == {"c_saveTurn", "c_check", "c_interrupt", "c_confirm", "save", "release"}
<1>3. ASSUME NEW label \in Labels, NEW c PROVE Follows(label, c)
  BY <1>2 DEF Follows, Decides, CancelPCs
<1>4. \E label \in Labels : \E c : Proceed(p, label, c)
  BY DEF CancelRecover, CancelObserve, CancelCheck, CancelInterrupt, Finish, Leave
<1> QED
  BY <1>1, <1>3, <1>4, QuietFollows

LEMMA SendFollows ==
  ASSUME TaskInv, OutcomeInv', NEW p \in Procs, Send(p)
  PROVE  TaskInv'
<1>1. pc[p] = "send" /\ pc[p] \in Holding /\ pc[p] \in Working /\ disk' = disk
  BY DEF Send, At, Holding, Working, StepPCs
<1>2. disk.state = "DELIVERY_UNCERTAIN" /\ cp[p] \in Checkpoints
  BY <1>1, WorkingCheckpoint DEF TaskInv, OutcomeInv, SafetyInv, IInv, Fits
<1>3. PICK t \in Turns : \E reply : Finish(p, AfterSend(cp[p], reply, t))
  BY DEF Send
<1>4. PICK reply : Finish(p, AfterSend(cp[p], reply, t))
  BY <1>3
<1>5. AfterSend(cp[p], reply, t).state
        \in {"DELIVERED", "BLOCKED", "WAITING_RETRY", "DELIVERY_UNCERTAIN"}
  BY <1>2, UpdateStates DEF AfterSend
<1>6. Follows("save", AfterSend(cp[p], reply, t))
  BY <1>2, <1>5 DEF Follows, Decides, CancelPCs
<1> QED
  BY <1>1, <1>4, <1>6, QuietFollows DEF Finish

LEMMA OtherFollows ==
  ASSUME TaskInv, OutcomeInv',
         \/ \E p \in Procs : \/ Start(p) \/ Loop(p) \/ Return(p) \/ Acquire(p) \/ Release(p)
                             \/ Crash(p) \/ ContextDone(p)
         \/ RemoveStaleLease \/ DeadlinePasses \/ AOStep \/ UNCHANGED vars
  PROVE  TaskInv'
<1>1. disk'.state = disk.state
  BY DEF Start, Loop, Return, Acquire, Release, Crash, ContextDone, RemoveStaleLease,
         DeadlinePasses, AOStep, vars, TaskInv, OutcomeInv, SafetyInv, TypeInv, TypeOK, Checkpoints
<1>2. ASSUME NEW q \in Procs, pc'[q] \in Working
      PROVE  pc[q] = pc'[q] /\ cp'[q] = cp[q]
  BY <1>2 DEF Start, Loop, Return, Acquire, Release, Crash, ContextDone, RemoveStaleLease,
         DeadlinePasses, AOStep, vars, procVars, Proceed, Go, Keep, ExitCode, RunnerResult,
         Working, Holding, StepPCs, CancelPCs, TaskInv, OutcomeInv, SafetyInv, TypeInv, TypeOK
<1>3. ASSUME NEW q \in Procs, pc'[q] \in Working
      PROVE  Follows(pc[q], cp[q])'
  BY <1>1, <1>2, <1>3 DEF TaskInv, Follows
<1> QED
  BY <1>3 DEF TaskInv

LEMMA TaskInvStep ==
  ASSUME Exclusive, Contract # "any", TaskInv, [Next]_vars
  PROVE  TaskInv'
<1>1. OutcomeInv'
  BY OutcomeStep DEF TaskInv
<1>2. ASSUME NEW p \in Procs, ProcStep(p) PROVE TaskInv'
  <2>1. CASE Start(p) \/ Loop(p) \/ Return(p) \/ Acquire(p) \/ Release(p)
    BY <1>1, <2>1, OtherFollows
  <2>2. CASE Load(p) \/ CancelLoad(p)
    BY <1>1, <2>2, LoadFollows
  <2>3. CASE Save(p) \/ WriteAhead(p) \/ CancelSave(p)
    BY <1>1, <2>3, SaveFollows
  <2>4. CASE Artifact(p) \/ Observe(p) \/ Recover(p) \/ Preflight(p)
    BY <1>1, <2>4, StepFollows
  <2>5. CASE CancelRecover(p) \/ CancelObserve(p) \/ CancelCheck(p) \/ CancelInterrupt(p)
    BY <1>1, <2>5, CancelFollows
  <2>6. CASE Send(p)
    BY <1>1, <2>6, SendFollows
  <2> QED
    BY <1>2, <2>1, <2>2, <2>3, <2>4, <2>5, <2>6 DEF ProcStep, RunStep, CancelStep
<1>3. CASE \/ \E p \in Procs : Crash(p) \/ ContextDone(p)
           \/ RemoveStaleLease \/ DeadlinePasses \/ AOStep \/ UNCHANGED vars
  BY <1>1, <1>3, OtherFollows
<1> QED
  BY <1>2, <1>3 DEF Next

LEMMA TaskInvInit == Init => TaskInv
<1> SUFFICES ASSUME Init PROVE TaskInv
  OBVIOUS
<1>1. \A p \in Procs : pc[p] \notin Working
  BY DEF Init, Working, Holding, StepPCs, CancelPCs
<1> QED
  BY <1>1, OutcomeInit DEF TaskInv

----------------------------------------------------------------------------
(* Every step of the task is one of TaskDelivery, or none.                   *)

\* A step that changes neither the state in the file nor any POST is not seen.
LEMMA Unseen ==
  ASSUME disk'.state = disk.state, posts' = posts
  PROVE  UNCHANGED <<Phase, Texts>>
BY DEF Phase, PhaseOf, Texts

LEMMA TextsAre ==
  ASSUME NEW t \in Turns, posts[t] \in PostStates
  PROVE  /\ Texts[t] = "none" <=> ~Possible(t)
         /\ Texts[t] = "ended" <=> posts[t] \in Ended
         /\ Texts[t] = "active" <=> posts[t] \in {"wire", "steered", "live", "odd"}
         /\ Texts[t] \in {"none", "ended", "active"}
BY DEF Texts, TextOf, Possible, PostStates, TurnStates, Ended

\* The final Save of a Step or a Cancel, and the Saves on the way.
LEMMA SaveRefines ==
  ASSUME TaskInv, NEW p \in Procs, Save(p) \/ WriteAhead(p) \/ CancelSave(p)
  PROVE  [Task!Next]_<<Phase, Texts>>
<1> DEFINE c == cp[p]
<1>1. pc[p] \in Working /\ posts' = posts /\ Texts' = Texts
  BY DEF Save, WriteAhead, CancelSave, At, aoVars, Working, Holding, StepPCs, CancelPCs, Texts
<1>2. /\ c \in Checkpoints /\ disk \in Checkpoints /\ Truth(c) /\ Truth(disk)
      /\ Fits(pc[p], c) /\ Follows(pc[p], c) /\ OutcomeInv
      /\ \A t \in Turns : posts[t] \in PostStates
      /\ disk.state \in BeforeSend => Clear
  BY <1>1, WorkingCheckpoint
  DEF TaskInv, OutcomeInv, SafetyInv, IInv, ResendableMeansUnsent, TypeInv, TypeOK, AOTypeOK
<1>3. disk' = disk \/ disk' = c
  BY DEF Save, WriteAhead, CancelSave, Saved, SaveFailed
<1>4. CASE disk'.state = disk.state
  BY <1>1, <1>4, Unseen
<1>5. CASE disk' = c /\ c.state # disk.state
  <2>1. /\ Task!Unsent <=> Clear
        /\ Task!Quiet <=> AllQuiet
    BY <1>2, TextsAre DEF Task!Unsent, Task!Quiet, Clear, AllQuiet
  <2>2. c.turn # NoTurn \/ disk.turn # NoTurn => ~Clear /\ disk.state \notin BeforeSend
    BY <1>2, HeldTurn
  <2>3. c.state = "DELIVERED" => c.turn # NoTurn
    BY <1>2 DEF Truth
  <2>4. disk.state = "DELIVERED" => disk.turn # NoTurn
    BY <1>2 DEF Truth
  <2>5. pc[p] \in {"save", "writeahead", "c_mark", "c_saveTurn"}
    BY DEF Save, WriteAhead, CancelSave, At
  <2>6. disk.state \notin Final
    BY <1>2, <1>5, <2>5 DEF Fits, CancelPCs, StepPCs, OpenStates, Final
  <2>7. CASE c.state = "BLOCKED"
    <3>1. Phase' = "blocked" /\ Phase \notin Task!Decided
      BY <1>2, <1>5, <2>6, <2>7
      DEF Phase, PhaseOf, Task!Decided, Final, BeforeSend, Checkpoints, TaskStates
    <3> QED
      BY <1>1, <3>1 DEF Task!Next, Task!Block
  <2>8. CASE c.state = "CANCELLED"
    <3>1. Phase' = "cancelled" /\ Phase \notin Task!Decided
      BY <1>2, <1>5, <2>6, <2>8
      DEF Phase, PhaseOf, Task!Decided, Final, BeforeSend, Checkpoints, TaskStates
    <3>2. AllQuiet
      BY <1>2, <2>8 DEF Truth
    <3> QED
      BY <1>1, <2>1, <3>1, <3>2 DEF Task!Next, Task!Cancel
  <2>9. CASE c.state = "COMPLETED"
    <3>1. pc[p] = "save"
      BY <1>2, <2>5, <2>9 DEF Fits, CancelPCs
    <3>2. c.turn \in Turns /\ c.turn # NoTurn /\ posts[c.turn] = "good"
      BY <1>2, <2>9 DEF Truth, Checkpoints
    <3>3. disk.state \in {"DELIVERED", "CANCEL_UNCONFIRMED"}
      BY <1>2, <2>2, <2>6, <2>9, <3>1, <3>2
      DEF Follows, Decides, Checkpoints, TaskStates, Final, BeforeSend
    <3>4. Phase' = "completed" /\ Phase \in {"delivered", "stopping"}
      BY <1>5, <2>9, <3>3 DEF Phase, PhaseOf, BeforeSend
    <3>5. Texts[c.turn] = "ended"
      BY <1>2, <3>2, TextsAre DEF Ended
    <3> QED
      BY <1>1, <3>2, <3>4, <3>5 DEF Task!Next, Task!Complete
  <2>10. CASE c.state = "CANCEL_UNCONFIRMED"
    <3>1. pc[p] \in CancelPCs
      BY <1>2, <1>5, <2>5, <2>10 DEF Follows, Decides, Fits, CancelPCs
    <3>2. disk.state \in {"DELIVERY_UNCERTAIN", "DELIVERED"}
      BY <1>2, <1>5, <2>6, <2>10, <3>1
      DEF Follows, Final, BeforeSend, Checkpoints, TaskStates
    <3>3. Phase' = "stopping" /\ Phase \in {"uncertain", "delivered"}
      BY <1>5, <2>10, <3>2 DEF Phase, PhaseOf, BeforeSend
    <3> QED
      BY <1>1, <3>3 DEF Task!Next, Task!Stop
  <2>11. CASE c.state \in OpenStates
    <3>1. pc[p] \in {"save", "writeahead"} /\ disk.state \in OpenStates
      BY <1>2, <2>5, <2>6, <2>11
      DEF Fits, CancelPCs, StepPCs, OpenStates, Final, Checkpoints, TaskStates
    <3>2. CASE c.state \in BeforeSend
      <4>1. Clear
        BY <1>2, <3>1, <3>2 DEF Fits, Working, Holding, StepPCs
      <4>2. disk.state # "DELIVERED"
        BY <2>2, <2>4, <4>1
      <4>3. CASE disk.state \in BeforeSend
        <5>1. Phase' = Phase
          BY <1>5, <3>2, <4>3 DEF Phase, PhaseOf, BeforeSend
        <5> QED
          BY <1>1, <5>1
      <4>4. CASE disk.state = "DELIVERY_UNCERTAIN"
        <5>1. Phase = "uncertain" /\ Phase' = "open"
          BY <1>5, <3>2, <4>4 DEF Phase, PhaseOf, BeforeSend
        <5> QED
          BY <1>1, <2>1, <4>1, <5>1 DEF Task!Next, Task!Withdraw
      <4> QED
        BY <3>1, <4>2, <4>3, <4>4 DEF OpenStates, BeforeSend
    <3>3. CASE c.state = "DELIVERED"
      <4>1. disk.state = "DELIVERY_UNCERTAIN"
        BY <1>5, <2>2, <2>3, <3>1, <3>3 DEF OpenStates, BeforeSend
      <4>2. Phase = "uncertain" /\ Phase' = "delivered" /\ ~Clear
        BY <1>5, <2>2, <2>3, <3>3, <4>1 DEF Phase, PhaseOf, BeforeSend
      <4> QED
        BY <1>1, <2>1, <4>2 DEF Task!Next, Task!Adopt
    <3>4. CASE c.state = "DELIVERY_UNCERTAIN"
      <4>1. disk.state \in BeforeSend
        BY <1>2, <1>5, <3>1, <3>4 DEF Follows, Decides, OpenStates, BeforeSend
      <4>2. Phase = "open" /\ Phase' = "uncertain"
        BY <1>5, <3>4, <4>1 DEF Phase, PhaseOf, BeforeSend
      <4> QED
        BY <1>1, <4>2 DEF Task!Next, Task!Commit
    <3> QED
      BY <2>11, <3>2, <3>3, <3>4 DEF OpenStates, BeforeSend
  <2> QED
    BY <1>2, <2>7, <2>8, <2>9, <2>10, <2>11 DEF OpenStates, Checkpoints, TaskStates
<1> QED
  BY <1>3, <1>4, <1>5

\* One POST gets a new fate, and the file stays.
LEMMA FateRefines ==
  ASSUME \A u \in Turns : posts[u] \in PostStates, posts \in [Turns -> PostStates],
         NEW t \in Turns, NEW fate \in PostStates, posts' = [posts EXCEPT ![t] = fate],
         disk'.state = disk.state
  PROVE  /\ Phase' = Phase
         /\ Texts' = [Texts EXCEPT ![t] = TextOf(fate)]
         /\ Texts[t] = TextOf(posts[t])
BY DEF Phase, PhaseOf, Texts

\* A copy that ends, is lost, or is still at work.
LEMMA EndRefines ==
  ASSUME posts \in [Turns -> PostStates], disk'.state = disk.state,
         NEW t \in Turns, posts[t] \in {"wire", "live", "odd"},
         NEW fate \in PostStates \ {"unsent"}, posts' = [posts EXCEPT ![t] = fate]
  PROVE  [Task!Next]_<<Phase, Texts>>
<1>1. /\ Phase' = Phase /\ Texts' = [Texts EXCEPT ![t] = TextOf(fate)]
      /\ Texts[t] = "active"
  BY FateRefines DEF TextOf, Ended
<1>2. Texts \in [Turns -> {"none", "ended", "active"}]
  BY DEF Texts, TextOf
<1>3. CASE TextOf(fate) = "active"
  <2>1. Texts' = Texts
    BY <1>1, <1>2, <1>3
  <2> QED
    BY <1>1, <2>1
<1>4. CASE TextOf(fate) \in {"none", "ended"}
  <2>1. Task!Leaves(t)
    BY <1>1, <1>4 DEF Task!Leaves
  <2> QED
    BY <2>1 DEF Task!Next
<1> QED
  BY <1>3, <1>4 DEF TextOf

LEMMA SendRefines ==
  ASSUME TaskInv, NEW p \in Procs, Send(p)
  PROVE  [Task!Next]_<<Phase, Texts>>
<1>1. /\ pc[p] = "send" /\ disk' = disk
      /\ posts \in [Turns -> PostStates] /\ \A u \in Turns : posts[u] \in PostStates
  BY DEF Send, At, TaskInv, OutcomeInv, SafetyInv, TypeInv, TypeOK, AOTypeOK
<1>2. Clear /\ disk.state = "DELIVERY_UNCERTAIN"
  BY <1>1 DEF TaskInv, OutcomeInv, SafetyInv, IInv, Fits
<1>3. PICK t \in Turns, o \in Answers(p, SendOutcomes, Outcome("error", "void")) :
        posts' = [posts EXCEPT ![t] = o.fate]
  BY DEF Send
<1>4. o.fate \in {"live", "steered", "wire", "void"}
  BY DEF Answers, SendOutcomes, Outcome, AcceptedAs
<1>5. /\ Phase' = Phase /\ Texts' = [Texts EXCEPT ![t] = TextOf(o.fate)]
  BY <1>1, <1>3, <1>4, FateRefines DEF PostStates, TurnStates
<1>6. Texts \in [Turns -> {"none", "ended", "active"}] /\ \A u \in Turns : Texts[u] = "none"
  BY <1>1, <1>2, TextsAre DEF Texts, TextOf, Clear
<1>7. CASE o.fate = "void"
  <2>1. Texts' = Texts
    BY <1>5, <1>6, <1>7 DEF TextOf, Ended
  <2> QED
    BY <1>5, <2>1
<1>8. CASE o.fate # "void"
  <2>1. TextOf(o.fate) = "active"
    BY <1>4, <1>8 DEF TextOf, Ended
  <2>2. Phase = "uncertain"
    BY <1>2 DEF Phase, PhaseOf, BeforeSend
  <2>3. Task!Emit(t)
    BY <1>5, <1>6, <2>1, <2>2 DEF Task!Emit, Task!Unsent
  <2> QED
    BY <2>3 DEF Task!Next
<1> QED
  BY <1>7, <1>8

LEMMA InterruptRefines ==
  ASSUME TaskInv, NEW p \in Procs, CancelInterrupt(p)
  PROVE  [Task!Next]_<<Phase, Texts>>
<1>1. disk' = disk /\ posts \in [Turns -> PostStates] /\ AtMostOnce
  BY DEF CancelInterrupt, TaskInv, OutcomeInv, SafetyInv, TypeInv, TypeOK, AOTypeOK, IInv
<1>2. CASE posts' = posts
  BY <1>1, <1>2, Unseen
<1>3. CASE posts' # posts
  <2>1. posts' = Interrupted
    BY <1>3 DEF CancelInterrupt
  <2>2. PICK t \in Turns : posts[t] = "live"
    BY <1>1, <1>3, <2>1 DEF Interrupted
  <2>3. \A u \in Turns : posts[u] = "live" => u = t
    BY <1>1, <2>2 DEF AtMostOnce, Possible
  <2>4. posts' = [posts EXCEPT ![t] = "stopped"]
    BY <1>1, <2>1, <2>2, <2>3 DEF Interrupted
  <2> QED
    BY <1>1, <2>2, <2>4, EndRefines DEF PostStates, TurnStates, Ended
<1> QED
  BY <1>2, <1>3

LEMMA OtherRefines ==
  ASSUME TaskInv,
         \/ \E p \in Procs : \/ Start(p) \/ Loop(p) \/ Return(p) \/ Acquire(p) \/ Release(p)
                             \/ Load(p) \/ CancelLoad(p) \/ Artifact(p) \/ Observe(p) \/ Recover(p)
                             \/ Preflight(p) \/ CancelRecover(p) \/ CancelObserve(p)
                             \/ CancelCheck(p) \/ Crash(p) \/ ContextDone(p)
         \/ RemoveStaleLease \/ DeadlinePasses \/ AOStep \/ UNCHANGED vars
  PROVE  [Task!Next]_<<Phase, Texts>>
<1>1. disk'.state = disk.state
  BY DEF Start, Loop, Return, Acquire, Release, Load, CancelLoad, Artifact, Observe, Recover,
         Preflight, CancelRecover, CancelObserve, CancelCheck, Crash, ContextDone,
         RemoveStaleLease, DeadlinePasses, AOStep, vars, TaskInv, OutcomeInv, SafetyInv, TypeInv,
         TypeOK, Checkpoints
<1>2. posts' = posts \/ AOStep
  BY DEF Start, Loop, Return, Acquire, Release, Load, CancelLoad, Artifact, Observe, Recover,
         Preflight, CancelRecover, CancelObserve, CancelCheck, Crash, ContextDone,
         RemoveStaleLease, DeadlinePasses, vars, aoVars
<1>3. CASE posts' = posts
  BY <1>1, <1>3, Unseen
<1>4. CASE AOStep /\ posts' # posts
  <2>1. posts \in [Turns -> PostStates]
    BY DEF TaskInv, OutcomeInv, SafetyInv, TypeInv, TypeOK, AOTypeOK
  <2>2. PICK t \in Turns : LateAccept(t) \/ LateLoss(t) \/ TurnEnds(t) \/ TurnTurnsOdd(t)
    BY <1>4 DEF AOStep, AONext, SessionLost, ForeignStarts, ForeignEnds
  <2>3. /\ posts[t] \in {"wire", "live", "odd"}
        /\ \E fate \in PostStates \ {"unsent"} : posts' = [posts EXCEPT ![t] = fate]
    BY <2>2
    DEF LateAccept, LateLoss, TurnEnds, TurnTurnsOdd, AcceptedAs, PostStates, TurnStates, Ended
  <2> QED
    BY <1>1, <2>1, <2>3, EndRefines
<1> QED
  BY <1>2, <1>3, <1>4

LEMMA TaskStep ==
  ASSUME TaskInv, [Next]_vars
  PROVE  [Task!Next]_<<Phase, Texts>>
<1>1. ASSUME NEW p \in Procs, ProcStep(p) PROVE [Task!Next]_<<Phase, Texts>>
  <2>1. CASE Save(p) \/ WriteAhead(p) \/ CancelSave(p)
    BY <2>1, SaveRefines
  <2>2. CASE Send(p)
    BY <2>2, SendRefines
  <2>3. CASE CancelInterrupt(p)
    BY <2>3, InterruptRefines
  <2>4. CASE \/ Start(p) \/ Loop(p) \/ Return(p) \/ Acquire(p) \/ Release(p)
             \/ Load(p) \/ CancelLoad(p) \/ Artifact(p) \/ Observe(p) \/ Recover(p)
             \/ Preflight(p) \/ CancelRecover(p) \/ CancelObserve(p) \/ CancelCheck(p)
    BY <2>4, OtherRefines
  <2> QED
    BY <1>1, <2>1, <2>2, <2>3, <2>4 DEF ProcStep, RunStep, CancelStep
<1>2. CASE \/ \E p \in Procs : Crash(p) \/ ContextDone(p)
           \/ RemoveStaleLease \/ DeadlinePasses \/ AOStep \/ UNCHANGED vars
  BY <1>2, OtherRefines
<1> QED
  BY <1>1, <1>2 DEF Next

LEMMA TaskInit == Init => Task!Init
BY DEF Init, AOInit, NewTask, Task!Init, Phase, PhaseOf, Texts, TextOf, Ended,
       BeforeSend

\* ImplementsTaskDelivery: whatever crashes, faults, restarts and concurrent commands there
\* are, the recovery of a task with a run owner, or by one process, does what TaskDelivery
\* promises, as long as AO tells the truth.
THEOREM RecoveryIsTaskDelivery ==
  ASSUME Exclusive, Contract # "any"
  PROVE  Spec => ImplementsTaskDelivery
<1>1. TaskInv /\ [Next]_vars => [Task!Next]_<<Phase, Texts>>
  BY TaskStep
<1> QED
  BY TaskInit, TaskInvInit, TaskInvStep, <1>1, PTL DEF Spec, ImplementsTaskDelivery, Task!Spec

----------------------------------------------------------------------------
(* The lease is a lock.                                                      *)

\* Between Acquire and release, p is alone, under a lease that is its own.
LEMMA Alone ==
  ASSUME UseLease, SafetyInv, NEW p \in Procs, pc[p] \in Holding
  PROVE  Holders = {p} /\ lease = p /\ ~IsStale
BY Exclusion DEF SafetyInv, IInv, Holders, IsStale

\* p stops holding the lease, having removed the file or not.
LEMMA Leaves ==
  ASSUME UseLease, SafetyInv, NEW p \in Procs, pc[p] \in Holding,
         pc'[p] \notin Holding, \A q \in Procs \ {p} : pc'[q] = pc[q],
         lease' \in {NoProc, lease}
  PROVE  Lock!Give(p) \/ Lock!Lose(p)
<1>1. Holders = {p} /\ lease = p /\ ~IsStale
  BY Alone
<1>2. Holders' = {}
  BY <1>1 DEF Holders
<1>3. IsStale' \in BOOLEAN /\ (IsStale' <=> lease' # NoProc)
  BY <1>1 DEF IsStale
<1>4. CASE lease' = NoProc
  BY <1>1, <1>2, <1>3, <1>4 DEF Lock!Give, IsStale
<1>5. CASE lease' = lease
  <2>1. lease # NoProc
    BY <1>1, ProcsAssumption
  <2> QED
    BY <1>1, <1>2, <1>3, <1>5, <2>1 DEF Lock!Lose
<1> QED
  BY <1>4, <1>5

\* A step after which the same processes hold the lease, and the file is the same.
LEMMA SameHolders ==
  ASSUME TypeInv, \A q \in Procs : pc'[q] \in Holding <=> pc[q] \in Holding, lease' = lease
  PROVE  UNCHANGED <<Holders, IsStale>>
<1>1. Holders' = Holders
  BY DEF Holders
<1>2. lease = NoProc \/ lease \in Procs
  BY DEF TypeInv, TypeOK
<1>3. IsStale' = IsStale
  BY <1>2 DEF IsStale
<1> QED
  BY <1>1, <1>3

LEMMA LeaseRefines ==
  ASSUME UseLease, SafetyInv, NEW p \in Procs, Acquire(p) \/ Release(p) \/ Crash(p)
  PROVE  [Lock!Next]_<<Holders, IsStale>>
<1> USE DEF SafetyInv
<1>1. pc \in [Procs -> PCs] /\ lease \in Procs \cup {NoProc} /\ TypeInv
  BY DEF TypeInv, TypeOK
<1>2. CASE Acquire(p) /\ lease = NoProc /\ lease' = p /\ Go(p, "load")
  <2>1. \A q \in Procs : pc[q] \notin Holding
    BY <1>2, ProcsAssumption DEF IInv
  <2>2. Holders = {} /\ ~IsStale
    BY <1>2, <2>1 DEF Holders, IsStale
  <2>3. pc'[p] = "load" /\ \A q \in Procs \ {p} : pc'[q] = pc[q]
    BY <1>1, <1>2 DEF Go
  <2>4. Holders' = {p} /\ ~IsStale'
    BY <1>2, <2>1, <2>3 DEF Holders, IsStale, Holding
  <2>5. IsStale' = IsStale
    BY <2>2, <2>4 DEF IsStale
  <2>6. Lock!Take(p)
    BY <2>2, <2>4, <2>5, Zenon DEF Lock!Take
  <2> QED
    BY <2>6 DEF Lock!Next
<1>3. CASE Acquire(p) /\ Go(p, "returned") /\ lease' = lease
  BY <1>1, <1>3, SameHolders DEF Acquire, At, Go, Holding, StepPCs, CancelPCs
<1>4. CASE Release(p)
  <2>1. pc[p] \in Holding /\ pc'[p] \notin Holding /\ \A q \in Procs \ {p} : pc'[q] = pc[q]
    BY <1>1, <1>4 DEF Release, At, Go, Holding, StepPCs, CancelPCs
  <2>2. lease' \in {NoProc, lease}
    BY <1>4 DEF Release
  <2> QED
    BY <2>1, <2>2, Leaves DEF Lock!Next
<1>5. CASE Crash(p)
  <2>1. pc'[p] \notin Holding /\ \A q \in Procs \ {p} : pc'[q] = pc[q]
    BY <1>1, <1>5 DEF Crash, Proceed, Go, Holding, StepPCs, CancelPCs
  <2>2. lease' = lease
    BY <1>5 DEF Crash
  <2>3. CASE pc[p] \in Holding
    BY <2>1, <2>2, <2>3, Leaves DEF Lock!Next
  <2>4. CASE pc[p] \notin Holding
    BY <1>1, <2>1, <2>2, <2>4, SameHolders
  <2> QED
    BY <2>3, <2>4
<1> QED
  BY <1>2, <1>3, <1>4, <1>5 DEF Acquire, LeaseGranted

LEMMA LockStep ==
  ASSUME UseLease, SafetyInv, [Next]_vars
  PROVE  [Lock!Next]_<<Holders, IsStale>>
<1>1. pc \in [Procs -> PCs] /\ lease \in Procs \cup {NoProc} /\ TypeInv
  BY DEF SafetyInv, TypeInv, TypeOK
<1>2. CASE \E p \in Procs : Acquire(p) \/ Release(p) \/ Crash(p)
  BY <1>2, LeaseRefines
<1>3. ASSUME NEW p \in Procs, Start(p) \/ Loop(p) \/ Return(p)
      PROVE  UNCHANGED <<Holders, IsStale>>
  <2>1. PICK label : label \notin Holding /\ Proceed(p, label, NoCp)
    BY <1>3 DEF Start, Loop, Return, ExitCode, RunnerResult, Holding, StepPCs, CancelPCs
  <2>2. pc[p] \notin Holding /\ lease' = lease
    BY <1>3 DEF Start, Loop, Return, At, Down, Holding, StepPCs, CancelPCs
  <2> QED
    BY <1>1, <2>1, <2>2, SameHolders DEF Proceed, Go
<1>4. ASSUME NEW p \in Procs,
             \/ Load(p) \/ Save(p) \/ Artifact(p) \/ Observe(p) \/ Recover(p)
             \/ Preflight(p) \/ WriteAhead(p) \/ Send(p) \/ CancelStep(p)
      PROVE  UNCHANGED <<Holders, IsStale>>
  <2>1. pc[p] \in Holding /\ lease' = lease
    BY <1>4 DEF Load, Save, Artifact, Observe, Recover, Preflight, WriteAhead, Send, CancelStep,
           CancelLoad, CancelSave, CancelRecover, CancelObserve, CancelCheck, CancelInterrupt,
           At, Holding, StepPCs, CancelPCs
  <2>2. \E label \in Holding : \E c : Proceed(p, label, c)
    BY <1>4 DEF Load, Save, Artifact, Observe, Dispatch, Recover, Preflight, WriteAhead, Send,
           CancelStep, CancelLoad, CancelSave, CancelRecover, CancelObserve, CancelCheck,
           CancelInterrupt, Finish, Leave, Holding, StepPCs, CancelPCs
  <2> QED
    BY <1>1, <2>1, <2>2, SameHolders DEF Proceed, Go
<1>5. CASE RemoveStaleLease
  <2>1. Holders' = Holders /\ IsStale /\ ~IsStale'
    BY <1>5, ProcsAssumption DEF RemoveStaleLease, procVars, Holders, IsStale
  <2> QED
    BY <2>1, Zenon DEF Lock!Next, Lock!Clear, IsStale
<1>6. CASE (\E p \in Procs : ContextDone(p)) \/ DeadlinePasses \/ AOStep \/ UNCHANGED vars
  BY <1>1, <1>6, SameHolders DEF ContextDone, DeadlinePasses, AOStep, vars, procVars
<1> QED
  BY <1>2, <1>3, <1>4, <1>5, <1>6 DEF Next, ProcStep, RunStep

\* LeaseIsALock: acquire, release, crashes and the clearing of stale leases by the operator
\* are a lock, for any number of processes.
THEOREM LeaseImplementsRunLock == ASSUME UseLease PROVE Spec => LeaseIsALock
<1>1. Init => Lock!Init
  BY DEF Init, Lock!Init, Holders, IsStale, Holding, StepPCs, CancelPCs
<1>2. SafetyInv /\ [Next]_vars => [Lock!Next]_<<Holders, IsStale>>
  BY LockStep
<1>3. Exclusive
  BY DEF Exclusive
<1> QED
  BY <1>1, <1>2, <1>3, SafetyInit, SafetyStep, PTL DEF Spec, LeaseIsALock, Lock!Spec

----------------------------------------------------------------------------
(* What the two abstract specifications are good for.                        *)

\* One copy of the text at a time; nothing is at work while the task is open, and after
\* a confirmed cancellation; what is delivered was emitted, and what is completed ended.
TaskPromise ==
  /\ Phase \in Task!Phases /\ Texts \in [Turns -> {"none", "active", "ended"}]
  /\ \A s, t \in Turns : Texts[s] # "none" /\ Texts[t] # "none" => s = t
  /\ Phase = "open" => Task!Unsent
  /\ Phase = "cancelled" => Task!Quiet
  /\ Phase = "completed" => \E t \in Turns : Texts[t] = "ended"

LEMMA TaskPromiseStep ==
  ASSUME TaskPromise, [Task!Next]_<<Phase, Texts>>
  PROVE  TaskPromise'
<1> USE DEF Task!Phases, Task!Decided, Task!Unsent, Task!Quiet
<1>1. CASE UNCHANGED <<Phase, Texts>>
  BY <1>1 DEF TaskPromise
<1>2. CASE \E t \in Turns : Task!Emit(t)
  BY <1>2 DEF TaskPromise, Task!Emit
<1>3. CASE \E t \in Turns : Task!Leaves(t)
  BY <1>3 DEF TaskPromise, Task!Leaves
<1>4. CASE Task!Commit \/ Task!Withdraw \/ Task!Adopt \/ Task!Stop
  BY <1>4 DEF TaskPromise, Task!Commit, Task!Withdraw, Task!Adopt, Task!Stop
<1>5. CASE Task!Complete \/ Task!Cancel \/ Task!Block
  BY <1>5 DEF TaskPromise, Task!Complete, Task!Cancel, Task!Block
<1> QED
  BY <1>1, <1>2, <1>3, <1>4, <1>5 DEF Task!Next

TaskDecisionsStand == [][(Phase \in Task!Decided) => Phase' = Phase]_<<Phase, Texts>>

\* Whatever implements TaskDelivery keeps the text single, claims nothing of it that is not
\* so, and takes no decision back (what recovery promises for one task).
THEOREM TaskDeliveryPromises == Task!Spec => []TaskPromise /\ TaskDecisionsStand
<1>1. Task!Init => TaskPromise
  BY DEF Task!Init, TaskPromise, Task!Phases, Task!Unsent
<1>2. TaskPromise /\ [Task!Next]_<<Phase, Texts>>
        => [(Phase \in Task!Decided) => Phase' = Phase]_<<Phase, Texts>>
  <2>1. ASSUME Task!Next, Phase \in Task!Decided PROVE Phase' = Phase
    BY <2>1
    DEF Task!Next, Task!Commit, Task!Withdraw, Task!Adopt, Task!Stop, Task!Complete, Task!Cancel,
        Task!Block, Task!Emit, Task!Leaves, Task!Decided
  <2> QED
    BY <2>1
<1> QED
  BY <1>1, <1>2, TaskPromiseStep, PTL DEF Task!Spec, TaskDecisionsStand

\* Through the refinement, the processes, the lease, the file and AO keep those promises.
THEOREM RecoveryKeepsPromises ==
  ASSUME Exclusive, Contract # "any"
  PROVE  Spec => []TaskPromise /\ TaskDecisionsStand
BY RecoveryIsTaskDelivery, TaskDeliveryPromises, PTL DEF ImplementsTaskDelivery

\* At most one process is inside the lock, and while a lease is stale nobody is.
LockPromise ==
  /\ IsStale \in BOOLEAN
  /\ Holders = {} \/ \E p \in Procs : Holders = {p}
  /\ IsStale => Holders = {}

\* Whatever implements RunLock excludes, and a lease without its process keeps all out
\* (the O_EXCL lease file of FileLease).
THEOREM RunLockPromises == Lock!Spec => []LockPromise
<1>1. Lock!Init => LockPromise
  BY DEF Lock!Init, LockPromise
<1>2. ASSUME LockPromise, [Lock!Next]_<<Holders, IsStale>> PROVE LockPromise'
  <2>1. CASE UNCHANGED <<Holders, IsStale>>
    BY <1>2, <2>1 DEF LockPromise
  <2>2. CASE \E p \in Procs : Lock!Take(p) \/ Lock!Give(p) \/ Lock!Lose(p)
    <3>1. PICK p \in Procs : Lock!Take(p) \/ Lock!Give(p) \/ Lock!Lose(p)
      BY <2>2
    <3>2. CASE Lock!Take(p)
      BY <1>2, <3>2, Zenon DEF LockPromise, Lock!Take
    <3>3. CASE Lock!Give(p) \/ Lock!Lose(p)
      BY <1>2, <3>3, Zenon DEF LockPromise, Lock!Give, Lock!Lose
    <3> QED
      BY <3>1, <3>2, <3>3
  <2>3. CASE Lock!Clear \/ Lock!Appear
    BY <1>2, <2>3, Zenon DEF LockPromise, Lock!Clear, Lock!Appear
  <2> QED
    BY <1>2, <2>1, <2>2, <2>3 DEF Lock!Next
<1> QED
  BY <1>1, <1>2, PTL DEF Lock!Spec

=============================================================================
