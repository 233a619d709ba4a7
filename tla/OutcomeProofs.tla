------------------------------ MODULE OutcomeProofs ------------------------------
(***************************************************************************)
(* Proofs that a checkpoint says nothing of AO that is not so, and that    *)
(* the POSTs stay within the budget, for every number of processes, POSTs, *)
(* retries and faults.  What a checkpoint claims rests on the replies of   *)
(* AO, so that the claims need an AO that tells the truth.                 *)
(***************************************************************************)
EXTENDS DispatcherProofs, FiniteSetTheorems

AllQuiet == \A t \in Turns : posts[t] \notin {"wire", "steered", "live", "odd"}

\* What checkpoint c claims of AO is so.
Truth(c) ==
  /\ c.turn # NoTurn => HasTurn(c.turn)
  /\ c.state = "DELIVERED" => c.turn # NoTurn
  /\ c.state = "CANCELLED" => AllQuiet
  /\ c.state = "COMPLETED" => c.turn # NoTurn /\ posts[c.turn] = "good"

\* True of the file, and of every checkpoint that a process can still save.
OutcomeInv ==
  /\ SafetyInv
  /\ Truth(disk)
  /\ \A p \in Procs : pc[p] \in Working => Truth(cp[p])

\* How an update that claims nothing new keeps what is true.
LEMMA SilentUpdate ==
  ASSUME NEW c \in Checkpoints, Truth(c), NEW d \in Checkpoints, d.turn = c.turn,
         d.state \in {c.state, "PENDING", "WAITING_RETRY", "DELIVERY_UNCERTAIN",
                      "CANCEL_UNCONFIRMED", "BLOCKED"}
  PROVE  Truth(d)
BY DEF Truth

LEMMA UpdateTurns ==
  ASSUME NEW c \in Checkpoints
  PROVE  /\ CountAttempt(c).turn = c.turn
         /\ Block(c).turn = c.turn
         /\ Cancelled(c).turn = c.turn
         /\ CancelUnconfirmed(c).turn = c.turn
         /\ ScheduleReconciliation(c).turn = c.turn
         /\ ReconcileLater(c).turn = c.turn
         /\ ScheduleSendRetry(c).turn = c.turn
         /\ WriteAheadOf(c).turn = c.turn
         /\ ObserveFailed(c).turn = c.turn
         /\ \A t \in Turns \cup {NoTurn} : Delivered(c, t).turn = t
         /\ \A r : AcceptReceipt(c, r).turn = c.turn
         /\ \A obs : SettleCancel(c, obs).turn = c.turn
<1> USE DEF Checkpoints
<1>1. CountAttempt(c) \in Checkpoints /\ CountAttempt(c).turn = c.turn
  BY UpdateTypes DEF CountAttempt
<1>2. Block(c).turn = c.turn
  BY DEF Block
<1>3. Cancelled(c).turn = c.turn /\ CancelUnconfirmed(c).turn = c.turn
  BY DEF Cancelled, CancelUnconfirmed
<1>4. ASSUME NEW d \in Checkpoints
      PROVE  /\ ScheduleReconciliation(d).turn = d.turn
             /\ ReconcileLater(d).turn = d.turn
             /\ ScheduleSendRetry(d).turn = d.turn
  BY DEF ScheduleReconciliation, ReconcileLater, ScheduleSendRetry, Block
<1>5. WriteAheadOf(c).turn = c.turn
  BY <1>1 DEF WriteAheadOf
<1>6. ObserveFailed(c).turn = c.turn
  BY <1>1, <1>4 DEF ObserveFailed
<1>7. \A t \in Turns \cup {NoTurn} : Delivered(c, t).turn = t
  BY DEF Delivered
<1>8. \A r : AcceptReceipt(c, r).turn = c.turn
  BY <1>2 DEF AcceptReceipt
<1>9. \A obs : SettleCancel(c, obs).turn = c.turn
  BY <1>8 DEF SettleCancel
<1> QED
  BY <1>1, <1>2, <1>3, <1>4, <1>5, <1>6, <1>7, <1>8, <1>9

\* The updates that claim nothing new.
LEMMA UpdateTruth ==
  ASSUME NEW c \in Checkpoints, Truth(c)
  PROVE  /\ Truth(Block(c))
         /\ Truth(CancelUnconfirmed(c))
         /\ Truth(CountAttempt(c))
         /\ Truth(ScheduleReconciliation(c))
         /\ Truth(ReconcileLater(c))
         /\ Truth(ScheduleSendRetry(c))
         /\ Truth(WriteAheadOf(c))
         /\ AllQuiet => Truth(Cancelled(c))
         /\ \A t \in Turns : HasTurn(t) => Truth(Delivered(c, t))
<1>1. ASSUME NEW t \in Turns, HasTurn(t)
      PROVE  Truth(Delivered(c, t))
  <2>1. Delivered(c, t).turn = t /\ Delivered(c, t).state = "DELIVERED"
    BY UpdateStates, UpdateTurns
  <2> QED
    BY <1>1, <2>1, NoTurnAssumption DEF Truth
<1>2. AllQuiet => Truth(Cancelled(c))
  <2>1. Cancelled(c).turn = c.turn /\ Cancelled(c).state = "CANCELLED"
    BY UpdateStates, UpdateTurns
  <2> QED
    BY <2>1 DEF Truth
<1>3. /\ Truth(Block(c)) /\ Truth(CancelUnconfirmed(c)) /\ Truth(CountAttempt(c))
      /\ Truth(ReconcileLater(c)) /\ Truth(ScheduleSendRetry(c)) /\ Truth(WriteAheadOf(c))
      /\ Truth(ScheduleReconciliation(c))
  BY UpdateTypes, UpdateStates, UpdateTurns, SilentUpdate
<1> QED
  BY <1>1, <1>2, <1>3

LEMMA ObserveFailedTruth ==
  ASSUME NEW c \in Checkpoints, Truth(c)
  PROVE  Truth(ObserveFailed(c))
<1>1. CountAttempt(c) \in Checkpoints /\ Truth(CountAttempt(c))
  BY UpdateTypes, UpdateTruth
<1> QED
  BY <1>1, UpdateTruth DEF ObserveFailed

----------------------------------------------------------------------------
(* What the replies of AO say. *)

\* A turn that AO says has been stopped was the only one of the task.
LEMMA OneTurn ==
  ASSUME AtMostOnce, NEW t \in Turns, posts[t] \in Ended
  PROVE  AllQuiet
BY DEF AtMostOnce, Possible, Ended, AllQuiet

\* An observation is about the turn that was asked for.
LEMMA ObserveTells ==
  ASSUME Contract # "any", NEW p \in Procs, NEW turn \in Turns \cup {NoTurn},
         turn # NoTurn => HasTurn(turn),
         NEW obs \in Answers(p, ObserveReplies(turn), ObsError)
  PROVE  /\ obs.delivery \in {"ACCEPTED", "COMPLETED", "REJECTED", "STOPPED"} => turn # NoTurn
         /\ obs.delivery \in {"COMPLETED", "STOPPED"} => posts[turn] \in Ended
         /\ obs.delivery = "COMPLETED" /\ obs.receipt = "verified" => posts[turn] = "good"
         /\ obs.receipt = "verified" => obs.delivery = "COMPLETED"
         /\ obs.delivery = "HUMAN_STOPPED" => AllQuiet
         /\ obs.delivery = "RESERVED" => \E t \in Turns : posts[t] = "wire"
<1>1. CASE obs = ObsError
  BY <1>1 DEF ObsError, Obs
<1>2. CASE obs = Obs("NO_SESSION", "none")
  BY <1>2 DEF Obs
<1>3. CASE obs \in ContractObs
  <2>1. PICK d \in {"HUMAN_STOPPED", "RESERVED", "UNKNOWN"} :
          MaySay(d) /\ obs.delivery = d /\ obs.receipt = "none"
    BY <1>3 DEF ContractObs, Obs
  <2> QED
    BY <2>1 DEF MaySay, AllQuiet
<1>4. CASE turn = NoTurn /\ obs = Obs("NOT_FOUND", "none")
  BY <1>4 DEF Obs
<1>5. CASE turn # NoTurn /\ obs = ObsOfTurn(posts[turn])
  BY <1>5 DEF ObsOfTurn, Obs, HasTurn, TurnStates, Ended
<1> QED
  BY <1>1, <1>2, <1>3, <1>4, <1>5 DEF Answers, ObserveReplies, NetworkError

\* Recover-only finds turns of this task.
LEMMA RecoverTells ==
  ASSUME Contract # "any", NEW p \in Procs, NEW r \in Answers(p, RecoverReplies, RecoverError)
  PROVE  /\ r.turn # NoTurn => r.turn \in Turns /\ HasTurn(r.turn)
         /\ r.outcome = "sent" /\ r.state \in {"ACCEPTED", "COMPLETED"} =>
              r.turn \in Turns /\ HasTurn(r.turn)
<1>1. CASE r = RecoverError
  BY <1>1 DEF RecoverError, Receipt
<1>2. CASE r \in FoundByRecover
  BY <1>2 DEF FoundByRecover, Receipt
<1>3. CASE r = Receipt("sent", "NOT_FOUND", NoTurn)
  BY <1>3 DEF Receipt
<1> QED
  BY <1>1, <1>2, <1>3 DEF Answers, RecoverReplies, NetworkError

\* "sent" is said of a turn that runs.
LEMMA SendTells ==
  ASSUME NEW p \in Procs, NEW o \in Answers(p, SendOutcomes, Outcome("error", "void")),
         o.reply = "sent"
  PROVE  o.fate = "live"
BY DEF Answers, SendOutcomes, Outcome, AcceptedAs

----------------------------------------------------------------------------
(* Steps.                                                                    *)

\* What AO may do to the POSTs takes back nothing that a checkpoint claims.
Grows ==
  /\ \A t \in Turns : /\ HasTurn(t) => HasTurn(t)'
                      /\ posts[t] = "good" => posts'[t] = "good"
  /\ AllQuiet => AllQuiet'

LEMMA TruthStays ==
  ASSUME NEW c \in Checkpoints, Truth(c), Grows
  PROVE  Truth(c)'
BY DEF Truth, Grows, Checkpoints

\* While p holds the lease nobody else has anything to save.
LEMMA HolderOutcome ==
  ASSUME OutcomeInv, SafetyInv', NEW p \in Procs, pc[p] \in Holding,
         \A q \in Procs \ {p} : pc'[q] = pc[q],
         Truth(disk)', pc'[p] \in Working => Truth(cp[p])'
  PROVE  OutcomeInv'
<1>1. ASSUME NEW q \in Procs, q # p
      PROVE  pc'[q] \notin Working
  BY <1>1, Exclusion DEF OutcomeInv, SafetyInv, Working
<1> QED
  BY <1>1 DEF OutcomeInv

\* p moves on, and neither the file nor AO changes.
LEMMA QuietOutcome ==
  ASSUME OutcomeInv, SafetyInv', NEW p \in Procs, pc[p] \in Holding,
         NEW label, NEW c, Proceed(p, label, c), label \in Working => Truth(c),
         UNCHANGED <<disk, posts>>
  PROVE  OutcomeInv'
<1>1. pc'[p] = label /\ cp'[p] = c /\ \A q \in Procs \ {p} : pc'[q] = pc[q]
  BY Moved DEF OutcomeInv, SafetyInv
<1>2. Truth(disk)' /\ (label \in Working => Truth(cp[p])')
  BY <1>1 DEF OutcomeInv, Truth, HasTurn, AllQuiet
<1> QED
  BY <1>1, <1>2, HolderOutcome

LEMMA LoadOutcome ==
  ASSUME OutcomeInv, SafetyInv', NEW p \in Procs, Load(p) \/ CancelLoad(p)
  PROVE  OutcomeInv'
<1>1. /\ disk \in Checkpoints /\ Truth(disk) /\ pc[p] = "load"
      /\ pc[p] \in Holding /\ UNCHANGED <<disk, posts>>
  BY DEF OutcomeInv, SafetyInv, TypeInv, TypeOK, Load, CancelLoad, At, aoVars, Holding
<1>2. disk.state \in BeforeSend => AllQuiet
  BY DEF OutcomeInv, SafetyInv, IInv, ResendableMeansUnsent, Clear, Possible, AllQuiet
<1>3. "release" \notin Working
  BY DEF Working
<1>4. \E label, c : Proceed(p, label, c) /\ (label \in Working => Truth(c))
  <2>1. CASE Leave(p)
    BY <1>3, <2>1 DEF Leave
  <2>2. CASE ~Leave(p) /\ Load(p)
    BY <1>1, <2>2 DEF Load, Finish
  <2>3. CASE ~Leave(p) /\ CancelLoad(p)
    <3>1. Truth(CancelUnconfirmed(disk))
      BY <1>1, UpdateTruth
    <3>2. disk.state \in BeforeSend => Truth(Cancelled(disk))
      BY <1>1, <1>2, UpdateTruth
    <3> QED
      BY <1>1, <2>3, <3>1, <3>2 DEF CancelLoad, Finish
  <2> QED
    BY <2>1, <2>2, <2>3
<1> QED
  BY <1>1, <1>4, QuietOutcome

LEMMA SaveOutcome ==
  ASSUME OutcomeInv, SafetyInv', NEW p \in Procs, Save(p) \/ WriteAhead(p) \/ CancelSave(p)
  PROVE  OutcomeInv'
<1>1. pc[p] \in Working /\ pc[p] \in Holding /\ posts' = posts
  BY DEF Save, WriteAhead, CancelSave, At, aoVars, Working, Holding, StepPCs, CancelPCs
<1>2. Truth(cp[p]) /\ Truth(disk)
  BY <1>1 DEF OutcomeInv
<1>3. disk' = disk \/ disk' = cp[p]
  BY DEF Save, WriteAhead, CancelSave, Saved, SaveFailed
<1>4. cp'[p] = cp[p] /\ \A q \in Procs \ {p} : pc'[q] = pc[q]
  BY Moved DEF OutcomeInv, SafetyInv, Save, WriteAhead, CancelSave, Leave
<1>5. Truth(disk)' /\ Truth(cp[p])'
  BY <1>1, <1>2, <1>3, <1>4 DEF Truth, HasTurn, AllQuiet
<1> QED
  BY <1>1, <1>4, <1>5, HolderOutcome

LEMMA DispatchOutcome ==
  ASSUME Contract # "any", AtMostOnce, NEW p \in Procs, cp[p] \in Checkpoints, Truth(cp[p]),
         NEW obs \in Answers(p, ObserveReplies(cp[p].turn), ObsError), Dispatch(p, obs)
  PROVE  \E label, c : Proceed(p, label, c) /\ Truth(c)
<1> DEFINE c == cp[p]
<1>1. c.turn \in Turns \cup {NoTurn} /\ (c.turn # NoTurn => HasTurn(c.turn))
  BY DEF Checkpoints, Truth
<1>2. /\ obs.delivery \in {"ACCEPTED", "COMPLETED", "STOPPED"} =>
           c.turn \in Turns /\ HasTurn(c.turn)
      /\ obs.delivery = "STOPPED" => AllQuiet
      /\ obs.delivery = "COMPLETED" /\ obs.receipt = "verified" => posts[c.turn] = "good"
  BY <1>1, ObserveTells, OneTurn
<1>3. Truth(Block(c))
  BY UpdateTruth
<1>4. CASE obs.delivery = "COMPLETED"
  <2>1. obs.receipt = "verified" =>
          /\ AcceptReceipt(c, obs.receipt).state = "COMPLETED"
          /\ AcceptReceipt(c, obs.receipt).turn = c.turn
    BY DEF AcceptReceipt, Checkpoints
  <2>2. c.turn # NoTurn
    BY <1>2, <1>4, NoTurnAssumption
  <2>3. Truth(AcceptReceipt(c, obs.receipt))
    <3>1. CASE obs.receipt = "verified"
      BY <1>2, <1>4, <2>1, <2>2, <3>1 DEF Truth
    <3>2. CASE obs.receipt # "verified"
      BY <1>3, <3>2 DEF AcceptReceipt
    <3> QED
      BY <3>1, <3>2
  <2> QED
    BY <1>4, <2>3 DEF Dispatch, Finish
<1>5. CASE obs.delivery = "ACCEPTED"
  <2>1. Truth(Delivered(c, c.turn))
    BY <1>2, <1>5, UpdateTruth
  <2> QED
    BY <1>5, <2>1 DEF Dispatch, Finish
<1>6. CASE obs.delivery = "STOPPED"
  <2>1. Truth(Cancelled(c))
    BY <1>2, <1>6, UpdateTruth
  <2> QED
    BY <1>6, <2>1 DEF Dispatch, Finish
<1>7. CASE obs.delivery \notin {"COMPLETED", "ACCEPTED", "STOPPED"}
  BY <1>3, <1>7 DEF Dispatch, Finish, Leave
<1> QED
  BY <1>4, <1>5, <1>6, <1>7

LEMMA StepOutcome ==
  ASSUME Contract # "any", OutcomeInv, SafetyInv', NEW p \in Procs,
         Artifact(p) \/ Observe(p) \/ Recover(p) \/ Preflight(p)
  PROVE  OutcomeInv'
<1> DEFINE c == cp[p]
<1>1. /\ pc[p] \in Holding /\ pc[p] \in Working
      /\ UNCHANGED <<disk, posts>>
  BY DEF Artifact, Observe, Recover, Preflight, At, aoVars, Holding, Working, StepPCs
<1>2. c \in Checkpoints /\ Truth(c) /\ AtMostOnce
  BY <1>1, WorkingCheckpoint DEF OutcomeInv, SafetyInv, IInv
<1>3. Truth(Block(c)) /\ Truth(WriteAheadOf(c)) /\ Truth(ObserveFailed(c))
  BY <1>2, UpdateTruth, ObserveFailedTruth
<1>4. \E label, d : Proceed(p, label, d) /\ Truth(d)
  <2>1. CASE Artifact(p)
    BY <1>2, <1>3, <2>1 DEF Artifact, Finish
  <2>2. CASE Observe(p)
    <3>1. c.turn \in Turns \cup {NoTurn} /\ (c.turn # NoTurn => HasTurn(c.turn))
      BY <1>2 DEF Checkpoints, Truth
    <3>2. PICK obs \in Answers(p, ObserveReplies(c.turn), ObsError) :
            \/ Finish(p, ObserveFailed(c)) \/ Finish(p, Block(c))
            \/ obs.delivery = "HUMAN_STOPPED" /\ Finish(p, Cancelled(c))
            \/ Proceed(p, "recover", c) \/ Dispatch(p, obs)
      BY <2>2 DEF Observe
    <3>3. obs.delivery = "HUMAN_STOPPED" => Truth(Cancelled(c))
      BY <1>2, <3>1, ObserveTells, UpdateTruth
    <3> QED
      BY <1>2, <1>3, <3>2, <3>3, DispatchOutcome DEF Finish
  <2>3. CASE Recover(p)
    <3>1. PICK r \in Answers(p, RecoverReplies, RecoverError) : Finish(p, AfterRecover(c, r))
      BY <2>3 DEF Recover
    <3>2. CountAttempt(c) \in Checkpoints /\ Truth(CountAttempt(c))
      BY <1>2, UpdateTypes, UpdateTruth
    <3>3. Truth(ReconcileLater(CountAttempt(c)))
      BY <3>2, UpdateTruth
    <3>4. r.outcome = "sent" /\ r.state \in {"ACCEPTED", "COMPLETED"} => Truth(Delivered(c, r.turn))
      BY <1>2, RecoverTells, UpdateTruth
    <3>5. Truth(AfterRecover(c, r))
      BY <1>3, <3>3, <3>4 DEF AfterRecover
    <3> QED
      BY <3>1, <3>5 DEF Finish
  <2>4. CASE Preflight(p)
    BY <1>3, <2>4 DEF Preflight, Finish
  <2> QED
    BY <2>1, <2>2, <2>3, <2>4
<1> QED
  BY <1>1, <1>4, QuietOutcome

LEMMA CancelOutcome ==
  ASSUME Contract # "any", OutcomeInv, SafetyInv', NEW p \in Procs,
         CancelRecover(p) \/ CancelObserve(p) \/ CancelCheck(p)
  PROVE  OutcomeInv'
<1> DEFINE c == cp[p]
<1>1. /\ pc[p] \in Holding /\ pc[p] \in Working /\ pc[p] \in CancelPCs
      /\ UNCHANGED <<disk, posts>>
  BY DEF CancelRecover, CancelObserve, CancelCheck, At, aoVars, Holding, Working, CancelPCs
<1>2. c \in Checkpoints /\ Truth(c) /\ AtMostOnce /\ c.state = "CANCEL_UNCONFIRMED"
  BY <1>1, WorkingCheckpoint DEF OutcomeInv, SafetyInv, IInv, Fits
<1>3. \E label, d : Proceed(p, label, d) /\ (label \in Working => Truth(d))
  <2>1. CASE CancelRecover(p)
    <3>1. PICK r \in Answers(p, RecoverReplies, RecoverError) :
            \/ r.turn # NoTurn /\ Proceed(p, "c_saveTurn", [c EXCEPT !.turn = r.turn])
            \/ Leave(p)
      BY <2>1 DEF CancelRecover
    <3>2. r.turn # NoTurn => Truth([c EXCEPT !.turn = r.turn])
      BY <1>2, RecoverTells DEF Truth, Checkpoints
    <3> QED
      BY <3>1, <3>2 DEF Leave, Working
  <2>2. CASE CancelObserve(p)
    <3>1. c.turn \in Turns \cup {NoTurn} /\ (c.turn # NoTurn => HasTurn(c.turn))
      BY <1>2 DEF Checkpoints, Truth
    <3>2. PICK obs \in Answers(p, ObserveReplies(c.turn), ObsError) :
            \/ Settles(obs.delivery) /\ Finish(p, SettleCancel(c, obs))
            \/ Proceed(p, "c_check", c) \/ Leave(p)
      BY <2>2 DEF CancelObserve
    <3>3. ASSUME Settles(obs.delivery) PROVE Truth(SettleCancel(c, obs))
      <4>1. /\ c.turn \in Turns /\ c.turn # NoTurn
            /\ obs.delivery = "STOPPED" => AllQuiet
            /\ obs.receipt = "verified" => posts[c.turn] = "good" /\ obs.delivery = "COMPLETED"
        BY <1>2, <3>1, <3>3, ObserveTells, OneTurn DEF Settles
      <4>2. /\ obs.delivery = "STOPPED" => SettleCancel(c, obs).state = "CANCELLED"
            /\ obs.delivery # "STOPPED" => SettleCancel(c, obs).state # "CANCELLED"
            /\ obs.receipt # "verified" => SettleCancel(c, obs).state # "COMPLETED"
            /\ SettleCancel(c, obs).state # "DELIVERED"
        <5>1. /\ [c EXCEPT !.state = "CANCELLED"].state = "CANCELLED"
              /\ [c EXCEPT !.state = "BLOCKED"].state = "BLOCKED"
              /\ [c EXCEPT !.state = "CANCEL_UNCONFIRMED", !.sideEffect = "PENDING"].state
                   = "CANCEL_UNCONFIRMED"
          BY <1>2 DEF Checkpoints
        <5>2. AcceptReceipt(c, obs.receipt).state \in {"COMPLETED", "BLOCKED"}
          BY <1>2, UpdateStates
        <5> QED
          BY <4>1, <5>1, <5>2 DEF SettleCancel
      <4>3. SettleCancel(c, obs).turn = c.turn
        BY <1>2, UpdateTurns
      <4> QED
        BY <3>1, <4>1, <4>2, <4>3 DEF Truth
    <3> QED
      BY <1>2, <3>2, <3>3 DEF Finish, Leave, Working
  <2>3. CASE CancelCheck(p)
    BY <1>2, <2>3 DEF CancelCheck
  <2> QED
    BY <2>1, <2>2, <2>3
<1> QED
  BY <1>1, <1>3, QuietOutcome

LEMMA SendOutcomeIsTrue ==
  ASSUME OutcomeInv, SafetyInv', NEW p \in Procs, Send(p)
  PROVE  OutcomeInv'
<1>1. pc[p] = "send" /\ disk' = disk
  BY DEF Send, At
<1>2. pc[p] \in Holding /\ pc[p] \in Working
  BY <1>1 DEF Holding, Working, StepPCs
<1>3. Fits("send", cp[p]) /\ Truth(cp[p]) /\ Truth(disk)
  BY <1>1, <1>2 DEF OutcomeInv, SafetyInv, IInv
<1>4. Clear /\ disk.state = "DELIVERY_UNCERTAIN" /\ cp[p].state = "DELIVERY_UNCERTAIN"
  BY <1>3 DEF Fits
<1>5. cp[p] \in Checkpoints /\ disk \in Checkpoints /\ posts \in [Turns -> PostStates]
  BY <1>2, WorkingCheckpoint DEF OutcomeInv, SafetyInv, TypeInv, TypeOK, AOTypeOK
<1>6. PICK t \in Turns, o \in Answers(p, SendOutcomes, Outcome("error", "void")) :
        /\ posts[t] = "unsent" /\ posts' = [posts EXCEPT ![t] = o.fate]
        /\ Finish(p, AfterSend(cp[p], o.reply, t))
  BY DEF Send
<1>7. \A u \in Turns : ~HasTurn(u)
  BY <1>4 DEF Clear, Possible, HasTurn, TurnStates, Ended
<1>8. cp[p].turn = NoTurn /\ disk.turn = NoTurn
  BY <1>3, <1>7, <1>5 DEF Truth, Checkpoints
<1>9. Truth(disk)'
  BY <1>1, <1>4, <1>8 DEF Truth
<1>10. pc'[p] = "save" /\ cp'[p] = AfterSend(cp[p], o.reply, t)
       /\ \A q \in Procs \ {p} : pc'[q] = pc[q]
  BY <1>6, Moved DEF Finish, OutcomeInv, SafetyInv
<1>11. Truth(cp[p])'
  <2>1. CASE o.reply = "sent"
    <3>1. HasTurn(t)'
      BY <1>5, <1>6, <2>1, SendTells DEF HasTurn, TurnStates
    <3>2. cp'[p].turn = t /\ cp'[p].state = "DELIVERED"
      BY <1>5, <1>10, <2>1, UpdateTurns, UpdateStates DEF AfterSend
    <3> QED
      BY <3>1, <3>2, NoTurnAssumption DEF Truth
  <2>2. CASE o.reply # "sent"
    <3>1. cp'[p] \in {Block(cp[p]), ScheduleSendRetry(cp[p]), ReconcileLater(cp[p])}
      BY <1>10, <2>2 DEF AfterSend
    <3>2. cp'[p].turn = NoTurn
      BY <1>5, <1>8, <3>1, UpdateTurns
    <3>3. cp'[p].state \in {"BLOCKED", "WAITING_RETRY", "DELIVERY_UNCERTAIN"}
      BY <1>5, <3>1, UpdateStates
    <3> QED
      BY <3>2, <3>3 DEF Truth
  <2> QED
    BY <2>1, <2>2
<1> QED
  BY <1>2, <1>9, <1>10, <1>11, HolderOutcome

LEMMA InterruptOutcome ==
  ASSUME OutcomeInv, SafetyInv', NEW p \in Procs, CancelInterrupt(p)
  PROVE  OutcomeInv'
<1>1. pc[p] \in Holding /\ pc[p] \in Working /\ disk' = disk
  BY DEF CancelInterrupt, At, Holding, Working, CancelPCs
<1>2. Grows
  BY DEF CancelInterrupt, Interrupted, Grows, AllQuiet, HasTurn, TurnStates, Ended,
         OutcomeInv, SafetyInv, TypeInv, TypeOK, AOTypeOK
<1>3. cp[p] \in Checkpoints /\ disk \in Checkpoints /\ Truth(cp[p]) /\ Truth(disk)
  BY <1>1, WorkingCheckpoint DEF OutcomeInv, SafetyInv, TypeInv, TypeOK
<1>4. cp'[p] = cp[p] /\ \A q \in Procs \ {p} : pc'[q] = pc[q]
  BY Moved DEF CancelInterrupt, OutcomeInv, SafetyInv
<1>5. Truth(disk)' /\ Truth(cp[p])'
  <2>1. \A c \in Checkpoints : Truth(c) => Truth(c)'
    BY <1>2, TruthStays
  <2> QED
    BY <1>1, <1>2, <1>3, <1>4 DEF Truth, Grows, Checkpoints
<1> QED
  BY <1>1, <1>4, <1>5, HolderOutcome

\* Outside the lease, and what happens to processes and to AO.
LEMMA OtherOutcome ==
  ASSUME OutcomeInv, SafetyInv',
         \/ \E p \in Procs : \/ Start(p) \/ Loop(p) \/ Return(p) \/ Acquire(p) \/ Release(p)
                             \/ Crash(p) \/ ContextDone(p)
         \/ RemoveStaleLease \/ DeadlinePasses \/ AOStep \/ UNCHANGED vars
  PROVE  OutcomeInv'
<1>1. /\ disk \in Checkpoints /\ disk'.state = disk.state /\ disk'.turn = disk.turn
      /\ posts \in [Turns -> PostStates]
  BY DEF Start, Loop, Return, Acquire, Release, Crash, ContextDone, RemoveStaleLease,
         DeadlinePasses, AOStep, vars, OutcomeInv, SafetyInv, TypeInv, TypeOK, Checkpoints,
         AOTypeOK
<1>2. Grows
  <2>1. posts' = posts \/ AOStep
    BY DEF Start, Loop, Return, Acquire, Release, Crash, ContextDone, RemoveStaleLease,
           DeadlinePasses, vars, aoVars
  <2>2. CASE posts' = posts
    BY <2>2 DEF Grows, HasTurn, AllQuiet
  <2>3. CASE AOStep
    BY <1>1, <2>3
    DEF AOStep, AONext, LateAccept, LateLoss, TurnEnds, TurnTurnsOdd, SessionLost, ForeignStarts,
        ForeignEnds, Grows, HasTurn, AllQuiet, TurnStates, Ended, AcceptedAs
  <2> QED
    BY <2>1, <2>2, <2>3
<1>3. Truth(disk)'
  BY <1>1, <1>2 DEF OutcomeInv, Truth, Grows, Checkpoints
<1>4. ASSUME NEW q \in Procs, pc'[q] \in Working
      PROVE  pc[q] = pc'[q] /\ cp'[q] = cp[q]
  BY <1>4 DEF Start, Loop, Return, Acquire, Release, Crash, ContextDone, RemoveStaleLease,
         DeadlinePasses, AOStep, vars, procVars, Proceed, Go, Keep, ExitCode, RunnerResult,
         Working, Holding, StepPCs, CancelPCs, OutcomeInv, SafetyInv, TypeInv, TypeOK
<1>5. ASSUME NEW q \in Procs, pc'[q] \in Working
      PROVE  Truth(cp[q])'
  <2>1. pc[q] \in Working /\ cp'[q] = cp[q] /\ cp[q] \in Checkpoints /\ Truth(cp[q])
    BY <1>4, <1>5, WorkingCheckpoint DEF OutcomeInv, SafetyInv
  <2> QED
    BY <1>2, <2>1 DEF Truth, Grows, Checkpoints
<1> QED
  BY <1>3, <1>5 DEF OutcomeInv

LEMMA OutcomeStep ==
  ASSUME Exclusive, Contract # "any", OutcomeInv, [Next]_vars
  PROVE  OutcomeInv'
<1>1. SafetyInv'
  BY SafetyStep DEF OutcomeInv
<1>2. ASSUME NEW p \in Procs, ProcStep(p) PROVE OutcomeInv'
  <2>1. CASE Start(p) \/ Loop(p) \/ Return(p) \/ Acquire(p) \/ Release(p)
    BY <1>1, <2>1, OtherOutcome
  <2>2. CASE Load(p) \/ CancelLoad(p)
    BY <1>1, <2>2, LoadOutcome
  <2>3. CASE Save(p) \/ WriteAhead(p) \/ CancelSave(p)
    BY <1>1, <2>3, SaveOutcome
  <2>4. CASE Artifact(p) \/ Observe(p) \/ Recover(p) \/ Preflight(p)
    BY <1>1, <2>4, StepOutcome
  <2>5. CASE CancelRecover(p) \/ CancelObserve(p) \/ CancelCheck(p)
    BY <1>1, <2>5, CancelOutcome
  <2>6. CASE Send(p)
    BY <1>1, <2>6, SendOutcomeIsTrue
  <2>7. CASE CancelInterrupt(p)
    BY <1>1, <2>7, InterruptOutcome
  <2> QED
    BY <1>2, <2>1, <2>2, <2>3, <2>4, <2>5, <2>6, <2>7 DEF ProcStep, RunStep, CancelStep
<1>3. CASE \/ \E p \in Procs : Crash(p) \/ ContextDone(p)
           \/ RemoveStaleLease \/ DeadlinePasses \/ AOStep \/ UNCHANGED vars
  BY <1>1, <1>3, OtherOutcome
<1> QED
  BY <1>2, <1>3 DEF Next

LEMMA OutcomeInit == Init => OutcomeInv
<1> SUFFICES ASSUME Init PROVE OutcomeInv
  OBVIOUS
<1>1. SafetyInv
  BY SafetyInit
<1>2. Truth(disk)
  BY DEF Init, NewTask, Truth
<1>3. \A p \in Procs : pc[p] \notin Working
  BY DEF Init, Working, Holding, StepPCs, CancelPCs
<1> QED
  BY <1>1, <1>2, <1>3 DEF OutcomeInv

LEMMA OutcomeAlways ==
  ASSUME Exclusive, Contract # "any"
  PROVE  Spec => []OutcomeInv
BY OutcomeInit, OutcomeStep, PTL DEF Spec

----------------------------------------------------------------------------

\* CancelledIsQuiet: a cancellation is confirmed in the file only when nothing of the
\* task is at work in AO, or can still get there, as long as AO tells the truth.
THEOREM ConfirmedStop ==
  ASSUME Exclusive, Contract # "any"
  PROVE  Spec => []CancelledIsQuiet
<1>1. OutcomeInv => CancelledIsQuiet
  BY DEF OutcomeInv, Truth, AllQuiet, CancelledIsQuiet
<1> QED
  BY OutcomeAlways, <1>1, PTL

\* SteeredIsQuarantined: text that was steered into another turn leaves the task
\* uncertain, stopping or blocked.
THEOREM Quarantine ==
  ASSUME Exclusive, Contract # "any"
  PROVE  Spec => []SteeredIsQuarantined
<1>1. ASSUME OutcomeInv, NEW t \in Turns, posts[t] = "steered"
      PROVE  disk.state \in {"DELIVERY_UNCERTAIN", "CANCEL_UNCONFIRMED", "BLOCKED"}
  <2>1. disk \in Checkpoints /\ Possible(t) /\ ~Clear /\ ~AllQuiet
    BY <1>1 DEF OutcomeInv, SafetyInv, TypeInv, TypeOK, Possible, Clear, AllQuiet
  <2>2. disk.state \notin BeforeSend \cup {"CANCELLED"}
    BY <1>1, <2>1 DEF OutcomeInv, SafetyInv, IInv, ResendableMeansUnsent, Truth
  <2>3. ASSUME disk.turn # NoTurn PROVE FALSE
    <3>1. disk.turn \in Turns /\ HasTurn(disk.turn)
      BY <1>1, <2>1, <2>3 DEF OutcomeInv, Truth, Checkpoints
    <3>2. Possible(disk.turn) /\ posts[disk.turn] # "steered"
      BY <3>1 DEF HasTurn, TurnStates, Ended, Possible
    <3> QED
      BY <1>1, <2>1, <3>1, <3>2 DEF OutcomeInv, SafetyInv, IInv, AtMostOnce
  <2>4. disk.state \notin {"DELIVERED", "COMPLETED"}
    BY <1>1, <2>3 DEF OutcomeInv, Truth
  <2> QED
    BY <2>1, <2>2, <2>4 DEF Checkpoints, TaskStates, BeforeSend
<1>2. OutcomeInv => SteeredIsQuarantined
  BY <1>1 DEF SteeredIsQuarantined
<1> QED
  BY OutcomeAlways, <1>2, PTL

----------------------------------------------------------------------------
(* The budget.  The POSTs are counted by the attempts in the file, and by    *)
(* those in memory wherever they can still be saved.                         *)

Sent == {t \in Turns : posts[t] # "unsent"}

Room(label, c) ==
  /\ Cardinality(Sent) <= c.attempts
  /\ label = "preflight" => c.attempts < RetryBudget
  /\ label \in {"writeahead", "send"} =>
       Cardinality(Sent) < c.attempts /\ c.attempts <= RetryBudget
  /\ label = "send" => disk.attempts = c.attempts

BudgetInv ==
  /\ SafetyInv
  /\ IsFiniteSet(Sent) /\ Cardinality(Sent) <= RetryBudget
  /\ Cardinality(Sent) <= disk.attempts
  /\ \A p \in Procs : pc[p] \in Working => Room(pc[p], cp[p])

\* No update takes an attempt back, and the write-ahead counts one.
LEMMA UpdateAttempts ==
  ASSUME NEW c \in Checkpoints
  PROVE  /\ c.attempts \in Nat
         /\ CountAttempt(c).attempts = c.attempts + 1
         /\ Block(c).attempts = c.attempts
         /\ Cancelled(c).attempts = c.attempts
         /\ CancelUnconfirmed(c).attempts = c.attempts
         /\ ScheduleReconciliation(c).attempts = c.attempts
         /\ ReconcileLater(c).attempts = c.attempts
         /\ ScheduleSendRetry(c).attempts = c.attempts
         /\ WriteAheadOf(c).attempts = c.attempts + 1
         /\ \A t : Delivered(c, t).attempts = c.attempts
         /\ \A r : AcceptReceipt(c, r).attempts = c.attempts
<1> USE DEF Checkpoints
<1>1. c.attempts \in Nat /\ CountAttempt(c) \in Checkpoints
      /\ CountAttempt(c).attempts = c.attempts + 1
  BY UpdateTypes DEF CountAttempt
<1>2. Block(c).attempts = c.attempts
  BY DEF Block
<1>3. Cancelled(c).attempts = c.attempts /\ CancelUnconfirmed(c).attempts = c.attempts
  BY DEF Cancelled, CancelUnconfirmed
<1>4. /\ ScheduleReconciliation(c).attempts = c.attempts
      /\ ReconcileLater(c).attempts = c.attempts
      /\ ScheduleSendRetry(c).attempts = c.attempts
  BY <1>2 DEF ScheduleReconciliation, ReconcileLater, ScheduleSendRetry
<1>5. WriteAheadOf(c).attempts = c.attempts + 1
  BY <1>1 DEF WriteAheadOf
<1>6. \A t : Delivered(c, t).attempts = c.attempts
  BY DEF Delivered
<1>7. \A r : AcceptReceipt(c, r).attempts = c.attempts
  BY <1>2 DEF AcceptReceipt
<1> QED
  BY <1>1, <1>2, <1>3, <1>4, <1>5, <1>6, <1>7

LEMMA ReplyAttempts ==
  ASSUME NEW c \in Checkpoints
  PROVE  /\ ObserveFailed(c).attempts >= c.attempts
         /\ \A r : AfterRecover(c, r).attempts >= c.attempts
         /\ \A reply, t : AfterSend(c, reply, t).attempts = c.attempts
         /\ \A obs : SettleCancel(c, obs).attempts = c.attempts
<1>1. /\ c.attempts \in Nat /\ CountAttempt(c) \in Checkpoints
      /\ CountAttempt(c).attempts = c.attempts + 1
  BY UpdateTypes, UpdateAttempts
<1>2. ObserveFailed(c).attempts = c.attempts + 1
  BY <1>1, UpdateAttempts DEF ObserveFailed
<1>3. ASSUME NEW r PROVE AfterRecover(c, r).attempts \in {c.attempts, c.attempts + 1}
  BY <1>1, UpdateAttempts DEF AfterRecover
<1>4. \A reply, t : AfterSend(c, reply, t).attempts = c.attempts
  BY UpdateAttempts DEF AfterSend
<1>5. \A obs : SettleCancel(c, obs).attempts = c.attempts
  BY UpdateAttempts DEF SettleCancel, Checkpoints
<1>6. \A r : AfterRecover(c, r).attempts >= c.attempts
  <2> SUFFICES ASSUME NEW r PROVE AfterRecover(c, r).attempts >= c.attempts
    OBVIOUS
  <2> QED
    BY <1>1, <1>3
<1> QED
  BY <1>1, <1>2, <1>4, <1>5, <1>6

LEMMA HolderBudget ==
  ASSUME BudgetInv, SafetyInv', NEW p \in Procs, pc[p] \in Holding,
         \A q \in Procs \ {p} : pc'[q] = pc[q],
         IsFiniteSet(Sent)', (Cardinality(Sent) <= RetryBudget)',
         (Cardinality(Sent) <= disk.attempts)',
         pc'[p] \in Working => Room(pc[p], cp[p])'
  PROVE  BudgetInv'
<1>1. ASSUME NEW q \in Procs, q # p
      PROVE  pc'[q] \notin Working
  BY <1>1, Exclusion DEF BudgetInv, SafetyInv, Working
<1> QED
  BY <1>1 DEF BudgetInv

\* p moves on and sends nothing; neither the file nor AO changes.
LEMMA QuietBudget ==
  ASSUME BudgetInv, SafetyInv', NEW p \in Procs, pc[p] \in Holding,
         NEW label, NEW c, Proceed(p, label, c), label \in Working => Room(label, c),
         UNCHANGED <<disk, posts>>
  PROVE  BudgetInv'
<1>1. pc'[p] = label /\ cp'[p] = c /\ \A q \in Procs \ {p} : pc'[q] = pc[q]
  BY Moved DEF BudgetInv, SafetyInv
<1>2. Sent' = Sent
  BY DEF Sent
<1>3. label \in Working => Room(pc[p], cp[p])'
  BY <1>1, <1>2 DEF Room
<1> QED
  BY <1>1, <1>2, <1>3, HolderBudget DEF BudgetInv

\* At a point where nothing is sent next, attempts that count the POSTs are enough.
LEMMA RoomOf ==
  ASSUME BudgetInv, NEW c \in Checkpoints, Cardinality(Sent) <= c.attempts,
         NEW d, d.attempts \in Nat, d.attempts >= c.attempts,
         NEW label, label \notin {"preflight", "writeahead", "send"}
  PROVE  Room(label, d)
<1>1. Cardinality(Sent) \in Nat /\ c.attempts \in Nat
  BY FS_CardinalityType DEF BudgetInv, Checkpoints
<1> QED
  BY <1>1 DEF Room

LEMMA LoadBudget ==
  ASSUME BudgetInv, SafetyInv', NEW p \in Procs, Load(p) \/ CancelLoad(p)
  PROVE  BudgetInv'
<1>1. disk \in Checkpoints /\ pc[p] \in Holding /\ UNCHANGED <<disk, posts>>
  BY DEF BudgetInv, SafetyInv, TypeInv, TypeOK, Load, CancelLoad, At, aoVars, Holding
<1>2. ASSUME NEW c, c.attempts = disk.attempts,
             NEW label \in {"save", "artifact", "c_mark"}
      PROVE  Room(label, c)
  BY <1>2 DEF Room, BudgetInv
<1>3. /\ Room("save", disk) /\ Room("artifact", disk)
      /\ Room("save", Cancelled(disk)) /\ Room("c_mark", CancelUnconfirmed(disk))
  BY <1>1, <1>2, UpdateAttempts
<1>4. \E label, c : Proceed(p, label, c) /\ (label \in Working => Room(label, c))
  <2>1. CASE Leave(p)
    BY <2>1 DEF Leave, Working
  <2>2. CASE ~Leave(p) /\ Load(p)
    BY <1>3, <2>2 DEF Load, Finish, Working
  <2>3. CASE ~Leave(p) /\ CancelLoad(p)
    BY <1>3, <2>3 DEF CancelLoad, Finish, Working
  <2> QED
    BY <2>1, <2>2, <2>3
<1> QED
  BY <1>1, <1>4, QuietBudget

LEMMA SaveBudget ==
  ASSUME BudgetInv, SafetyInv', NEW p \in Procs, Save(p) \/ WriteAhead(p) \/ CancelSave(p)
  PROVE  BudgetInv'
<1>1. pc[p] \in Working /\ pc[p] \in Holding /\ posts' = posts
  BY DEF Save, WriteAhead, CancelSave, At, aoVars, Working, Holding, StepPCs, CancelPCs
<1>2. Room(pc[p], cp[p]) /\ Sent' = Sent
  BY <1>1 DEF BudgetInv, Sent
<1>3. disk' = disk \/ disk' = cp[p]
  BY DEF Save, WriteAhead, CancelSave, Saved, SaveFailed
<1>4. (Cardinality(Sent) <= disk.attempts)'
  BY <1>2, <1>3 DEF BudgetInv, Room
<1>5. /\ cp'[p] = cp[p] /\ \A q \in Procs \ {p} : pc'[q] = pc[q]
      /\ \/ pc'[p] \in {"release", "c_recover", "c_observe"}
         \/ pc[p] = "writeahead" /\ disk' = cp[p] /\ pc'[p] = "send"
  BY Moved DEF BudgetInv, SafetyInv, Save, WriteAhead, CancelSave, Saved, Leave, At
<1>6. pc'[p] \in Working => Room(pc[p], cp[p])'
  BY <1>2, <1>5 DEF Room, Working
<1> QED
  BY <1>1, <1>2, <1>4, <1>5, <1>6, HolderBudget DEF BudgetInv

LEMMA StepBudget ==
  ASSUME BudgetInv, SafetyInv', NEW p \in Procs,
         Artifact(p) \/ Observe(p) \/ Recover(p) \/ Preflight(p)
  PROVE  BudgetInv'
<1> DEFINE c == cp[p]
<1>1. /\ pc[p] \in Holding /\ pc[p] \in Working
      /\ UNCHANGED <<disk, posts>>
  BY DEF Artifact, Observe, Recover, Preflight, At, aoVars, Holding, Working, StepPCs
<1>2. c \in Checkpoints /\ c.attempts \in Nat /\ Room(pc[p], c)
  BY <1>1, WorkingCheckpoint DEF BudgetInv, SafetyInv, Checkpoints
<1>3. Cardinality(Sent) \in Nat /\ Cardinality(Sent) <= c.attempts
  BY <1>2, FS_CardinalityType DEF BudgetInv, Room
<1>4. ASSUME NEW d, d.attempts \in Nat, d.attempts >= c.attempts,
             NEW label \in {"save", "observe", "recover"}
      PROVE  Room(label, d)
  BY <1>2, <1>3, <1>4, RoomOf
<1>5. /\ Room("save", Block(c)) /\ Room("save", Cancelled(c)) /\ Room("save", ObserveFailed(c))
      /\ Room("observe", c) /\ Room("recover", c)
      /\ \A t : Room("save", Delivered(c, t))
      /\ \A r : Room("save", AcceptReceipt(c, r))
  <2>1. /\ Room("save", Block(c)) /\ Room("save", Cancelled(c))
        /\ Room("observe", c) /\ Room("recover", c)
    BY <1>2, <1>4, UpdateAttempts
  <2>2. ObserveFailed(c).attempts \in Nat /\ ObserveFailed(c).attempts >= c.attempts
    BY <1>2, UpdateTypes, ReplyUpdateTypes, ReplyAttempts DEF Checkpoints
  <2>3. \A t : Room("save", Delivered(c, t))
    BY <1>2, <1>4, UpdateAttempts
  <2>4. \A r : Room("save", AcceptReceipt(c, r))
    BY <1>2, <1>4, UpdateAttempts
  <2> QED
    BY <1>4, <2>1, <2>2, <2>3, <2>4
<1>6. \E label, d : Proceed(p, label, d) /\ (label \in Working => Room(label, d))
  <2>1. CASE Artifact(p)
    BY <1>5, <2>1 DEF Artifact, Finish
  <2>2. CASE Observe(p)
    <3>1. ASSUME NEW obs, Dispatch(p, obs)
          PROVE  \E label, d : Proceed(p, label, d) /\ (label \in Working => Room(label, d))
      <4>1. ~OutOfBudget(c) => Room("preflight", c)
        BY <1>2, <1>3, RetryBudgetAssumption DEF OutOfBudget, Room
      <4> QED
        BY <1>5, <3>1, <4>1 DEF Dispatch, Finish, Leave, Working
    <3> QED
      BY <1>5, <2>2, <3>1 DEF Observe, Finish
  <2>3. CASE Recover(p)
    <3>1. PICK r \in Answers(p, RecoverReplies, RecoverError) : Finish(p, AfterRecover(c, r))
      BY <2>3 DEF Recover
    <3>2. AfterRecover(c, r).attempts \in Nat /\ AfterRecover(c, r).attempts >= c.attempts
      BY <1>2, AfterRecoverType, ReplyAttempts DEF Checkpoints
    <3> QED
      BY <1>4, <3>1, <3>2 DEF Finish
  <2>4. CASE Preflight(p)
    <3>1. c.attempts < RetryBudget
      BY <1>2, <2>4 DEF Preflight, At, Room
    <3>2. WriteAheadOf(c).attempts = c.attempts + 1
      BY <1>2, UpdateAttempts
    <3>3. Room("writeahead", WriteAheadOf(c))
      BY <1>2, <1>3, <3>1, <3>2, RetryBudgetAssumption DEF Room
    <3> QED
      BY <1>5, <2>4, <3>3 DEF Preflight, Finish
  <2> QED
    BY <2>1, <2>2, <2>3, <2>4
<1> QED
  BY <1>1, <1>6, QuietBudget

LEMMA CancelBudget ==
  ASSUME BudgetInv, SafetyInv', NEW p \in Procs,
         CancelRecover(p) \/ CancelObserve(p) \/ CancelCheck(p)
  PROVE  BudgetInv'
<1> DEFINE c == cp[p]
<1>1. /\ pc[p] \in Holding /\ pc[p] \in Working
      /\ UNCHANGED <<disk, posts>>
  BY DEF CancelRecover, CancelObserve, CancelCheck, At, aoVars, Holding, Working, CancelPCs
<1>2. c \in Checkpoints /\ Cardinality(Sent) <= c.attempts
  BY <1>1, WorkingCheckpoint DEF BudgetInv, SafetyInv, Room
<1>3. ASSUME NEW d, d.attempts = c.attempts,
             NEW label \in {"save", "c_saveTurn", "c_check", "c_interrupt", "c_confirm"}
      PROVE  Room(label, d)
  BY <1>2, <1>3 DEF Room
<1>4. /\ \A t : Room("c_saveTurn", [c EXCEPT !.turn = t])
      /\ \A obs : Room("save", SettleCancel(c, obs))
      /\ Room("c_check", c) /\ Room("c_interrupt", c) /\ Room("c_confirm", c)
  <2>1. \A t : [c EXCEPT !.turn = t].attempts = c.attempts
    BY <1>2 DEF Checkpoints
  <2>2. \A obs : SettleCancel(c, obs).attempts = c.attempts
    BY <1>2, ReplyAttempts
  <2> QED
    BY <1>3, <2>1, <2>2
<1>5. \E label, d : Proceed(p, label, d) /\ (label \in Working => Room(label, d))
  BY <1>4 DEF CancelRecover, CancelObserve, CancelCheck, Finish, Leave, Working
<1> QED
  BY <1>1, <1>5, QuietBudget

LEMMA SendBudget ==
  ASSUME BudgetInv, SafetyInv', NEW p \in Procs, Send(p)
  PROVE  BudgetInv'
<1>1. pc[p] = "send" /\ pc[p] \in Holding /\ pc[p] \in Working /\ disk' = disk
  BY DEF Send, At, Holding, Working, StepPCs
<1>2. Room("send", cp[p]) /\ cp[p] \in Checkpoints /\ posts \in [Turns -> PostStates]
  BY <1>1, WorkingCheckpoint DEF BudgetInv, SafetyInv, TypeInv, TypeOK, AOTypeOK
<1>3. PICK t \in Turns, o \in Answers(p, SendOutcomes, Outcome("error", "void")) :
        /\ posts[t] = "unsent" /\ posts' = [posts EXCEPT ![t] = o.fate]
        /\ Finish(p, AfterSend(cp[p], o.reply, t))
  BY DEF Send
<1>4. o.fate # "unsent"
  BY <1>3 DEF Answers, SendOutcomes, Outcome, AcceptedAs
<1>5. Sent' = Sent \cup {t} /\ t \notin Sent
  BY <1>2, <1>3, <1>4 DEF Sent
<1>6. IsFiniteSet(Sent)' /\ Cardinality(Sent)' = Cardinality(Sent) + 1
  <2>1. IsFiniteSet(Sent \cup {t}) /\ Cardinality(Sent \cup {t}) = Cardinality(Sent) + 1
    BY <1>5, FS_AddElement DEF BudgetInv
  <2> QED
    BY <1>5, <2>1
<1>7. /\ Cardinality(Sent) \in Nat /\ cp[p].attempts \in Nat
      /\ Cardinality(Sent) < cp[p].attempts /\ cp[p].attempts <= RetryBudget
      /\ disk.attempts = cp[p].attempts
  BY <1>2, FS_CardinalityType DEF BudgetInv, Room, Checkpoints
<1>8. pc'[p] = "save" /\ cp'[p] = AfterSend(cp[p], o.reply, t)
      /\ \A q \in Procs \ {p} : pc'[q] = pc[q]
  BY <1>3, Moved DEF Finish, BudgetInv, SafetyInv
<1>9. cp'[p].attempts = cp[p].attempts
  BY <1>2, <1>8, ReplyAttempts
<1>10. Cardinality(Sent)' <= cp[p].attempts
  BY <1>6, <1>7
<1>11. Room(pc[p], cp[p])'
  BY <1>8, <1>9, <1>10 DEF Room
<1>12. (Cardinality(Sent) <= disk.attempts)' /\ (Cardinality(Sent) <= RetryBudget)'
  BY <1>1, <1>6, <1>7, RetryBudgetAssumption
<1> QED
  BY <1>1, <1>6, <1>8, <1>11, <1>12, HolderBudget

\* Everything else sends nothing, and leaves what can still be saved alone.
LEMMA OtherBudget ==
  ASSUME BudgetInv, SafetyInv',
         \/ \E p \in Procs : \/ Start(p) \/ Loop(p) \/ Return(p) \/ Acquire(p) \/ Release(p)
                             \/ Crash(p) \/ ContextDone(p)
         \/ RemoveStaleLease \/ DeadlinePasses \/ AOStep \/ UNCHANGED vars
  PROVE  BudgetInv'
<1>1. disk'.attempts = disk.attempts
  BY DEF Start, Loop, Return, Acquire, Release, Crash, ContextDone, RemoveStaleLease,
         DeadlinePasses, AOStep, vars, BudgetInv, SafetyInv, TypeInv, TypeOK, Checkpoints
<1>2. Sent' = Sent
  <2>1. posts' = posts \/ AOStep
    BY DEF Start, Loop, Return, Acquire, Release, Crash, ContextDone, RemoveStaleLease,
           DeadlinePasses, vars, aoVars
  <2>2. CASE posts' = posts
    BY <2>2 DEF Sent
  <2>3. CASE AOStep
    BY <2>3
    DEF AOStep, AONext, LateAccept, LateLoss, TurnEnds, TurnTurnsOdd, SessionLost, ForeignStarts,
        ForeignEnds, Ended, AcceptedAs, Sent, BudgetInv, SafetyInv, TypeInv, TypeOK, AOTypeOK
  <2> QED
    BY <2>1, <2>2, <2>3
<1>3. ASSUME NEW q \in Procs, pc'[q] \in Working
      PROVE  pc[q] = pc'[q] /\ cp'[q] = cp[q]
  BY <1>3 DEF Start, Loop, Return, Acquire, Release, Crash, ContextDone, RemoveStaleLease,
         DeadlinePasses, AOStep, vars, procVars, Proceed, Go, Keep, ExitCode, RunnerResult,
         Working, Holding, StepPCs, CancelPCs, BudgetInv, SafetyInv, TypeInv, TypeOK
<1>4. ASSUME NEW q \in Procs, pc'[q] \in Working
      PROVE  Room(pc[q], cp[q])'
  BY <1>1, <1>2, <1>3, <1>4 DEF BudgetInv, Room
<1> QED
  BY <1>1, <1>2, <1>4 DEF BudgetInv

LEMMA InterruptBudget ==
  ASSUME BudgetInv, SafetyInv', NEW p \in Procs, CancelInterrupt(p)
  PROVE  BudgetInv'
<1>1. /\ pc[p] \in Holding /\ pc[p] \in Working /\ pc[p] = "c_interrupt"
      /\ disk' = disk
  BY DEF CancelInterrupt, At, Holding, Working, CancelPCs
<1>2. Sent' = Sent
  BY DEF CancelInterrupt, Interrupted, Sent, BudgetInv, SafetyInv, TypeInv, TypeOK, AOTypeOK
<1>3. pc'[p] = "c_confirm" /\ cp'[p] = cp[p] /\ \A q \in Procs \ {p} : pc'[q] = pc[q]
  BY Moved DEF CancelInterrupt, BudgetInv, SafetyInv
<1>4. Room(pc[p], cp[p])'
  BY <1>1, <1>2, <1>3 DEF BudgetInv, Room
<1> QED
  BY <1>1, <1>2, <1>3, <1>4, HolderBudget DEF BudgetInv

LEMMA BudgetStep ==
  ASSUME Exclusive, BudgetInv, [Next]_vars
  PROVE  BudgetInv'
<1>1. SafetyInv'
  BY SafetyStep DEF BudgetInv
<1>2. ASSUME NEW p \in Procs, ProcStep(p) PROVE BudgetInv'
  <2>1. CASE Start(p) \/ Loop(p) \/ Return(p) \/ Acquire(p) \/ Release(p)
    BY <1>1, <2>1, OtherBudget
  <2>2. CASE Load(p) \/ CancelLoad(p)
    BY <1>1, <2>2, LoadBudget
  <2>3. CASE Save(p) \/ WriteAhead(p) \/ CancelSave(p)
    BY <1>1, <2>3, SaveBudget
  <2>4. CASE Artifact(p) \/ Observe(p) \/ Recover(p) \/ Preflight(p)
    BY <1>1, <2>4, StepBudget
  <2>5. CASE CancelRecover(p) \/ CancelObserve(p) \/ CancelCheck(p)
    BY <1>1, <2>5, CancelBudget
  <2>6. CASE Send(p)
    BY <1>1, <2>6, SendBudget
  <2>7. CASE CancelInterrupt(p)
    BY <1>1, <2>7, InterruptBudget
  <2> QED
    BY <1>2, <2>1, <2>2, <2>3, <2>4, <2>5, <2>6, <2>7 DEF ProcStep, RunStep, CancelStep
<1>3. CASE \/ \E p \in Procs : Crash(p) \/ ContextDone(p)
           \/ RemoveStaleLease \/ DeadlinePasses \/ AOStep \/ UNCHANGED vars
  BY <1>1, <1>3, OtherBudget
<1> QED
  BY <1>2, <1>3 DEF Next

LEMMA BudgetInit == Init => BudgetInv
<1> SUFFICES ASSUME Init PROVE BudgetInv
  OBVIOUS
<1>1. Sent = {}
  BY DEF Init, AOInit, Sent
<1>2. IsFiniteSet(Sent) /\ Cardinality(Sent) = 0
  BY <1>1, FS_EmptySet
<1>3. \A p \in Procs : pc[p] \notin Working
  BY DEF Init, Working, Holding, StepPCs, CancelPCs
<1> QED
  BY <1>2, <1>3, SafetyInit, RetryBudgetAssumption DEF Init, NewTask, BudgetInv

\* PostsWithinBudget: the POSTs ever made are counted by the attempts in the file, and
\* there are never more of them than the budget of the task.
THEOREM BudgetKept == ASSUME Exclusive PROVE Spec => []PostsWithinBudget
<1>1. BudgetInv => PostsWithinBudget
  BY DEF BudgetInv, PostsWithinBudget, Sent
<1> QED
  BY BudgetInit, BudgetStep, <1>1, PTL DEF Spec

----------------------------------------------------------------------------
(* The attempts themselves: what ends the retries of a task.                 *)

\* No later Save takes an attempt back, whoever makes it and from whatever checkpoint
\* it has in memory (CountAttempt, FileStore.Save).
AttemptsOnlyGrow == [][disk'.attempts >= disk.attempts]_vars

\* An undecided task is within its budget; the attempt that exhausts it decides it.
Counted(c) ==
  /\ c.attempts <= RetryBudget + 1
  /\ c.state \notin Final => c.attempts <= RetryBudget

\* What a process can still save, at label, is not behind the file.
Ahead(label, c) ==
  /\ Counted(c)
  /\ c.attempts >= disk.attempts
  /\ label \in StepPCs => c.attempts <= RetryBudget

AttemptsInv ==
  /\ BudgetInv
  /\ Counted(disk)
  /\ \A p \in Procs : pc[p] \in Working => Ahead(pc[p], cp[p])

\* A failed observation or reconciliation costs one attempt, and the last one blocks.
LEMMA FailureIsCounted ==
  ASSUME NEW c \in Checkpoints, c.attempts <= RetryBudget
  PROVE  /\ Counted(ObserveFailed(c))
         /\ \A r : Counted(AfterRecover(c, r))
<1> DEFINE d == CountAttempt(c)
<1>1. /\ c.attempts \in Nat /\ RetryBudget \in Nat
      /\ d \in Checkpoints /\ d.attempts = c.attempts + 1
  BY UpdateTypes, UpdateAttempts, RetryBudgetAssumption
<1>2. ASSUME NEW e, e \in {ReconcileLater(d), ScheduleSendRetry(d), ScheduleReconciliation(d)}
      PROVE  Counted(e)
  <2>1. e.attempts = d.attempts
    BY <1>1, <1>2, UpdateAttempts
  <2>2. CASE OutOfBudget(d)
    <3>1. e.state = "BLOCKED"
      BY <1>1, <1>2, <2>2, UpdateStates
      DEF ReconcileLater, ScheduleSendRetry, ScheduleReconciliation
    <3> QED
      BY <1>1, <2>1, <3>1 DEF Counted, Final
  <2>3. CASE ~OutOfBudget(d)
    BY <1>1, <2>1, <2>3 DEF Counted, OutOfBudget
  <2> QED
    BY <2>2, <2>3
<1>3. \A e : e.attempts = c.attempts => Counted(e)
  BY <1>1 DEF Counted
<1>4. Counted(ObserveFailed(c))
  BY <1>2 DEF ObserveFailed
<1>5. \A r : Counted(AfterRecover(c, r))
  BY <1>2, <1>3, UpdateAttempts DEF AfterRecover
<1> QED
  BY <1>4, <1>5

\* While p holds the lease nobody else has an attempt to save.
LEMMA HolderAttempts ==
  ASSUME AttemptsInv, BudgetInv', NEW p \in Procs, pc[p] \in Holding,
         \A q \in Procs \ {p} : pc'[q] = pc[q],
         Counted(disk)', pc'[p] \in Working => Ahead(pc[p], cp[p])'
  PROVE  AttemptsInv'
<1>1. ASSUME NEW q \in Procs, q # p
      PROVE  pc'[q] \notin Working
  BY <1>1, Exclusion DEF AttemptsInv, BudgetInv, SafetyInv, Working
<1> QED
  BY <1>1 DEF AttemptsInv

\* p moves on, and the file stays.
LEMMA QuietAttempts ==
  ASSUME AttemptsInv, BudgetInv', NEW p \in Procs, pc[p] \in Holding,
         NEW label, NEW c, Proceed(p, label, c), label \in Working => Ahead(label, c),
         disk' = disk
  PROVE  AttemptsInv'
<1>1. pc'[p] = label /\ cp'[p] = c /\ \A q \in Procs \ {p} : pc'[q] = pc[q]
  BY Moved DEF AttemptsInv, BudgetInv, SafetyInv
<1>2. Counted(disk)' /\ (label \in Working => Ahead(pc[p], cp[p])')
  BY <1>1 DEF AttemptsInv, Counted, Ahead
<1> QED
  BY <1>1, <1>2, HolderAttempts

LEMMA LoadAttempts ==
  ASSUME AttemptsInv, BudgetInv', NEW p \in Procs, Load(p) \/ CancelLoad(p)
  PROVE  AttemptsInv'
<1>1. disk \in Checkpoints /\ disk.attempts \in Nat /\ pc[p] \in Holding /\ disk' = disk
  BY DEF AttemptsInv, BudgetInv, SafetyInv, TypeInv, TypeOK, Load, CancelLoad, At, Holding,
         Checkpoints
<1>2. Counted(disk) /\ RetryBudget \in Nat
  BY RetryBudgetAssumption DEF AttemptsInv
<1>3. Ahead("save", disk)
  BY <1>1, <1>2 DEF Ahead, StepPCs
<1>4. disk.state \notin Final =>
        /\ Ahead("artifact", disk)
        /\ Ahead("save", Cancelled(disk)) /\ Ahead("c_mark", CancelUnconfirmed(disk))
  BY <1>1, <1>2, UpdateAttempts DEF Ahead, Counted, StepPCs
<1>5. Terminal(disk) \/ disk.state \notin Final
  BY DEF Terminal, Final
<1>6. \E label, c : Proceed(p, label, c) /\ (label \in Working => Ahead(label, c))
  <2>1. CASE Leave(p)
    BY <2>1 DEF Leave, Working
  <2>2. CASE ~Leave(p) /\ Load(p)
    BY <1>3, <1>4, <1>5, <2>2 DEF Load, Finish, Working
  <2>3. CASE ~Leave(p) /\ CancelLoad(p)
    <3>1. \/ Proceed(p, "release", disk)
          \/ disk.state \notin Final /\ Proceed(p, "save", Cancelled(disk))
          \/ disk.state \notin Final /\ Proceed(p, "c_mark", CancelUnconfirmed(disk))
      BY <2>3 DEF CancelLoad, Finish, Final, BeforeSend
    <3> QED
      BY <1>4, <3>1 DEF Working
  <2> QED
    BY <2>1, <2>2, <2>3
<1> QED
  BY <1>1, <1>6, QuietAttempts

LEMMA SaveAttempts ==
  ASSUME AttemptsInv, BudgetInv', NEW p \in Procs, Save(p) \/ WriteAhead(p) \/ CancelSave(p)
  PROVE  AttemptsInv' /\ disk'.attempts >= disk.attempts
<1>1. pc[p] \in Working /\ pc[p] \in Holding
  BY DEF Save, WriteAhead, CancelSave, At, Working, Holding, StepPCs, CancelPCs
<1>2. /\ Ahead(pc[p], cp[p]) /\ Counted(disk)
      /\ disk.attempts \in Nat /\ cp[p].attempts \in Nat
  BY <1>1, WorkingCheckpoint
  DEF AttemptsInv, BudgetInv, SafetyInv, TypeInv, TypeOK, Checkpoints
<1>3. disk' = disk \/ disk' = cp[p]
  BY DEF Save, WriteAhead, CancelSave, Saved, SaveFailed
<1>4. Counted(disk)' /\ disk'.attempts >= disk.attempts /\ cp[p].attempts >= disk'.attempts
  BY <1>2, <1>3 DEF Ahead, Counted
<1>5. /\ cp'[p] = cp[p] /\ \A q \in Procs \ {p} : pc'[q] = pc[q]
      /\ pc'[p] \in StepPCs => pc[p] \in StepPCs
  BY Moved DEF AttemptsInv, BudgetInv, SafetyInv, Save, WriteAhead, CancelSave, Leave, At, StepPCs
<1>6. Ahead(pc[p], cp[p])'
  BY <1>2, <1>4, <1>5 DEF Ahead, Counted
<1> QED
  BY <1>1, <1>4, <1>5, <1>6, HolderAttempts

LEMMA StepAttempts ==
  ASSUME AttemptsInv, BudgetInv', NEW p \in Procs,
         Artifact(p) \/ Observe(p) \/ Recover(p) \/ Preflight(p)
  PROVE  AttemptsInv'
<1> DEFINE c == cp[p]
<1>1. /\ pc[p] \in Holding /\ pc[p] \in Working /\ pc[p] \in StepPCs
      /\ disk' = disk
  BY DEF Artifact, Observe, Recover, Preflight, At, Holding, Working, StepPCs
<1>2. /\ c \in Checkpoints /\ c.attempts \in Nat /\ disk.attempts \in Nat /\ RetryBudget \in Nat
      /\ Ahead(pc[p], c) /\ Room(pc[p], c)
  BY <1>1, WorkingCheckpoint, RetryBudgetAssumption
  DEF AttemptsInv, BudgetInv, SafetyInv, TypeInv, TypeOK, Checkpoints
<1>3. c.attempts <= RetryBudget /\ c.attempts >= disk.attempts
  BY <1>1, <1>2 DEF Ahead
<1>4. ASSUME NEW d, d.attempts = c.attempts, NEW label
      PROVE  Ahead(label, d)
  BY <1>2, <1>3, <1>4 DEF Ahead, Counted
<1>5. ASSUME NEW d \in Checkpoints, d.attempts >= c.attempts, Counted(d)
      PROVE  Ahead("save", d)
  BY <1>2, <1>3, <1>5 DEF Ahead, StepPCs, Checkpoints
<1>6. /\ Ahead("save", Block(c)) /\ Ahead("save", Cancelled(c))
      /\ \A t : Ahead("save", Delivered(c, t))
      /\ \A r : Ahead("save", AcceptReceipt(c, r))
      /\ \A label : Ahead(label, c)
  BY <1>2, <1>4, UpdateAttempts
<1>7. Ahead("save", ObserveFailed(c))
  BY <1>2, <1>3, <1>5, ReplyUpdateTypes, ReplyAttempts, FailureIsCounted
<1>8. \E label, d : Proceed(p, label, d) /\ (label \in Working => Ahead(label, d))
  <2>1. CASE Artifact(p)
    BY <1>6, <2>1 DEF Artifact, Finish
  <2>2. CASE Observe(p)
    <3>1. ASSUME NEW obs, Dispatch(p, obs)
          PROVE  \E label, d : Proceed(p, label, d) /\ (label \in Working => Ahead(label, d))
      BY <1>6, <3>1 DEF Dispatch, Finish, Leave, Working
    <3> QED
      BY <1>6, <1>7, <2>2, <3>1 DEF Observe, Finish
  <2>3. CASE Recover(p)
    <3>1. PICK r \in Answers(p, RecoverReplies, RecoverError) : Finish(p, AfterRecover(c, r))
      BY <2>3 DEF Recover
    <3>2. Ahead("save", AfterRecover(c, r))
      BY <1>2, <1>3, <1>5, AfterRecoverType, ReplyAttempts, FailureIsCounted
    <3> QED
      BY <3>1, <3>2 DEF Finish
  <2>4. CASE Preflight(p)
    <3>1. c.attempts < RetryBudget
      BY <1>2, <2>4 DEF Preflight, At, Room
    <3>2. Ahead("writeahead", WriteAheadOf(c))
      BY <1>2, <1>3, <3>1, UpdateAttempts DEF Ahead, Counted
    <3> QED
      BY <1>6, <2>4, <3>2 DEF Preflight, Finish
  <2> QED
    BY <2>1, <2>2, <2>3, <2>4
<1> QED
  BY <1>1, <1>8, QuietAttempts

LEMMA RequestAttempts ==
  ASSUME AttemptsInv, BudgetInv', NEW p \in Procs,
         Send(p) \/ CancelRecover(p) \/ CancelObserve(p) \/ CancelCheck(p) \/ CancelInterrupt(p)
  PROVE  AttemptsInv'
<1> DEFINE c == cp[p]
<1>1. /\ pc[p] \in Holding /\ pc[p] \in Working /\ pc[p] \in CancelPCs \cup StepPCs
      /\ disk' = disk
  BY DEF Send, CancelRecover, CancelObserve, CancelCheck, CancelInterrupt, At, Holding, Working,
         CancelPCs, StepPCs
<1>2. c \in Checkpoints /\ c.attempts \in Nat /\ RetryBudget \in Nat /\ Ahead(pc[p], c)
  BY <1>1, WorkingCheckpoint, RetryBudgetAssumption
  DEF AttemptsInv, BudgetInv, SafetyInv, Checkpoints
<1>3. c.attempts <= RetryBudget
  <2>1. pc[p] \in CancelPCs => c.state = "CANCEL_UNCONFIRMED"
    BY DEF AttemptsInv, BudgetInv, SafetyInv, IInv, Fits
  <2> QED
    BY <1>1, <1>2, <2>1 DEF Ahead, Counted, Final
<1>4. ASSUME NEW d, d.attempts = c.attempts, NEW label
      PROVE  Ahead(label, d)
  BY <1>2, <1>3, <1>4 DEF Ahead, Counted
<1>5. /\ \A label : Ahead(label, c)
      /\ \A label, t : Ahead(label, [c EXCEPT !.turn = t])
      /\ \A obs : Ahead("save", SettleCancel(c, obs))
      /\ \A reply, t : Ahead("save", AfterSend(c, reply, t))
  <2>1. \A t : [c EXCEPT !.turn = t].attempts = c.attempts
    BY <1>2 DEF Checkpoints
  <2> QED
    BY <1>2, <1>4, <2>1, ReplyAttempts
<1>6. \E label, d : Proceed(p, label, d) /\ (label \in Working => Ahead(label, d))
  BY <1>5
  DEF Send, CancelRecover, CancelObserve, CancelCheck, CancelInterrupt, Finish, Leave, Working
<1> QED
  BY <1>1, <1>6, QuietAttempts

LEMMA OtherAttempts ==
  ASSUME AttemptsInv, BudgetInv',
         \/ \E p \in Procs : \/ Start(p) \/ Loop(p) \/ Return(p) \/ Acquire(p) \/ Release(p)
                             \/ Crash(p) \/ ContextDone(p)
         \/ RemoveStaleLease \/ DeadlinePasses \/ AOStep \/ UNCHANGED vars
  PROVE  AttemptsInv'
<1>1. disk'.attempts = disk.attempts /\ disk'.state = disk.state
  BY DEF Start, Loop, Return, Acquire, Release, Crash, ContextDone, RemoveStaleLease,
         DeadlinePasses, AOStep, vars, AttemptsInv, BudgetInv, SafetyInv, TypeInv, TypeOK,
         Checkpoints
<1>2. ASSUME NEW q \in Procs, pc'[q] \in Working
      PROVE  pc[q] = pc'[q] /\ cp'[q] = cp[q]
  BY <1>2 DEF Start, Loop, Return, Acquire, Release, Crash, ContextDone, RemoveStaleLease,
         DeadlinePasses, AOStep, vars, procVars, Proceed, Go, Keep, ExitCode, RunnerResult,
         Working, Holding, StepPCs, CancelPCs, AttemptsInv, BudgetInv, SafetyInv, TypeInv, TypeOK
<1>3. ASSUME NEW q \in Procs, pc'[q] \in Working
      PROVE  Ahead(pc[q], cp[q])'
  BY <1>1, <1>2, <1>3 DEF AttemptsInv, Ahead, Counted
<1> QED
  BY <1>1, <1>3 DEF AttemptsInv, Counted

LEMMA AttemptsStep ==
  ASSUME Exclusive, AttemptsInv, [Next]_vars
  PROVE  AttemptsInv' /\ disk'.attempts >= disk.attempts
<1>1. BudgetInv' /\ disk.attempts \in Nat
  BY BudgetStep DEF AttemptsInv, BudgetInv, SafetyInv, TypeInv, TypeOK, Checkpoints
<1>2. ASSUME NEW p \in Procs, Save(p) \/ WriteAhead(p) \/ CancelSave(p)
      PROVE  AttemptsInv' /\ disk'.attempts >= disk.attempts
  BY <1>1, <1>2, SaveAttempts
<1>3. ASSUME NEW p \in Procs,
             \/ Load(p) \/ CancelLoad(p)
             \/ Artifact(p) \/ Observe(p) \/ Recover(p) \/ Preflight(p) \/ Send(p)
             \/ CancelRecover(p) \/ CancelObserve(p) \/ CancelCheck(p) \/ CancelInterrupt(p)
      PROVE  AttemptsInv' /\ disk'.attempts >= disk.attempts
  <2>1. AttemptsInv'
    BY <1>1, <1>3, LoadAttempts, StepAttempts, RequestAttempts
  <2>2. disk' = disk
    BY <1>3 DEF Load, CancelLoad, Artifact, Observe, Recover, Preflight, Send, CancelRecover,
           CancelObserve, CancelCheck, CancelInterrupt
  <2> QED
    BY <1>1, <2>1, <2>2
<1>4. CASE \/ \E p \in Procs : \/ Start(p) \/ Loop(p) \/ Return(p) \/ Acquire(p) \/ Release(p)
                               \/ Crash(p) \/ ContextDone(p)
           \/ RemoveStaleLease \/ DeadlinePasses \/ AOStep \/ UNCHANGED vars
  <2>1. AttemptsInv'
    BY <1>1, <1>4, OtherAttempts
  <2>2. disk'.attempts = disk.attempts
    BY <1>4 DEF Start, Loop, Return, Acquire, Release, Crash, ContextDone, RemoveStaleLease,
           DeadlinePasses, AOStep, vars, AttemptsInv, BudgetInv, SafetyInv, TypeInv, TypeOK,
           Checkpoints
  <2> QED
    BY <1>1, <2>1, <2>2
<1> QED
  BY <1>2, <1>3, <1>4 DEF Next, ProcStep, RunStep, CancelStep

LEMMA AttemptsInit == Init => AttemptsInv
<1> SUFFICES ASSUME Init PROVE AttemptsInv
  OBVIOUS
<1>1. \A p \in Procs : pc[p] \notin Working
  BY DEF Init, Working, Holding, StepPCs, CancelPCs
<1>2. Counted(disk)
  BY RetryBudgetAssumption DEF Init, NewTask, Counted, Final
<1> QED
  BY <1>1, <1>2, BudgetInit DEF AttemptsInv

\* AttemptsOnlyGrow: attempts are never lost, although processes save checkpoints they
\* have loaded earlier, crash between two Saves, and are joined by a Cancel.
THEOREM AttemptsAreKept == ASSUME Exclusive PROVE Spec => AttemptsOnlyGrow
<1>1. AttemptsInv /\ [Next]_vars => [disk'.attempts >= disk.attempts]_vars
  BY AttemptsStep
<1>2. AttemptsInv /\ [Next]_vars => AttemptsInv'
  BY AttemptsStep
<1> QED
  BY AttemptsInit, <1>1, <1>2, PTL DEF Spec, AttemptsOnlyGrow

\* Counted: a task that has spent more than its budget is decided, and no task spends
\* more than one attempt beyond it; with AttemptsOnlyGrow this is the measure that
\* bounds the failures behind EventuallyDecided.
THEOREM SpentMeansDecided == ASSUME Exclusive PROVE Spec => []Counted(disk)
<1>1. AttemptsInv => Counted(disk)
  BY DEF AttemptsInv
<1>2. AttemptsInv /\ [Next]_vars => AttemptsInv'
  BY AttemptsStep
<1> QED
  BY AttemptsInit, <1>1, <1>2, PTL DEF Spec

----------------------------------------------------------------------------
(* Work that AO has finished, or still does, is not given up.  What makes    *)
(* the dispatcher give up is an AO that does not answer, a session that is   *)
(* lost, or a context that ends; crashes, failed file operations, refused    *)
(* sends and failed preflights are not enough.                               *)

OwnFaults == {"crash", "save", "load", "release", "preflight", "refuse"}

\* Nothing that AO has of the task is, or can become, a turn with a good receipt.
NothingToLose == \A t \in Turns : posts[t] \notin {"wire", "live", "odd", "good"}

\* A checkpoint that gives the task up has nothing to lose.
Justified(c) == c.state \in {"BLOCKED", "CANCELLED"} => NothingToLose

\* No verified work of a task is blocked or cancelled away in the file (Step,
\* reconcileLater, Cancel, settleCancelObservation).
FinishedWorkIsKept ==
  (\E t \in Turns : posts[t] = "good") => disk.state \notin {"BLOCKED", "CANCELLED"}

KeptInv ==
  /\ OutcomeInv
  /\ session /\ ctxDone = {} /\ \A t \in Turns : posts[t] \notin {"wire", "odd"}
  /\ Justified(disk)
  /\ \A p \in Procs : pc[p] \in Working => Justified(cp[p])

\* A text that came to nothing was the only one.
LEMMA NothingElse ==
  ASSUME AtMostOnce, NEW t \in Turns, posts[t] \in {"steered", "bad", "bare", "failed", "stopped"}
  PROVE  NothingToLose
BY DEF AtMostOnce, Possible, NothingToLose

LEMMA ClearHasNothing == Clear => NothingToLose
BY DEF Clear, Possible, NothingToLose

\* A process that moves on and changes neither the file nor AO.
LEMMA QuietKept ==
  ASSUME KeptInv, OutcomeInv', NEW p \in Procs, pc[p] \in Holding,
         NEW label, NEW c, Proceed(p, label, c), label \in Working => Justified(c),
         UNCHANGED <<disk, posts, session, ctxDone>>
  PROVE  KeptInv'
<1>1. pc'[p] = label /\ cp'[p] = c /\ \A q \in Procs \ {p} : pc'[q] = pc[q]
  BY Moved DEF KeptInv, OutcomeInv, SafetyInv
<1>2. ASSUME NEW q \in Procs, pc'[q] \in Working
      PROVE  Justified(cp[q])'
  <2>1. q = p
    BY <1>1, <1>2, Exclusion DEF KeptInv, OutcomeInv, SafetyInv, Working
  <2> QED
    BY <1>1, <1>2, <2>1 DEF Justified, NothingToLose
<1> QED
  BY <1>2 DEF KeptInv, Justified, NothingToLose

LEMMA LoadKept ==
  ASSUME KeptInv, OutcomeInv', NEW p \in Procs, Load(p) \/ CancelLoad(p)
  PROVE  KeptInv'
<1>1. /\ disk \in Checkpoints /\ pc[p] \in Holding
      /\ UNCHANGED <<disk, posts, session, ctxDone>>
  BY DEF KeptInv, OutcomeInv, SafetyInv, TypeInv, TypeOK, Load, CancelLoad, At, aoVars, Holding
<1>2. Justified(disk) /\ (disk.state \in BeforeSend => NothingToLose)
  BY ClearHasNothing DEF KeptInv, OutcomeInv, SafetyInv, IInv, ResendableMeansUnsent
<1>3. "release" \notin Working
  BY DEF Working
<1>4. \E label, c : Proceed(p, label, c) /\ (label \in Working => Justified(c))
  <2>1. CASE Leave(p)
    BY <1>3, <2>1 DEF Leave
  <2>2. CASE ~Leave(p) /\ Load(p)
    BY <1>2, <2>2 DEF Load, Finish
  <2>3. CASE ~Leave(p) /\ CancelLoad(p)
    <3>1. Justified(CancelUnconfirmed(disk))
      BY <1>1, UpdateStates DEF Justified
    <3>2. disk.state \in BeforeSend => Justified(Cancelled(disk))
      BY <1>2 DEF Justified
    <3> QED
      BY <1>3, <2>3, <3>1, <3>2 DEF CancelLoad, Finish
  <2> QED
    BY <2>1, <2>2, <2>3
<1> QED
  BY <1>1, <1>4, QuietKept

LEMMA SaveKept ==
  ASSUME KeptInv, OutcomeInv', NEW p \in Procs, Save(p) \/ WriteAhead(p) \/ CancelSave(p)
  PROVE  KeptInv'
<1>1. pc[p] \in Working /\ pc[p] \in Holding /\ UNCHANGED <<posts, session, ctxDone>>
  BY DEF Save, WriteAhead, CancelSave, At, aoVars, Working, Holding, StepPCs, CancelPCs
<1>2. Justified(cp[p]) /\ Justified(disk)
  BY <1>1 DEF KeptInv
<1>3. disk' = disk \/ disk' = cp[p]
  BY DEF Save, WriteAhead, CancelSave, Saved, SaveFailed
<1>4. cp'[p] = cp[p] /\ \A q \in Procs \ {p} : pc'[q] = pc[q]
  BY Moved DEF KeptInv, OutcomeInv, SafetyInv, Save, WriteAhead, CancelSave, Leave
<1>5. Justified(disk)' /\ Justified(cp[p])'
  BY <1>1, <1>2, <1>3, <1>4 DEF Justified, NothingToLose
<1>6. ASSUME NEW q \in Procs, pc'[q] \in Working
      PROVE  q = p
  BY <1>1, <1>4, <1>6, Exclusion DEF KeptInv, OutcomeInv, SafetyInv, Working
<1> QED
  BY <1>1, <1>5, <1>6 DEF KeptInv

\* AO answers, and what it says of the turn that was asked for.
LEMMA ObserveIsSure ==
  ASSUME KeptInv, FaultKinds \subseteq OwnFaults, Contract = "adapter",
         NEW p \in Procs, NEW turn \in Turns \cup {NoTurn}, turn # NoTurn => HasTurn(turn),
         NEW obs \in Answers(p, ObserveReplies(turn), ObsError)
  PROVE  /\ obs.delivery \in {"NOT_FOUND", "ACCEPTED", "COMPLETED", "REJECTED", "STOPPED"}
         /\ obs.delivery = "NOT_FOUND" => turn = NoTurn
         /\ obs.delivery \in {"REJECTED", "STOPPED"} => NothingToLose
         /\ obs.delivery = "COMPLETED" /\ obs.receipt # "verified" => NothingToLose
<1>1. session /\ p \notin ctxDone /\ "network" \notin FaultKinds /\ AtMostOnce
      /\ ContractObs = {}
  BY DEF KeptInv, OutcomeInv, SafetyInv, IInv, OwnFaults, ContractObs, MaySay
<1>2. obs = IF turn = NoTurn THEN Obs("NOT_FOUND", "none") ELSE ObsOfTurn(posts[turn])
  BY <1>1 DEF Answers, ObserveReplies, NetworkError
<1>3. CASE turn = NoTurn
  BY <1>2, <1>3 DEF Obs
<1>4. CASE turn # NoTurn
  <2>1. turn \in Turns /\ posts[turn] \in {"live"} \cup Ended /\ obs = ObsOfTurn(posts[turn])
    BY <1>2, <1>4 DEF HasTurn, TurnStates, KeptInv
  <2>2. /\ posts[turn] = "live" => obs.delivery = "ACCEPTED"
        /\ posts[turn] = "good" => obs.delivery = "COMPLETED" /\ obs.receipt = "verified"
        /\ posts[turn] \in {"bad", "bare"} => obs.delivery = "COMPLETED"
        /\ posts[turn] = "failed" => obs.delivery = "REJECTED"
        /\ posts[turn] = "stopped" => obs.delivery = "STOPPED"
    BY <2>1 DEF ObsOfTurn, Obs
  <2>3. posts[turn] \in {"bad", "bare", "failed", "stopped"} => NothingToLose
    BY <1>1, <2>1, NothingElse
  <2> QED
    BY <1>4, <2>1, <2>2, <2>3 DEF Ended
<1> QED
  BY <1>3, <1>4

\* Recover-only does not find a turn only when there is none, and adopts a turn that
\* runs or has completed.
LEMMA RecoverIsSure ==
  ASSUME KeptInv, FaultKinds \subseteq OwnFaults, Contract = "adapter",
         NEW p \in Procs, NEW c \in Checkpoints,
         NEW r \in Answers(p, RecoverReplies, RecoverError)
  PROVE  Justified(AfterRecover(c, r))
<1>1. session /\ p \notin ctxDone /\ "network" \notin FaultKinds /\ AtMostOnce
      /\ posts \in [Turns -> PostStates] /\ \A t \in Turns : posts[t] \notin {"wire", "odd"}
  BY DEF KeptInv, OutcomeInv, SafetyInv, IInv, TypeInv, TypeOK, AOTypeOK, OwnFaults
<1>2. r \in (IF ~session \/ FoundByRecover = {} THEN {RecoverError} ELSE FoundByRecover)
  BY <1>1 DEF Answers, RecoverReplies, NetworkError
<1>3. CASE NothingToLose
  BY <1>3 DEF Justified
<1>4. CASE ~NothingToLose
  <2>1. PICK t \in Turns : posts[t] \in {"live", "good"}
    BY <1>1, <1>4 DEF NothingToLose
  <2>2. \A u \in Turns : u # t => ~Possible(u)
    BY <1>1, <2>1 DEF AtMostOnce, Possible
  <2>3. HasTurn(t) /\ \A u \in Turns : HasTurn(u) \/ posts[u] = "steered" => u = t
    BY <2>1, <2>2 DEF HasTurn, TurnStates, Ended, Possible
  <2>4. posts[t] # "steered"
    BY <2>1
  <2>5. FoundByRecover = {Receipt("sent", RecoverState(posts[t]), t)}
    BY <2>3, <2>4 DEF FoundByRecover
  <2>6. r = Receipt("sent", RecoverState(posts[t]), t)
    BY <1>1, <1>2, <2>5
  <2>7. RecoverState(posts[t]) \in {"ACCEPTED", "COMPLETED"}
    BY <2>1 DEF RecoverState, ObsOfTurn, Obs
  <2>8. AfterRecover(c, r) = Delivered(c, t)
    BY <2>6, <2>7 DEF AfterRecover, Receipt
  <2> QED
    BY <2>8, UpdateStates DEF Justified
<1> QED
  BY <1>3, <1>4

LEMMA DispatchKept ==
  ASSUME KeptInv, FaultKinds \subseteq OwnFaults, Contract = "adapter",
         NEW p \in Procs, cp[p] \in Checkpoints, Truth(cp[p]),
         cp[p].state \in OpenStates \ {"DELIVERY_UNCERTAIN"}, cp[p].state \in BeforeSend => Clear,
         NEW obs \in Answers(p, ObserveReplies(cp[p].turn), ObsError), Dispatch(p, obs)
  PROVE  \E label, c : Proceed(p, label, c) /\ (label \in Working => Justified(c))
<1> DEFINE c == cp[p]
<1>1. /\ obs.delivery \in {"NOT_FOUND", "ACCEPTED", "COMPLETED", "REJECTED", "STOPPED"}
      /\ obs.delivery = "NOT_FOUND" => c.turn = NoTurn
      /\ obs.delivery \in {"REJECTED", "STOPPED"} => NothingToLose
      /\ obs.delivery = "COMPLETED" /\ obs.receipt # "verified" => NothingToLose
  <2>1. c.turn \in Turns \cup {NoTurn} /\ (c.turn # NoTurn => HasTurn(c.turn))
    BY DEF Checkpoints, Truth
  <2> QED
    BY <2>1, ObserveIsSure
<1>2. NothingToLose => Justified(Block(c)) /\ Justified(Cancelled(c))
  BY DEF Justified
<1>3. Justified(Delivered(c, c.turn)) /\ Justified(c)
  BY UpdateStates DEF Justified, OpenStates
<1>4. obs.delivery = "COMPLETED" => Justified(AcceptReceipt(c, obs.receipt))
  <2>1. obs.receipt = "verified" => AcceptReceipt(c, obs.receipt).state = "COMPLETED"
    BY DEF AcceptReceipt, Checkpoints
  <2> QED
    BY <1>1, <2>1 DEF Justified
<1>5. obs.delivery = "NOT_FOUND" => c.state # "DELIVERED" /\ NothingToLose
  <2>1. obs.delivery = "NOT_FOUND" => c.state # "DELIVERED"
    BY <1>1 DEF Truth
  <2> QED
    BY <2>1, ClearHasNothing DEF OpenStates, BeforeSend
<1> QED
  BY <1>1, <1>2, <1>3, <1>4, <1>5 DEF Dispatch, Finish, Leave, Working

LEMMA StepKept ==
  ASSUME KeptInv, OutcomeInv', FaultKinds \subseteq OwnFaults, Contract = "adapter",
         NEW p \in Procs, Artifact(p) \/ Observe(p) \/ Recover(p) \/ Preflight(p)
  PROVE  KeptInv'
<1> DEFINE c == cp[p]
<1>1. /\ pc[p] \in Holding /\ pc[p] \in Working
      /\ pc[p] \in {"artifact", "observe", "recover", "preflight"}
      /\ UNCHANGED <<disk, posts, session, ctxDone>>
  BY DEF Artifact, Observe, Recover, Preflight, At, aoVars, Holding, Working, StepPCs
<1>2. /\ c \in Checkpoints /\ Truth(c) /\ Justified(c) /\ Fits(pc[p], c)
      /\ p \notin ctxDone /\ "artifact" \notin FaultKinds
  BY <1>1, WorkingCheckpoint DEF KeptInv, OutcomeInv, SafetyInv, IInv, OwnFaults
<1>3. c.state \in BeforeSend => Clear
  BY <1>1, <1>2 DEF Fits
<1>4. \E label, d : Proceed(p, label, d) /\ (label \in Working => Justified(d))
  <2>1. CASE Artifact(p)
    BY <1>2, <2>1 DEF Artifact
  <2>2. CASE Observe(p)
    <3>1. c.state \in OpenStates
      BY <1>2, <2>2 DEF Observe, At, Fits
    <3>2. PICK obs \in Answers(p, ObserveReplies(c.turn), ObsError) :
            \/ obs.delivery \in {"ERROR", "NO_SESSION", "HUMAN_STOPPED"}
            \/ c.state = "DELIVERY_UNCERTAIN" /\ Proceed(p, "recover", c)
            \/ c.state # "DELIVERY_UNCERTAIN" /\ Dispatch(p, obs)
      BY <2>2 DEF Observe
    <3>3. c.turn \in Turns \cup {NoTurn} /\ (c.turn # NoTurn => HasTurn(c.turn))
      BY <1>2 DEF Checkpoints, Truth
    <3>4. obs.delivery \notin {"ERROR", "NO_SESSION", "HUMAN_STOPPED"}
      BY <3>3, ObserveIsSure
    <3> QED
      BY <1>2, <1>3, <3>1, <3>2, <3>4, DispatchKept
  <2>3. CASE Recover(p)
    BY <1>2, <2>3, RecoverIsSure DEF Recover, Finish
  <2>4. CASE Preflight(p)
    <3>1. NothingToLose
      BY <1>2, <1>3, <2>4, ClearHasNothing DEF Preflight, At, Fits
    <3>2. Justified(Block(c)) /\ Justified(WriteAheadOf(c))
      BY <3>1 DEF Justified
    <3> QED
      BY <2>4, <3>2 DEF Preflight, Finish
  <2> QED
    BY <2>1, <2>2, <2>3, <2>4
<1> QED
  BY <1>1, <1>4, QuietKept

LEMMA CancelKept ==
  ASSUME KeptInv, OutcomeInv', FaultKinds \subseteq OwnFaults, Contract = "adapter",
         NEW p \in Procs, CancelRecover(p) \/ CancelObserve(p) \/ CancelCheck(p)
  PROVE  KeptInv'
<1> DEFINE c == cp[p]
<1>1. /\ pc[p] \in Holding /\ pc[p] \in Working /\ pc[p] \in CancelPCs
      /\ UNCHANGED <<disk, posts, session, ctxDone>>
  BY DEF CancelRecover, CancelObserve, CancelCheck, At, aoVars, Holding, Working, CancelPCs
<1>2. c \in Checkpoints /\ Truth(c) /\ c.state = "CANCEL_UNCONFIRMED"
  BY <1>1, WorkingCheckpoint DEF KeptInv, OutcomeInv, SafetyInv, IInv, Fits
<1>3. Justified(c) /\ \A t : Justified([c EXCEPT !.turn = t])
  BY <1>2 DEF Justified, Checkpoints
<1>4. ASSUME NEW obs \in Answers(p, ObserveReplies(c.turn), ObsError), Settles(obs.delivery)
      PROVE  Justified(SettleCancel(c, obs))
  <2>1. c.turn \in Turns \cup {NoTurn} /\ (c.turn # NoTurn => HasTurn(c.turn))
    BY <1>2 DEF Checkpoints, Truth
  <2>2. obs.delivery \in {"REJECTED", "STOPPED"} => NothingToLose
    BY <2>1, ObserveIsSure
  <2>3. obs.delivery = "COMPLETED" /\ obs.receipt = "verified" =>
          SettleCancel(c, obs).state = "COMPLETED"
    BY <1>2 DEF SettleCancel, AcceptReceipt, Checkpoints
  <2>4. obs.delivery = "COMPLETED" /\ obs.receipt # "verified" =>
          SettleCancel(c, obs).state = "CANCEL_UNCONFIRMED"
    BY <1>2 DEF SettleCancel, Checkpoints
  <2> QED
    BY <1>4, <2>2, <2>3, <2>4 DEF Justified, Settles
<1>5. \E label, d : Proceed(p, label, d) /\ (label \in Working => Justified(d))
  BY <1>3, <1>4 DEF CancelRecover, CancelObserve, CancelCheck, Finish, Leave, Working
<1> QED
  BY <1>1, <1>5, QuietKept

LEMMA SendKept ==
  ASSUME KeptInv, OutcomeInv', FaultKinds \subseteq OwnFaults, NEW p \in Procs, Send(p)
  PROVE  KeptInv'
<1>1. pc[p] = "send" /\ UNCHANGED <<disk, session, ctxDone>>
  BY DEF Send, At
<1>2. pc[p] \in Holding /\ pc[p] \in Working
  BY <1>1 DEF Holding, Working, StepPCs
<1>3. Clear /\ disk.state = "DELIVERY_UNCERTAIN" /\ cp[p] \in Checkpoints
      /\ posts \in [Turns -> PostStates]
  BY <1>1, <1>2, WorkingCheckpoint
  DEF KeptInv, OutcomeInv, SafetyInv, IInv, Fits, TypeInv, TypeOK, AOTypeOK
<1>4. PICK t \in Turns, o \in Answers(p, SendOutcomes, Outcome("error", "void")) :
        /\ posts' = [posts EXCEPT ![t] = o.fate]
        /\ Finish(p, AfterSend(cp[p], o.reply, t))
  BY DEF Send
<1>5. \/ o.reply = "sent" /\ o.fate = "live"
      \/ o.reply \in {"steered", "notAccepted"} /\ o.fate \in {"steered", "void"}
  <2>1. p \notin ctxDone /\ {"network", "late"} \cap FaultKinds = {}
    BY DEF KeptInv, OwnFaults
  <2> QED
    BY <1>4, <2>1 DEF Answers, SendOutcomes, Outcome, AcceptedAs
<1>6. /\ posts'[t] = o.fate
      /\ \A u \in Turns \ {t} : posts'[u] = posts[u] /\ posts[u] \in {"unsent", "void"}
  BY <1>3, <1>4 DEF Clear, Possible
<1>7. \A u \in Turns : posts'[u] \notin {"wire", "odd"}
  BY <1>5, <1>6
<1>8. pc'[p] = "save" /\ cp'[p] = AfterSend(cp[p], o.reply, t)
      /\ \A q \in Procs \ {p} : pc'[q] = pc[q]
  BY <1>4, Moved DEF Finish, KeptInv, OutcomeInv, SafetyInv
<1>9. Justified(cp[p])'
  <2>1. CASE o.reply = "sent"
    BY <1>3, <1>8, <2>1, UpdateStates DEF AfterSend, Justified
  <2>2. CASE o.fate \in {"steered", "void"}
    BY <1>6, <2>2 DEF Justified, NothingToLose
  <2> QED
    BY <1>5, <2>1, <2>2
<1>10. Justified(disk)'
  BY <1>1, <1>3 DEF Justified
<1>11. ASSUME NEW q \in Procs, pc'[q] \in Working
       PROVE  q = p
  BY <1>2, <1>8, <1>11, Exclusion DEF KeptInv, OutcomeInv, SafetyInv, Working
<1> QED
  BY <1>1, <1>7, <1>9, <1>10, <1>11 DEF KeptInv

\* Everything else leaves what can still be saved alone, and no text comes to life.
LEMMA OtherKept ==
  ASSUME KeptInv, OutcomeInv', FaultKinds \subseteq OwnFaults,
         \/ \E p \in Procs : \/ Start(p) \/ Loop(p) \/ Return(p) \/ Acquire(p) \/ Release(p)
                             \/ Crash(p) \/ ContextDone(p) \/ CancelInterrupt(p)
         \/ RemoveStaleLease \/ DeadlinePasses \/ AOStep \/ UNCHANGED vars
  PROVE  KeptInv'
<1>1. disk'.state = disk.state
  BY DEF Start, Loop, Return, Acquire, Release, Crash, ContextDone, CancelInterrupt,
         RemoveStaleLease, DeadlinePasses, AOStep, vars, KeptInv, OutcomeInv, SafetyInv, TypeInv,
         TypeOK, Checkpoints
<1>2. session' /\ ctxDone' = {} /\ \A p \in Procs : ~ContextDone(p)
  <2>1. session'
    BY DEF Start, Loop, Return, Acquire, Release, Crash, ContextDone, CancelInterrupt,
           RemoveStaleLease, DeadlinePasses, AOStep, vars, aoVars, AONext, LateAccept, LateLoss,
           TurnEnds, TurnTurnsOdd, SessionLost, ForeignStarts, ForeignEnds, KeptInv, OwnFaults
  <2>2. \A p \in Procs : ~ContextDone(p)
    BY DEF ContextDone, Fault, CanFault, OwnFaults
  <2>3. ctxDone' = {}
    BY <2>2 DEF Start, Loop, Return, Acquire, Release, Crash, CancelInterrupt,
           RemoveStaleLease, DeadlinePasses, AOStep, vars, procVars, KeptInv
  <2> QED
    BY <2>1, <2>2, <2>3
<1>3. \A t \in Turns : \/ posts'[t] = posts[t]
                       \/ posts[t] = "live" /\ posts'[t] \in Ended
  <2>1. posts' = posts \/ AOStep \/ posts' = Interrupted
    BY DEF Start, Loop, Return, Acquire, Release, Crash, ContextDone, RemoveStaleLease,
           DeadlinePasses, CancelInterrupt, vars, aoVars
  <2>2. posts \in [Turns -> PostStates] /\ \A t \in Turns : posts[t] \notin {"wire", "odd"}
    BY DEF KeptInv, OutcomeInv, SafetyInv, TypeInv, TypeOK, AOTypeOK
  <2>3. CASE posts' = Interrupted
    BY <2>2, <2>3 DEF Interrupted, Ended
  <2>4. CASE AOStep
    BY <2>2, <2>4
    DEF AOStep, AONext, LateAccept, LateLoss, TurnEnds, TurnTurnsOdd, SessionLost, ForeignStarts,
        ForeignEnds, Ended, OwnFaults
  <2> QED
    BY <2>1, <2>3, <2>4
<1>4. /\ \A t \in Turns : posts'[t] \notin {"wire", "odd"}
      /\ NothingToLose => NothingToLose'
  BY <1>3 DEF KeptInv, NothingToLose, Ended
<1>5. ASSUME NEW q \in Procs, pc'[q] \in Working
      PROVE  pc[q] \in Working /\ cp'[q] = cp[q]
  <2>1. CASE \E p \in Procs : CancelInterrupt(p)
    <3>1. PICK p \in Procs : pc[p] \in Working /\ Proceed(p, "c_confirm", cp[p])
      BY <2>1 DEF CancelInterrupt, At, Working, Holding, CancelPCs
    <3> QED
      BY <1>5, <3>1 DEF Proceed, Go, Keep, KeptInv, OutcomeInv, SafetyInv, TypeInv, TypeOK
  <2>2. CASE ~\E p \in Procs : CancelInterrupt(p)
    BY <1>5, <2>2 DEF Start, Loop, Return, Acquire, Release, Crash, ContextDone,
           RemoveStaleLease, DeadlinePasses, AOStep, vars, procVars, Proceed, Go, Keep, ExitCode,
           RunnerResult, Working, Holding, StepPCs, CancelPCs, KeptInv, OutcomeInv, SafetyInv,
           TypeInv, TypeOK
  <2> QED
    BY <2>1, <2>2
<1>6. Justified(disk)'
  BY <1>1, <1>4 DEF KeptInv, Justified
<1>7. ASSUME NEW q \in Procs, pc'[q] \in Working
      PROVE  Justified(cp[q])'
  BY <1>4, <1>5, <1>7 DEF KeptInv, Justified
<1> QED
  BY <1>2, <1>4, <1>6, <1>7 DEF KeptInv

LEMMA KeptStep ==
  ASSUME Exclusive, FaultKinds \subseteq OwnFaults, Contract = "adapter", KeptInv, [Next]_vars
  PROVE  KeptInv'
<1>1. OutcomeInv'
  BY OutcomeStep DEF KeptInv
<1>2. ASSUME NEW p \in Procs, ProcStep(p) PROVE KeptInv'
  <2>1. CASE Start(p) \/ Loop(p) \/ Return(p) \/ Acquire(p) \/ Release(p) \/ CancelInterrupt(p)
    BY <1>1, <2>1, OtherKept
  <2>2. CASE Load(p) \/ CancelLoad(p)
    BY <1>1, <2>2, LoadKept
  <2>3. CASE Save(p) \/ WriteAhead(p) \/ CancelSave(p)
    BY <1>1, <2>3, SaveKept
  <2>4. CASE Artifact(p) \/ Observe(p) \/ Recover(p) \/ Preflight(p)
    BY <1>1, <2>4, StepKept
  <2>5. CASE CancelRecover(p) \/ CancelObserve(p) \/ CancelCheck(p)
    BY <1>1, <2>5, CancelKept
  <2>6. CASE Send(p)
    BY <1>1, <2>6, SendKept
  <2> QED
    BY <1>2, <2>1, <2>2, <2>3, <2>4, <2>5, <2>6 DEF ProcStep, RunStep, CancelStep
<1>3. CASE \/ \E p \in Procs : Crash(p) \/ ContextDone(p)
           \/ RemoveStaleLease \/ DeadlinePasses \/ AOStep \/ UNCHANGED vars
  BY <1>1, <1>3, OtherKept
<1> QED
  BY <1>2, <1>3 DEF Next

LEMMA KeptInit == Init => KeptInv
<1> SUFFICES ASSUME Init PROVE KeptInv
  OBVIOUS
<1>1. \A p \in Procs : pc[p] \notin Working
  BY DEF Init, Working, Holding, StepPCs, CancelPCs
<1>2. Justified(disk)
  BY DEF Init, NewTask, Justified
<1> QED
  BY <1>1, <1>2, OutcomeInit DEF Init, AOInit, KeptInv

\* FinishedWorkIsKept: crashes, failed file operations, refused sends and failed
\* preflights, however many, never make recovery or a cancellation give up a turn that
\* AO has finished with a matching receipt; it is what makes VerifiedWorkIsAccepted
\* possible, and it needs an AO that answers (reconcileLater, Block, SettleCancel).
THEOREM WorkIsNotLost ==
  ASSUME Exclusive, FaultKinds \subseteq OwnFaults, Contract = "adapter"
  PROVE  Spec => []FinishedWorkIsKept
<1>1. KeptInv => FinishedWorkIsKept
  BY DEF KeptInv, Justified, NothingToLose, FinishedWorkIsKept
<1> QED
  BY KeptInit, KeptStep, <1>1, PTL DEF Spec

----------------------------------------------------------------------------
(* The turn that the file names.                                             *)

\* The turn in the file is never lost, nor taken for another: what stops the turn, or
\* recovers its result, has its handle.
HandleStays == [][disk.turn # NoTurn => disk'.turn = disk.turn]_vars

\* Whoever works on the task after that has the handle, too.
Remembers(c) == disk.turn # NoTurn => c.turn # NoTurn

HandleInv ==
  /\ OutcomeInv
  /\ \A p \in Procs : pc[p] \in Working => Remembers(cp[p])

LEMMA QuietHandle ==
  ASSUME HandleInv, OutcomeInv', NEW p \in Procs, pc[p] \in Holding,
         NEW label, NEW c, Proceed(p, label, c), label \in Working => Remembers(c), disk' = disk
  PROVE  HandleInv'
<1>1. pc'[p] = label /\ cp'[p] = c /\ \A q \in Procs \ {p} : pc'[q] = pc[q]
  BY Moved DEF HandleInv, OutcomeInv, SafetyInv
<1>2. \A q \in Procs \ {p} : pc'[q] \notin Working
  BY <1>1, Exclusion DEF HandleInv, OutcomeInv, SafetyInv, Working
<1> QED
  BY <1>1, <1>2 DEF HandleInv, Remembers

LEMMA LoadHandle ==
  ASSUME HandleInv, OutcomeInv', NEW p \in Procs, Load(p) \/ CancelLoad(p)
  PROVE  HandleInv'
<1>1. disk \in Checkpoints /\ pc[p] \in Holding /\ disk' = disk
  BY DEF HandleInv, OutcomeInv, SafetyInv, TypeInv, TypeOK, Load, CancelLoad, At, Holding
<1>2. Remembers(disk) /\ Remembers(Cancelled(disk)) /\ Remembers(CancelUnconfirmed(disk))
  BY <1>1, UpdateTurns DEF Remembers
<1>3. \E label, c : Proceed(p, label, c) /\ (label \in Working => Remembers(c))
  <2>1. CASE Leave(p)
    BY <2>1 DEF Leave, Working
  <2>2. CASE ~Leave(p)
    BY <1>2, <2>2 DEF Load, CancelLoad, Finish
  <2> QED
    BY <2>1, <2>2
<1> QED
  BY <1>1, <1>3, QuietHandle

LEMMA SaveHandle ==
  ASSUME HandleInv, OutcomeInv', NEW p \in Procs, Save(p) \/ WriteAhead(p) \/ CancelSave(p)
  PROVE  HandleInv'
<1>1. pc[p] \in Holding
  BY DEF Save, WriteAhead, CancelSave, At, Holding, StepPCs, CancelPCs
<1>2. \A q \in Procs \ {p} : pc'[q] \notin Working
  BY <1>1, Moved, Exclusion
  DEF HandleInv, OutcomeInv, SafetyInv, Save, WriteAhead, CancelSave, Leave, Working
<1>3. pc'[p] \in Working => disk' = cp[p] /\ cp'[p] = cp[p]
  BY Moved DEF HandleInv, OutcomeInv, SafetyInv, Save, WriteAhead, CancelSave, Saved, Leave, Working
<1> QED
  BY <1>2, <1>3 DEF HandleInv, Remembers

LEMMA StepHandle ==
  ASSUME Contract # "any", HandleInv, OutcomeInv', NEW p \in Procs,
         Artifact(p) \/ Observe(p) \/ Recover(p) \/ Preflight(p) \/ Send(p)
  PROVE  HandleInv'
<1> DEFINE c == cp[p]
<1>1. pc[p] \in Holding /\ pc[p] \in Working /\ disk' = disk
  BY DEF Artifact, Observe, Recover, Preflight, Send, At, Holding, Working, StepPCs
<1>2. c \in Checkpoints /\ Remembers(c)
  BY <1>1, WorkingCheckpoint DEF HandleInv, OutcomeInv, SafetyInv
<1>3. \A d : d.turn = c.turn => Remembers(d)
  BY <1>2 DEF Remembers
<1>4. CountAttempt(c) \in Checkpoints /\ CountAttempt(c).turn = c.turn
  BY <1>2, UpdateTypes, UpdateTurns
<1>5. /\ Remembers(Block(c)) /\ Remembers(Cancelled(c)) /\ Remembers(ObserveFailed(c))
      /\ Remembers(WriteAheadOf(c)) /\ Remembers(ReconcileLater(CountAttempt(c)))
      /\ Remembers(ReconcileLater(c)) /\ Remembers(ScheduleSendRetry(c))
      /\ Remembers(Delivered(c, c.turn)) /\ \A r : Remembers(AcceptReceipt(c, r))
  <2>1. c.turn \in Turns \cup {NoTurn}
    BY <1>2 DEF Checkpoints
  <2> QED
    BY <1>2, <1>3, <1>4, <2>1, UpdateTurns
<1>6. \A t \in Turns : Remembers(Delivered(c, t))
  BY <1>2, UpdateTurns, NoTurnAssumption DEF Remembers
<1>7. \E label, d : Proceed(p, label, d) /\ (label \in Working => Remembers(d))
  <2>1. CASE Artifact(p) \/ Preflight(p)
    BY <1>2, <1>5, <2>1 DEF Artifact, Preflight, Finish
  <2>2. CASE Observe(p)
    <3>1. ASSUME NEW obs, Dispatch(p, obs)
          PROVE  \E label, d : Proceed(p, label, d) /\ (label \in Working => Remembers(d))
      BY <1>2, <1>5, <3>1 DEF Dispatch, Finish, Leave
    <3> QED
      BY <1>2, <1>5, <2>2, <3>1 DEF Observe, Finish
  <2>3. CASE Recover(p)
    <3>1. PICK r \in Answers(p, RecoverReplies, RecoverError) : Finish(p, AfterRecover(c, r))
      BY <2>3 DEF Recover
    <3>2. Remembers(AfterRecover(c, r))
      BY <1>5, <1>6, RecoverTells DEF AfterRecover
    <3> QED
      BY <3>1, <3>2 DEF Finish
  <2>4. CASE Send(p)
    <3>1. PICK t \in Turns : \E reply : Finish(p, AfterSend(c, reply, t))
      BY <2>4 DEF Send
    <3>2. \A reply : Remembers(AfterSend(c, reply, t))
      BY <1>5, <1>6 DEF AfterSend
    <3> QED
      BY <3>1, <3>2 DEF Finish
  <2> QED
    BY <2>1, <2>2, <2>3, <2>4
<1> QED
  BY <1>1, <1>7, QuietHandle

LEMMA CancelHandle ==
  ASSUME HandleInv, OutcomeInv', NEW p \in Procs,
         CancelRecover(p) \/ CancelObserve(p) \/ CancelCheck(p) \/ CancelInterrupt(p)
  PROVE  HandleInv'
<1> DEFINE c == cp[p]
<1>1. pc[p] \in Holding /\ pc[p] \in Working /\ disk' = disk
  BY DEF CancelRecover, CancelObserve, CancelCheck, CancelInterrupt, At, Holding, Working, CancelPCs
<1>2. c \in Checkpoints /\ Remembers(c)
  BY <1>1, WorkingCheckpoint DEF HandleInv, OutcomeInv, SafetyInv
<1>3. \A obs : Remembers(SettleCancel(c, obs))
  BY <1>2, UpdateTurns DEF Remembers
<1>4. \A t : t # NoTurn => Remembers([c EXCEPT !.turn = t])
  BY <1>2 DEF Remembers, Checkpoints
<1>5. \E label, d : Proceed(p, label, d) /\ (label \in Working => Remembers(d))
  BY <1>2, <1>3, <1>4
  DEF CancelRecover, CancelObserve, CancelCheck, CancelInterrupt, Finish, Leave
<1> QED
  BY <1>1, <1>5, QuietHandle

LEMMA OtherHandle ==
  ASSUME HandleInv, OutcomeInv',
         \/ \E p \in Procs : \/ Start(p) \/ Loop(p) \/ Return(p) \/ Acquire(p) \/ Release(p)
                             \/ Crash(p) \/ ContextDone(p)
         \/ RemoveStaleLease \/ DeadlinePasses \/ AOStep \/ UNCHANGED vars
  PROVE  HandleInv'
<1>1. disk'.turn = disk.turn
  BY DEF Start, Loop, Return, Acquire, Release, Crash, ContextDone, RemoveStaleLease,
         DeadlinePasses, AOStep, vars, HandleInv, OutcomeInv, SafetyInv, TypeInv, TypeOK,
         Checkpoints
<1>2. ASSUME NEW q \in Procs, pc'[q] \in Working
      PROVE  pc[q] = pc'[q] /\ cp'[q] = cp[q]
  BY <1>2 DEF Start, Loop, Return, Acquire, Release, Crash, ContextDone, RemoveStaleLease,
         DeadlinePasses, AOStep, vars, procVars, Proceed, Go, Keep, ExitCode, RunnerResult,
         Working, Holding, StepPCs, CancelPCs, HandleInv, OutcomeInv, SafetyInv, TypeInv, TypeOK
<1> QED
  BY <1>1, <1>2 DEF HandleInv, Remembers

LEMMA HandleStep ==
  ASSUME Exclusive, Contract # "any", HandleInv, [Next]_vars
  PROVE  HandleInv'
<1>1. OutcomeInv'
  BY OutcomeStep DEF HandleInv
<1>2. ASSUME NEW p \in Procs, ProcStep(p) PROVE HandleInv'
  <2>1. CASE Start(p) \/ Loop(p) \/ Return(p) \/ Acquire(p) \/ Release(p)
    BY <1>1, <2>1, OtherHandle
  <2>2. CASE Load(p) \/ CancelLoad(p)
    BY <1>1, <2>2, LoadHandle
  <2>3. CASE Save(p) \/ WriteAhead(p) \/ CancelSave(p)
    BY <1>1, <2>3, SaveHandle
  <2>4. CASE Artifact(p) \/ Observe(p) \/ Recover(p) \/ Preflight(p) \/ Send(p)
    BY <1>1, <2>4, StepHandle
  <2>5. CASE CancelRecover(p) \/ CancelObserve(p) \/ CancelCheck(p) \/ CancelInterrupt(p)
    BY <1>1, <2>5, CancelHandle
  <2> QED
    BY <1>2, <2>1, <2>2, <2>3, <2>4, <2>5 DEF ProcStep, RunStep, CancelStep
<1>3. CASE \/ \E p \in Procs : Crash(p) \/ ContextDone(p)
           \/ RemoveStaleLease \/ DeadlinePasses \/ AOStep \/ UNCHANGED vars
  BY <1>1, <1>3, OtherHandle
<1> QED
  BY <1>2, <1>3 DEF Next

\* What is written names the turn that the file names: both belong to the one text that
\* was ever accepted.
LEMMA HandleIsSame ==
  ASSUME HandleInv, HandleInv', [Next]_vars, disk.turn # NoTurn
  PROVE  disk'.turn = disk.turn
<1>1. CASE \E p \in Procs : Save(p) \/ WriteAhead(p) \/ CancelSave(p)
  <2>1. PICK p \in Procs : Save(p) \/ WriteAhead(p) \/ CancelSave(p)
    BY <1>1
  <2>2. pc[p] \in Working /\ (disk' = disk \/ disk' = cp[p])
    BY <2>1
    DEF Save, WriteAhead, CancelSave, Saved, SaveFailed, At, Working, Holding, StepPCs, CancelPCs
  <2>3. /\ disk.turn \in Turns /\ HasTurn(disk.turn)
        /\ cp[p].turn \in Turns /\ HasTurn(cp[p].turn)
    BY <2>2, WorkingCheckpoint
    DEF HandleInv, Remembers, OutcomeInv, Truth, SafetyInv, TypeInv, TypeOK, Checkpoints
  <2>4. Possible(disk.turn) /\ Possible(cp[p].turn)
    BY <2>3 DEF HasTurn, TurnStates, Ended, Possible
  <2>5. cp[p].turn = disk.turn
    BY <2>3, <2>4 DEF HandleInv, OutcomeInv, SafetyInv, IInv, AtMostOnce
  <2> QED
    BY <2>2, <2>5
<1>2. CASE ~\E p \in Procs : Save(p) \/ WriteAhead(p) \/ CancelSave(p)
  BY <1>2
  DEF Next, ProcStep, RunStep, CancelStep, Start, Loop, Return, Acquire, Release, Load, Artifact,
      Observe, Recover, Preflight, Send, CancelLoad, CancelRecover, CancelObserve, CancelCheck,
      CancelInterrupt, Crash, ContextDone, RemoveStaleLease, DeadlinePasses, AOStep, vars,
      HandleInv, OutcomeInv, SafetyInv, TypeInv, TypeOK, Checkpoints
<1> QED
  BY <1>1, <1>2

LEMMA HandleInit == Init => HandleInv
<1> SUFFICES ASSUME Init PROVE HandleInv
  OBVIOUS
<1>1. \A p \in Procs : pc[p] \notin Working
  BY DEF Init, Working, Holding, StepPCs, CancelPCs
<1> QED
  BY <1>1, OutcomeInit DEF HandleInv

\* Once the file names the turn of the task, it names that turn for ever, through crashes,
\* recover-only, cancellations and whoever works on it next, so that the turn can be
\* stopped and its result read (stepLocked, Cancel).
THEOREM HandleIsKept == ASSUME Exclusive, Contract # "any" PROVE Spec => HandleStays
<1>1. HandleInv /\ HandleInv' /\ [Next]_vars
        => [disk.turn # NoTurn => disk'.turn = disk.turn]_vars
  BY HandleIsSame
<1> QED
  BY HandleInit, HandleStep, <1>1, PTL DEF Spec, HandleStays

=============================================================================
