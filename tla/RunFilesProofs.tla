----------------------------- MODULE RunFilesProofs -----------------------------
(* Theorems about RunFiles, for any number of processes, faults, crashes and  *)
(* power losses.                                                              *)
EXTENDS RunFilesProperties, TLAPS

----------------------------------------------------------------------------
(* The inductive invariant. *)

Working == {"load", "ahead", "send", "after"}

\* Whoever has got past the create is the one that the record names; a record is
\* whole once its process works; the operator is sure only of a stale one.
LeaseInv ==
  /\ \A p \in Procs :
       /\ hold[p] # "out" => record # NoFile /\ record.by = p
       /\ hold[p] \in {"in", "checked"} => record.whole
  /\ operator = "sure" => IsStale

\* Where a process is with the lease tells where it is in its Step.
StageInv ==
  \A p \in Procs :
    /\ pc[p] = "down" => hold[p] = "out"
    /\ pc[p] = "acquire" => hold[p] \in {"out", "created", "failing"}
    /\ pc[p] \in Working => hold[p] = "in"
    /\ pc[p] = "release" => hold[p] \in {"in", "checked"}

\* A process that saves builds on the content that it has seen; only it has a
\* temporary file, with what it is about to save.
SaveInv ==
  \A p \in Procs :
    /\ pc[p] \in {"ahead", "send", "after"} => base[p] = view
    /\ temp[p] # NoTemp => pc[p] \in {"ahead", "after"} /\ temp[p].data = cp[p]

\* Wherever a POST may still come, or come again, one POST per power loss is
\* all there has been; what a process is about to put into the file agrees.
BarrierInv ==
  /\ sent <= 1 + losses
  /\ view = "pending" => sent <= losses
  /\ \A p \in Procs :
       /\ pc[p] = "ahead" => sent <= losses /\ cp[p] = "uncertain"
       /\ pc[p] = "send" => sent <= losses /\ view = "uncertain"
       /\ pc[p] = "after" /\ cp[p] = "pending" => sent <= losses

NotTorn == view \in Contents /\ onDisk \subseteq Contents

RInv == TypeOK /\ NotTorn /\ LeaseInv /\ StageInv /\ SaveInv /\ BarrierInv

LEMMA InitRInv == Init => RInv
<1> SUFFICES ASSUME Init PROVE RInv
  OBVIOUS
<1> USE DEF Init, LeaseInit, StoreInit
<1>1. TypeOK
  BY ContentsAssumption, MaxFaultsAssumption
  DEF TypeOK, LeaseTypeOK, StoreTypeOK, Stages, Labels
<1>2. NotTorn /\ LeaseInv /\ StageInv /\ SaveInv /\ BarrierInv
  BY ContentsAssumption DEF NotTorn, LeaseInv, StageInv, SaveInv, BarrierInv, Working
<1> QED
  BY <1>1, <1>2 DEF RInv

\* At most one process is past the create.
LEMMA OneHolder ==
  ASSUME RInv, NEW p \in Procs, NEW q \in Procs, hold[p] # "out", hold[q] # "out"
  PROVE  p = q
BY DEF RInv, LeaseInv

\* Faults are counted.
LEMMA FaultsCounted ==
  ASSUME faults \in 0..MaxFaults, NoFault \/ Fault
  PROVE  faults' \in 0..MaxFaults
BY MaxFaultsAssumption DEF NoFault, Fault

\* What a write leaves at the path, as a record.
LEMMA ContentIs ==
  ASSUME NEW p \in Procs, NEW w \in BOOLEAN
  PROVE  Content(p, w) = IF record = [by |-> p, whole |-> FALSE]
                         THEN [by |-> p, whole |-> w] ELSE record
<1>1. CASE record = [by |-> p, whole |-> FALSE]
  <2>1. [record EXCEPT !.whole = w] = [by |-> p, whole |-> w]
    BY <1>1
  <2> QED
    BY <1>1, <2>1 DEF Content
<1>2. CASE record # [by |-> p, whole |-> FALSE]
  BY <1>2 DEF Content
<1> QED
  BY <1>1, <1>2

\* A record is not the missing file.
LEMMA RecordIsAFile ==
  ASSUME NEW q \in Procs, NEW w \in BOOLEAN
  PROVE  /\ [by |-> q, whole |-> w] \in Records
         /\ [by |-> q, whole |-> w] # NoFile
<1>1. [by |-> q, whole |-> w] \in Records
  BY DEF Records
<1> QED
  BY <1>1, NullsAssumption

\* RInv is preserved by every action; one lemma each.

LEMMA StartRInv ==
  ASSUME RInv, NEW p \in Procs, Start(p)
  PROVE  RInv'
<1> USE DEF RInv
<1>1. TypeOK'
  BY DEF TypeOK, LeaseTypeOK, StoreTypeOK, Labels, Start, Go, leaseVars, storeVars, stepVars
<1>2. NotTorn'
  BY DEF NotTorn, Start, storeVars
<1>3. LeaseInv'
  BY DEF LeaseInv, IsStale, Start, leaseVars
<1>4. StageInv'
  BY DEF StageInv, Working, Start, Go, leaseVars
<1>5. SaveInv'
  BY DEF SaveInv, Start, Go, storeVars, stepVars
<1>6. BarrierInv'
  BY DEF BarrierInv, Start, Go, storeVars, stepVars
<1> QED
  BY <1>1, <1>2, <1>3, <1>4, <1>5, <1>6

LEMMA AcquireRInv ==
  ASSUME RInv, NEW p \in Procs, Acquire(p)
  PROVE  RInv'
<1> USE DEF RInv
<1>1. TypeOK'
  <2>1. CASE Create(p)
    BY <2>1 DEF Acquire, Create, Stage, Stages, Labels, Go, Records, TypeOK, LeaseTypeOK,
       StoreTypeOK, storeVars, stepVars
  <2>2. CASE WriteRecord(p)
    <3>1. record' \in Records \cup {NoFile}
      <4>1. \A w \in BOOLEAN : Content(p, w) \in Records \cup {NoFile}
        BY ContentIs, RecordIsAFile DEF TypeOK, LeaseTypeOK
      <4> QED
        BY <2>2, <4>1 DEF WriteRecord
    <3>2. hold' \in [Procs -> Stages] /\ pc' \in [Procs -> Labels]
      BY <2>2
      DEF Acquire, Create, WriteRecord, RemoveRecord, Stage, Stages, Labels, Go, TypeOK,
          LeaseTypeOK, leaseVars
    <3>3. faults' \in 0..MaxFaults
      BY <2>2, FaultsCounted DEF WriteRecord, TypeOK
    <3> QED
      BY <2>2, <3>1, <3>2, <3>3
      DEF Acquire, WriteRecord, TypeOK, LeaseTypeOK, StoreTypeOK, storeVars, stepVars
  <2>3. CASE RemoveRecord(p)
    BY <2>3, MaxFaultsAssumption
    DEF Acquire, RemoveRecord, Unlink, Stage, Stages, Labels, Go, NoFault, Fault, TypeOK, LeaseTypeOK,
       StoreTypeOK, storeVars, stepVars
  <2>4. CASE UNCHANGED leaseVars
    <3>1. pc' \in [Procs -> Labels]
      BY <2>4 DEF Acquire, Create, WriteRecord, RemoveRecord, Labels, Go, TypeOK
    <3>2. faults' \in 0..MaxFaults
      BY <2>4, FaultsCounted DEF Acquire, Create, WriteRecord, RemoveRecord, NoFault, TypeOK
    <3> QED
      BY <2>4, <3>1, <3>2
      DEF Acquire, TypeOK, LeaseTypeOK, StoreTypeOK, leaseVars, storeVars, stepVars
  <2> QED
    BY <2>1, <2>2, <2>3, <2>4 DEF Acquire
<1>2. NotTorn'
  BY DEF NotTorn, Acquire, storeVars
<1>3. LeaseInv'
  <2>1. CASE Create(p)
    <3>1. record' # NoFile /\ record'.by = p
      BY <2>1, RecordIsAFile DEF Create
    <3>2. \A q \in Procs : hold'[q] = IF q = p THEN "created" ELSE hold[q]
      BY <2>1 DEF Create, Stage, TypeOK, LeaseTypeOK
    <3> QED
      BY <2>1, <3>1, <3>2 DEF Create, LeaseInv, IsStale
  <2>2. CASE WriteRecord(p)
    <3>1. record = [by |-> p, whole |-> FALSE] \/ record.whole
      BY <2>2 DEF WriteRecord, LeaseInv, TypeOK, LeaseTypeOK, Records
    <3>2. \A w \in BOOLEAN : LET c == Content(p, w) IN c # NoFile /\ c.by = p
      BY <2>2, ContentIs, RecordIsAFile DEF WriteRecord, LeaseInv
    <3>3. Content(p, TRUE).whole
      <4>1. CASE record = [by |-> p, whole |-> FALSE]
        <5>1. Content(p, TRUE) = [by |-> p, whole |-> TRUE]
          BY <4>1, ContentIs
        <5>2. [by |-> p, whole |-> TRUE].whole = TRUE
          OBVIOUS
        <5> QED
          BY <5>1, <5>2, Zenon
      <4>2. CASE record # [by |-> p, whole |-> FALSE]
        BY <3>1, <4>2 DEF Content
      <4> QED
        BY <4>1, <4>2
    <3>4. record' # NoFile /\ record'.by = p /\ (hold'[p] = "in" => record'.whole)
      BY <2>2, <3>2, <3>3 DEF WriteRecord, Stage, TypeOK, LeaseTypeOK
    <3> QED
      BY <2>2, <3>4, OneHolder DEF WriteRecord, Stage, LeaseInv, IsStale, TypeOK, LeaseTypeOK
  <2>3. CASE RemoveRecord(p)
    BY <2>3, OneHolder DEF RemoveRecord, Unlink, Stage, LeaseInv, IsStale, TypeOK, LeaseTypeOK
  <2>4. CASE UNCHANGED leaseVars
    BY <2>4 DEF leaseVars, LeaseInv, IsStale
  <2> QED
    BY <2>1, <2>2, <2>3, <2>4 DEF Acquire
<1>4. StageInv'
  BY DEF StageInv, Working, TypeOK, LeaseTypeOK, Acquire, Create, WriteRecord, RemoveRecord,
     Stage, Go, leaseVars
<1>5. SaveInv'
  BY DEF SaveInv, TypeOK, Acquire, Go, storeVars, stepVars
<1>6. BarrierInv'
  BY DEF BarrierInv, TypeOK, Acquire, Go, storeVars, stepVars
<1> QED
  BY <1>1, <1>2, <1>3, <1>4, <1>5, <1>6

LEMMA LoadRInv ==
  ASSUME RInv, NEW p \in Procs, Load(p)
  PROVE  RInv'
<1> USE DEF RInv
<1>1. TypeOK'
  BY ContentsAssumption, MaxFaultsAssumption DEF TypeOK, LeaseTypeOK, StoreTypeOK, Labels,
     Load, NextSave, NoFault, Fault, Go, leaseVars, storeVars
<1>2. NotTorn'
  BY DEF NotTorn, Load, storeVars
<1>3. LeaseInv'
  BY DEF LeaseInv, IsStale, Load, leaseVars
<1>4. StageInv'
  BY DEF StageInv, Working, TypeOK, Load, Go, leaseVars
<1>5. SaveInv'
  BY DEF SaveInv, TypeOK, Load, Go, storeVars
<1>6. BarrierInv'
  <2>1. view' = view /\ sent' = sent /\ losses' = losses
    BY DEF Load, storeVars
  <2>2. ASSUME NEW c \in NextSave(view), cp' = [cp EXCEPT ![p] = c],
               Go(p, IF view = "pending" /\ c = "uncertain" THEN "ahead" ELSE "after")
        PROVE  BarrierInv'
    <3>1. c = "pending" => view = "pending"
      BY <2>2, ContentsAssumption DEF NextSave, NotTorn
    <3> QED
      BY <2>1, <2>2, <3>1 DEF BarrierInv, TypeOK, Go
  <2>3. CASE Go(p, "release") /\ UNCHANGED cp
    BY <2>1, <2>3 DEF BarrierInv, TypeOK, Go
  <2> QED
    BY <2>2, <2>3 DEF Load
<1> QED
  BY <1>1, <1>2, <1>3, <1>4, <1>5, <1>6

LEMMA SaveRInv ==
  ASSUME RInv, NEW p \in Procs, Save(p)
  PROVE  RInv'
<1> USE DEF RInv
<1>1. TypeOK'
  <2>1. temp' \in [Procs -> Temps \cup {NoTemp}]
    <3>1. \A x \in Temps \cup {NoTemp} : [temp EXCEPT ![p] = x] \in [Procs -> Temps \cup {NoTemp}]
      BY DEF TypeOK, StoreTypeOK
    <3>2. [data |-> cp[p], synced |-> FALSE] \in Temps
      BY DEF TypeOK, Temps
    <3>3. temp[p] # NoTemp => [temp[p] EXCEPT !.synced = TRUE] \in Temps
      BY DEF TypeOK, StoreTypeOK, Temps
    <3> QED
      BY <3>1, <3>2, <3>3 DEF Save, WriteTemp, SyncTemp, RenameTemp, SaveFails
  <2>2. view' \in Contents \cup {Torn} /\ onDisk' \subseteq Contents \cup {Torn}
    BY DEF Save, WriteTemp, SyncTemp, RenameTemp, SaveFails, Temps, TypeOK, StoreTypeOK
  <2>3. pc' \in [Procs -> Labels] /\ base' \in [Procs -> Contents \cup {Torn}]
    BY DEF Save, Go, Labels, TypeOK
  <2>4. faults' \in 0..MaxFaults
    BY FaultsCounted DEF Save, SaveFails, TypeOK
  <2> QED
    BY <2>1, <2>2, <2>3, <2>4 DEF Save, TypeOK, LeaseTypeOK, StoreTypeOK, leaseVars
<1>2. NotTorn'
  BY DEF NotTorn, TypeOK, StoreTypeOK, Save, WriteTemp, SyncTemp, RenameTemp, SaveFails,
     Temps
<1>3. LeaseInv'
  BY DEF LeaseInv, IsStale, Save, leaseVars
<1>4. StageInv'
  BY DEF StageInv, Working, TypeOK, Save, Go, leaseVars
<1>5. SaveInv'
  <2>1. CASE WriteTemp(p, cp[p]) /\ UNCHANGED <<pc, base>>
    BY <2>1, OneHolder
    DEF WriteTemp, Save, Temps, SaveInv, StageInv, Working, TypeOK, LeaseTypeOK, StoreTypeOK
  <2>2. CASE SyncTemp(p) /\ UNCHANGED <<pc, base>>
    BY <2>2, OneHolder
    DEF SyncTemp, Save, Temps, SaveInv, StageInv, Working, TypeOK, LeaseTypeOK, StoreTypeOK
  <2>3. CASE RenameTemp(p) /\ Go(p, IF pc[p] = "ahead" THEN "send" ELSE "release")
             /\ base' = [base EXCEPT ![p] = cp[p]]
    BY <2>3, OneHolder
    DEF RenameTemp, Go, Save, Temps, SaveInv, StageInv, Working, TypeOK, LeaseTypeOK, StoreTypeOK
  <2>4. CASE SaveFails(p) /\ Go(p, "release") /\ UNCHANGED base
    BY <2>4, OneHolder
    DEF SaveFails, Go, Save, Temps, SaveInv, StageInv, Working, TypeOK, LeaseTypeOK, StoreTypeOK
  <2> QED
    BY <2>1, <2>2, <2>3, <2>4 DEF Save
<1>6. BarrierInv'
  <2>1. CASE WriteTemp(p, cp[p]) /\ UNCHANGED <<pc, base>>
    BY <2>1, OneHolder
    DEF WriteTemp, Save, SaveInv, BarrierInv, StageInv, Working, TypeOK, LeaseTypeOK, StoreTypeOK
  <2>2. CASE SyncTemp(p) /\ UNCHANGED <<pc, base>>
    BY <2>2, OneHolder
    DEF SyncTemp, Save, SaveInv, BarrierInv, StageInv, Working, TypeOK, LeaseTypeOK, StoreTypeOK
  <2>3. CASE RenameTemp(p) /\ Go(p, IF pc[p] = "ahead" THEN "send" ELSE "release")
             /\ base' = [base EXCEPT ![p] = cp[p]]
    BY <2>3, OneHolder
    DEF RenameTemp, Go, Save, SaveInv, BarrierInv, StageInv, Working, TypeOK, LeaseTypeOK,
        StoreTypeOK
  <2>4. CASE SaveFails(p) /\ Go(p, "release") /\ UNCHANGED base
    BY <2>4, OneHolder
    DEF SaveFails, Go, Save, SaveInv, BarrierInv, StageInv, Working, TypeOK, LeaseTypeOK,
        StoreTypeOK
  <2> QED
    BY <2>1, <2>2, <2>3, <2>4 DEF Save
<1> QED
  BY <1>1, <1>2, <1>3, <1>4, <1>5, <1>6

LEMMA SendRInv ==
  ASSUME RInv, NEW p \in Procs, Send(p)
  PROVE  RInv'
<1> USE DEF RInv
<1>1. TypeOK'
  BY ContentsAssumption DEF TypeOK, LeaseTypeOK, StoreTypeOK, Labels, Send, Go, leaseVars,
     storeVars
<1>2. NotTorn'
  BY DEF NotTorn, Send, storeVars
<1>3. LeaseInv'
  BY DEF LeaseInv, IsStale, Send, leaseVars
<1>4. StageInv'
  BY DEF StageInv, Working, Send, Go, leaseVars
<1>5. SaveInv'
  BY DEF SaveInv, TypeOK, Send, Go, storeVars
<1>6. BarrierInv'
  BY OneHolder DEF Send, Go, storeVars, BarrierInv, StageInv, Working, TypeOK
<1> QED
  BY <1>1, <1>2, <1>3, <1>4, <1>5, <1>6

LEMMA ReleaseRInv ==
  ASSUME RInv, NEW p \in Procs, Release(p)
  PROVE  RInv'
<1> USE DEF RInv
<1>1. TypeOK'
  BY MaxFaultsAssumption DEF TypeOK, LeaseTypeOK, StoreTypeOK, Stages, Labels, Release,
     ReadRecord, RemoveRecord, Unlink, Stage, NoFault, Fault, Go, storeVars, stepVars
<1>2. NotTorn'
  BY DEF NotTorn, Release, storeVars
<1>3. LeaseInv'
  BY DEF LeaseInv, IsStale, TypeOK, LeaseTypeOK, Release, ReadRecord, RemoveRecord, Unlink, Stage
<1>4. StageInv'
  BY DEF StageInv, Working, TypeOK, LeaseTypeOK, Release, ReadRecord, RemoveRecord, Stage,
     Go
<1>5. SaveInv'
  BY DEF SaveInv, Release, Go, storeVars, stepVars
<1>6. BarrierInv'
  BY DEF BarrierInv, Release, Go, storeVars, stepVars
<1> QED
  BY <1>1, <1>2, <1>3, <1>4, <1>5, <1>6

LEMMA CrashRInv ==
  ASSUME RInv, NEW p \in Procs, Crash(p)
  PROVE  RInv'
<1> USE DEF RInv
<1>1. TypeOK'
  BY MaxFaultsAssumption DEF TypeOK, LeaseTypeOK, StoreTypeOK, Stages, Labels, Crash, Stage,
     Fault, Go, stepVars
<1>2. NotTorn'
  BY DEF NotTorn, Crash
<1>3. LeaseInv'
  BY DEF LeaseInv, IsStale, Crash, Stage
<1>4. StageInv'
  BY DEF StageInv, Working, TypeOK, LeaseTypeOK, Crash, Stage, Go
<1>5. SaveInv'
  BY DEF SaveInv, TypeOK, StoreTypeOK, Crash, Go, stepVars
<1>6. BarrierInv'
  BY DEF BarrierInv, Crash, Go, stepVars
<1> QED
  BY <1>1, <1>2, <1>3, <1>4, <1>5, <1>6

LEMMA PowerLossRInv ==
  ASSUME RInv, PowerLoss
  PROVE  RInv'
<1> USE DEF RInv
<1>1. TypeOK'
  BY MaxFaultsAssumption DEF TypeOK, LeaseTypeOK, StoreTypeOK, Stages, Labels, PowerLoss,
     Fault, LeaseAfterPowerLoss, StoreAfterPowerLoss
<1>2. NotTorn'
  BY DEF NotTorn, PowerLoss, StoreAfterPowerLoss
<1>3. LeaseInv'
  BY DEF LeaseInv, PowerLoss, LeaseAfterPowerLoss
<1>4. StageInv'
  BY DEF StageInv, Working, PowerLoss
<1>5. SaveInv'
  BY DEF SaveInv, PowerLoss, StoreAfterPowerLoss
<1>6. BarrierInv'
  BY DEF BarrierInv, TypeOK, PowerLoss
<1> QED
  BY <1>1, <1>2, <1>3, <1>4, <1>5, <1>6

LEMMA OperateRInv ==
  ASSUME RInv, Operate
  PROVE  RInv'
<1> USE DEF RInv
<1>1. TypeOK'
  BY DEF TypeOK, LeaseTypeOK, StoreTypeOK, Operate, Look, RemoveStale, Unlink, storeVars, stepVars
<1>2. NotTorn'
  BY DEF NotTorn, Operate, storeVars
<1>3. LeaseInv'
  BY DEF LeaseInv, IsStale, Operate, Look, RemoveStale, Unlink
<1>4. StageInv'
  BY DEF StageInv, Operate, Look, RemoveStale
<1>5. SaveInv'
  BY DEF SaveInv, Operate, storeVars, stepVars
<1>6. BarrierInv'
  BY DEF BarrierInv, Operate, storeVars, stepVars
<1> QED
  BY <1>1, <1>2, <1>3, <1>4, <1>5, <1>6

LEMMA WriteBackRInv ==
  ASSUME RInv, WriteBack
  PROVE  RInv'
<1> USE DEF RInv
<1>1. TypeOK'
  BY DEF TypeOK, LeaseTypeOK, StoreTypeOK, WriteBack, Flush, FlushLease, leaseVars, storeVars,
     stepVars
<1>2. NotTorn'
  BY DEF NotTorn, WriteBack, Flush, FlushLease, storeVars
<1>3. LeaseInv'
  BY DEF LeaseInv, IsStale, WriteBack, FlushLease, leaseVars
<1>4. StageInv'
  BY DEF StageInv, WriteBack, FlushLease, leaseVars
<1>5. SaveInv'
  BY DEF SaveInv, WriteBack, Flush, FlushLease, storeVars, stepVars
<1>6. BarrierInv'
  BY DEF BarrierInv, WriteBack, Flush, FlushLease, storeVars, stepVars
<1> QED
  BY <1>1, <1>2, <1>3, <1>4, <1>5, <1>6

----------------------------------------------------------------------------
(* Theorems. *)

LEMMA NextRInv ==
  ASSUME RInv, [Next]_vars
  PROVE  RInv'
<1>1. CASE UNCHANGED vars
  BY <1>1 DEF vars, leaseVars, storeVars, stepVars, RInv, TypeOK, LeaseTypeOK, StoreTypeOK,
     NotTorn, LeaseInv, IsStale, StageInv, SaveInv, BarrierInv
<1>2. ASSUME NEW p \in Procs, ProcStep(p) PROVE RInv'
  BY <1>2, StartRInv, AcquireRInv, LoadRInv, SaveRInv, SendRInv, ReleaseRInv, CrashRInv DEF ProcStep
<1> QED
  BY <1>1, <1>2, PowerLossRInv, OperateRInv, WriteBackRInv DEF Next

THEOREM Invariance == Spec => []RInv
BY InitRInv, NextRInv, PTL DEF Spec

\* The state is well typed (RunFiles over FileLease and FileStore).
THEOREM TypeCorrect == Spec => []TypeOK
BY Invariance, PTL DEF RInv

\* Whoever inspects the lease is never told that it is free while it is held,
\* and is told that it is owned while its process works (InspectLease).
THEOREM Inspections == Spec => []InspectionTellsTheTruth
<1>1. RInv => InspectionTellsTheTruth
  BY DEF RInv, LeaseInv, InspectionTellsTheTruth, Inspection, IsOwnRecord
<1> QED
  BY <1>1, Invariance, PTL

\* No reader of the checkpoint file finds a torn one (FileStore.Save).
THEOREM Torns == Spec => []NeverTorn
<1>1. RInv => NeverTorn
  BY NullsAssumption DEF RInv, NotTorn, NeverTorn
<1> QED
  BY <1>1, Invariance, PTL

\* While the power stays on, no checkpoint that reopens the POST follows one that
\* closed it (the write-ahead Save of stepLocked).
THEOREM Barrier == Spec => []BarrierHoldsWithPower
<1>1. RInv => BarrierHoldsWithPower
  BY DEF RInv, TypeOK, BarrierInv, BarrierHoldsWithPower
<1> QED
  BY <1>1, Invariance, PTL

\* A power loss costs one duplicate of the POST at most (FileStore.Save).
THEOREM Duplicates == Spec => []OneDuplicatePerPowerLoss
<1>1. RInv => OneDuplicatePerPowerLoss
  BY DEF RInv, BarrierInv, OneDuplicatePerPowerLoss
<1> QED
  BY <1>1, Invariance, PTL

\* No Save overwrites what another process has saved since (FileLease, FileStore).
THEOREM NoLostUpdate == Spec => SavesBuildOnTheFile
<1> DEFINE A == \A p \in Procs : Renames(p) => view = base[p]
<1>1. RInv => A
  BY DEF RInv, SaveInv, Renames
<1> QED
  BY <1>1, Invariance, PTL DEF SavesBuildOnTheFile

----------------------------------------------------------------------------
(* The file operations implement the lock. *)

Holders == {p \in Procs : hold[p] # "out"}

\* Whoever is past the create is there alone.
LEMMA Alone ==
  ASSUME RInv, NEW p \in Procs, hold[p] # "out"
  PROVE  Holders = {p} /\ ~IsStale
BY OneHolder DEF RInv, LeaseInv, Holders, IsStale

\* A process that leaves the lease behind, or gives it back.
LEMMA Leaves ==
  ASSUME RInv, NEW p \in Procs, hold[p] # "out", Stage(p, "out"), record' \in {record, NoFile}
  PROVE  Lock!Give(p) \/ Lock!Lose(p)
<1>1. Holders = {p} /\ ~IsStale /\ record # NoFile /\ record.by = p
  BY Alone DEF RInv, LeaseInv
<1>2. hold' = [hold EXCEPT ![p] = "out"] /\ hold \in [Procs -> Stages]
  BY DEF Stage, RInv, TypeOK, LeaseTypeOK
<1>3. Holders' = {}
  BY <1>1, <1>2 DEF Holders
<1>4. IsStale' \in BOOLEAN /\ (IsStale' <=> record' # NoFile)
  BY <1>1, <1>2 DEF IsStale
<1>5. CASE record' = NoFile
  BY <1>1, <1>3, <1>4, <1>5 DEF Lock!Give, Holders, IsStale
<1>6. CASE record' = record
  BY <1>1, <1>3, <1>4, <1>6 DEF Lock!Lose, Holders, IsStale
<1> QED
  BY <1>5, <1>6

\* A process that moves on inside the lease is not seen by the lock.
LEMMA MovesOn ==
  ASSUME RInv, NEW p \in Procs, hold[p] # "out", NEW s \in Stages \ {"out"}, Stage(p, s),
         record' # NoFile, record'.by = p
  PROVE  UNCHANGED <<Holders, IsStale>>
<1>1. hold' = [hold EXCEPT ![p] = s] /\ hold \in [Procs -> Stages]
  BY DEF Stage, RInv, TypeOK, LeaseTypeOK
<1>2. Holders' = Holders
  BY <1>1 DEF Holders
<1>3. ~IsStale /\ ~IsStale'
  BY <1>1, Alone DEF IsStale
<1>4. IsStale' = IsStale
  BY <1>3 DEF IsStale
<1> QED
  BY <1>2, <1>4

\* A process that creates the record takes the lock.
LEMMA Creates ==
  ASSUME RInv, NEW p \in Procs, Create(p)
  PROVE  Lock!Take(p)
<1>1. Holders = {} /\ ~IsStale
  BY DEF RInv, LeaseInv, Holders, Create, IsStale
<1>2. hold' = [hold EXCEPT ![p] = "created"] /\ hold \in [Procs -> Stages]
  BY DEF Create, Stage, RInv, TypeOK, LeaseTypeOK
<1>3. Holders' = {p} /\ ~IsStale'
  BY <1>1, <1>2 DEF Create, Holders, IsStale
<1> QED
  BY <1>1, <1>3, Zenon DEF Lock!Take, Holders, IsStale

\* Only while a process works, or releases, is it past the create.
LEMMA LockStep ==
  ASSUME RInv, RInv', [Next]_vars
  PROVE  [Lock!Next]_<<Holders, IsStale>>
<1>1. CASE UNCHANGED leaseVars
  BY <1>1 DEF leaseVars, Holders, IsStale
<1>2. ASSUME NEW p \in Procs, WriteRecord(p) PROVE UNCHANGED <<Holders, IsStale>>
  <2>1. PICK s \in {"in", "failing"} : Stage(p, s)
    BY <1>2 DEF WriteRecord
  <2>2. hold[p] # "out" /\ hold'[p] # "out"
    BY <1>2, <2>1 DEF WriteRecord, Stage, RInv, TypeOK, LeaseTypeOK
  <2> QED
    BY <2>1, <2>2, MovesOn DEF Stages, RInv, LeaseInv
<1>3. ASSUME NEW p \in Procs, RemoveRecord(p) PROVE Lock!Next
  BY <1>3, Leaves DEF RemoveRecord, Unlink, Lock!Next
<1>4. ASSUME NEW p \in Procs, ReadRecord(p) PROVE [Lock!Next]_<<Holders, IsStale>>
  <2>1. CASE Stage(p, "out")
    BY <1>4, <2>1, Leaves DEF ReadRecord, Lock!Next
  <2>2. CASE Stage(p, "checked")
    BY <1>4, <2>2, MovesOn DEF ReadRecord, Stages, RInv, LeaseInv
  <2> QED
    BY <1>4, <2>1, <2>2 DEF ReadRecord
<1>5. ASSUME NEW p \in Procs, ProcStep(p) PROVE [Lock!Next]_<<Holders, IsStale>>
  <2>1. CASE Start(p) \/ Load(p) \/ Save(p) \/ Send(p)
    BY <1>1, <2>1 DEF Start, Load, Save, Send
  <2>2. CASE Acquire(p)
    BY <1>1, <1>2, <1>3, <2>2, Creates DEF Acquire, Lock!Next
  <2>3. CASE Release(p)
    BY <1>3, <1>4, <2>3 DEF Release
  <2>4. CASE Crash(p)
    <3>1. CASE hold[p] = "out"
      BY <1>1, <2>4, <3>1 DEF Crash, Stage, leaseVars, RInv, TypeOK, LeaseTypeOK
    <3>2. CASE hold[p] # "out"
      BY <2>4, <3>2, Leaves DEF Crash, Lock!Next
    <3> QED
      BY <3>1, <3>2
  <2> QED
    BY <1>5, <2>1, <2>2, <2>3, <2>4 DEF ProcStep
<1>6. CASE Operate
  <2>1. CASE Look
    BY <2>1 DEF Look, Holders, IsStale
  <2>2. CASE RemoveStale
    <3>1. IsStale /\ ~IsStale' /\ Holders' = Holders
      BY <2>2 DEF RemoveStale, Unlink, Holders, IsStale, RInv, LeaseInv
    <3> QED
      BY <3>1, Zenon DEF Lock!Next, Lock!Clear, Holders, IsStale
  <2> QED
    BY <1>6, <2>1, <2>2 DEF Operate
<1>7. CASE PowerLoss
  <2>1. /\ Holders' = {}
        /\ IsStale' \in BOOLEAN /\ (IsStale' <=> record' # NoFile)
    BY <1>7 DEF PowerLoss, LeaseAfterPowerLoss, Holders, IsStale, RInv, TypeOK, LeaseTypeOK, Records
  <2>2. CASE \E p \in Procs : hold[p] # "out"
    <3>1. PICK p \in Procs : hold[p] # "out"
      BY <2>2
    <3>2. Holders = {p} /\ ~IsStale /\ record # NoFile
      BY <3>1, Alone DEF RInv, LeaseInv
    <3>3. Lock!Give(p) \/ Lock!Lose(p)
      BY <2>1, <3>2 DEF Lock!Give, Lock!Lose, Holders, IsStale
    <3> QED
      BY <3>3 DEF Lock!Next
  <2>3. CASE \A p \in Procs : hold[p] = "out"
    <3>1. Holders = {} /\ (IsStale <=> record # NoFile) /\ IsStale \in BOOLEAN
      BY <2>3 DEF Holders, IsStale, RInv, TypeOK, LeaseTypeOK, Records
    <3> QED
      BY <2>1, <3>1 DEF Lock!Next, Lock!Clear, Lock!Appear, Holders, IsStale
  <2> QED
    BY <2>2, <2>3
<1>8. CASE WriteBack \/ UNCHANGED vars
  BY <1>1, <1>8 DEF WriteBack, FlushLease, Holders, IsStale, vars
<1> QED
  BY <1>5, <1>6, <1>7, <1>8 DEF Next

\* With torn records, failing writes and removals, crashes, power losses and an
\* operator who clears stale leases, the lease file is a lock (FileLease).
THEOREM LeaseFileIsALock == Spec => ImplementsRunLock
<1>1. Init => Lock!Init
  BY DEF Init, LeaseInit, Lock!Init, IsStale
<1>2. RInv /\ RInv' /\ [Next]_vars => [Lock!Next]_<<Holders, IsStale>>
  BY LockStep
<1> QED
  BY <1>1, <1>2, Invariance, PTL DEF Spec, ImplementsRunLock, Lock!Spec, Holders
=============================================================================
