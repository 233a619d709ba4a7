-------------------------------- MODULE RunFiles --------------------------------
(***************************************************************************)
(* The two files of a task together: processes that take the lease, load   *)
(* the checkpoint, save it before and after the POST, and release, one     *)
(* file operation at a time (Dispatcher.Step over FileLease and FileStore).*)
(* Everything else of a Step is left out; module Dispatcher has it, over   *)
(* files whose operations do not interleave.                               *)
(***************************************************************************)
EXTENDS FileLease, FileStore

\* Of a checkpoint counts what it says of the text: not sent; perhaps; sent.
ASSUME ContentsAssumption == Contents = {"pending", "uncertain", "delivered"}
ASSUME NullsAssumption == Torn \notin Contents /\ NoTemp \notin Temps /\ NoFile \notin Records

VARIABLES pc,      \* where each process is
          cp,      \* the checkpoint in its memory
          base,    \* the content it loaded or saved last (auxiliary)
          sent,    \* POSTs that AO has accepted, or may yet
          losses   \* power losses

stepVars == <<cp, base, sent, losses>>
vars == <<leaseVars, storeVars, pc, stepVars, faults>>

Labels == {"down", "acquire", "load", "ahead", "send", "after", "release"}

TypeOK ==
  /\ LeaseTypeOK /\ StoreTypeOK
  /\ pc \in [Procs -> Labels]
  /\ cp \in [Procs -> Contents]
  /\ base \in [Procs -> Contents \cup {Torn}]
  /\ sent \in Nat /\ losses \in Nat /\ faults \in 0..MaxFaults

Init ==
  /\ LeaseInit
  /\ StoreInit("pending")
  /\ pc = [p \in Procs |-> "down"]
  /\ cp = [p \in Procs |-> "pending"]
  /\ base = [p \in Procs |-> "pending"]
  /\ sent = 0 /\ losses = 0 /\ faults = 0

Go(p, label) == pc' = [pc EXCEPT ![p] = label]

----------------------------------------------------------------------------
Start(p) ==
  /\ pc[p] = "down"
  /\ Go(p, "acquire")
  /\ UNCHANGED <<leaseVars, storeVars, stepVars, faults>>

\* Acquire; a lease that is held, or cannot be created, ends the Step.
Acquire(p) ==
  /\ pc[p] = "acquire"
  /\ \/ Create(p) /\ Go(p, "acquire")
     \/ WriteRecord(p) /\ Go(p, IF hold'[p] = "in" THEN "load" ELSE "acquire")
     \/ RemoveRecord(p) /\ Go(p, "down")
     \/ /\ hold[p] = "out"
        /\ \/ record # NoFile /\ NoFault
           \/ Fault
        /\ Go(p, "down")
        /\ UNCHANGED leaseVars
  /\ UNCHANGED <<storeVars, stepVars>>

\* What a Step may save next, after it has loaded a checkpoint: the write-ahead of
\* a POST, what it has learned of one, or a failure that it has counted.
NextSave(content) ==
  CASE content = "pending"   -> {"pending", "uncertain"}
    [] content = "uncertain" -> {"uncertain"} \cup (IF sent > 0 THEN {"delivered"} ELSE {})
    [] content = "delivered" -> {"delivered"}
    [] content = Torn        -> {}

\* A Step that has nothing to do, or cannot read the file, saves nothing.
Load(p) ==
  /\ pc[p] = "load"
  /\ \/ /\ NoFault
        /\ base' = [base EXCEPT ![p] = view]
        /\ \/ \E c \in NextSave(view) :
                /\ cp' = [cp EXCEPT ![p] = c]
                /\ Go(p, IF view = "pending" /\ c = "uncertain" THEN "ahead" ELSE "after")
           \/ Go(p, "release") /\ UNCHANGED cp
     \/ Fault /\ Go(p, "release") /\ UNCHANGED <<base, cp>>
  /\ UNCHANGED <<leaseVars, storeVars, sent, losses>>

\* One file operation of Save.
Save(p) ==
  /\ pc[p] \in {"ahead", "after"}
  /\ \/ WriteTemp(p, cp[p]) /\ NoFault /\ UNCHANGED <<pc, base>>
     \/ SyncTemp(p) /\ NoFault /\ UNCHANGED <<pc, base>>
     \/ /\ RenameTemp(p) /\ NoFault
        /\ Go(p, IF pc[p] = "ahead" THEN "send" ELSE "release")
        /\ base' = [base EXCEPT ![p] = cp[p]]
     \/ SaveFails(p) /\ Go(p, "release") /\ UNCHANGED base
  /\ UNCHANGED <<leaseVars, cp, sent, losses>>

\* Mutant: a reply that is lost counts as a refusal.
Send_LostIsRefused(p) ==
  /\ pc[p] = "send"
  /\ \/ sent' = sent + 1 /\ \E c \in {"delivered", "pending"} : cp' = [cp EXCEPT ![p] = c]
     \/ UNCHANGED sent /\ cp' = [cp EXCEPT ![p] = "pending"]
  /\ Go(p, "after")
  /\ UNCHANGED <<leaseVars, storeVars, base, losses, faults>>

\* Mutant: after an error the zero checkpoint is saved.
Send_SavesZero(p) ==
  /\ pc[p] = "send"
  /\ \/ sent' = sent + 1 /\ cp' = [cp EXCEPT ![p] = "delivered"]
     \/ UNCHANGED sent /\ cp' = [cp EXCEPT ![p] = "zero"]
  /\ Go(p, "after")
  /\ UNCHANGED <<leaseVars, storeVars, base, losses, faults>>

\* The POST is accepted, and the reply may be lost; or it is not accepted, and
\* only a definite refusal reopens the task.
Send(p) ==
  /\ pc[p] = "send"
  /\ \/ sent' = sent + 1 /\ \E c \in {"delivered", "uncertain"} : cp' = [cp EXCEPT ![p] = c]
     \/ UNCHANGED sent /\ \E c \in {"pending", "uncertain"} : cp' = [cp EXCEPT ![p] = c]
  /\ Go(p, "after")
  /\ UNCHANGED <<leaseVars, storeVars, base, losses, faults>>

Release(p) ==
  /\ pc[p] = "release"
  /\ ReadRecord(p) \/ RemoveRecord(p)
  /\ Go(p, IF hold'[p] = "out" THEN "down" ELSE "release")
  /\ UNCHANGED <<storeVars, stepVars>>

----------------------------------------------------------------------------
Crash(p) ==
  /\ pc[p] # "down"
  /\ Fault
  /\ Go(p, "down")
  /\ Stage(p, "out")
  /\ temp' = [temp EXCEPT ![p] = NoTemp]
  /\ UNCHANGED <<record, unlinked, operator, view, onDisk, stepVars>>

PowerLoss ==
  /\ Fault
  /\ pc' = [p \in Procs |-> "down"]
  /\ hold' = [p \in Procs |-> "out"]
  /\ LeaseAfterPowerLoss
  /\ StoreAfterPowerLoss
  /\ losses' = losses + 1
  /\ UNCHANGED <<cp, base, sent>>

Operate == (Look \/ RemoveStale) /\ UNCHANGED <<storeVars, pc, stepVars>>
WriteBack ==
  \/ Flush /\ UNCHANGED <<leaseVars, pc, stepVars>>
  \/ FlushLease /\ UNCHANGED <<storeVars, pc, stepVars>>

ProcStep(p) ==
  \/ Start(p) \/ Acquire(p) \/ Load(p) \/ Save(p) \/ Send(p) \/ Release(p) \/ Crash(p)

Next == (\E p \in Procs : ProcStep(p)) \/ PowerLoss \/ Operate \/ WriteBack

Spec == Init /\ [][Next]_vars
=============================================================================
