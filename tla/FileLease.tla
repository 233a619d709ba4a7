-------------------------------- MODULE FileLease --------------------------------
(***************************************************************************)
(* The lease file of one task (internal/recovery/lease.go), one file       *)
(* operation at a time.  cmd/recovery gives every process of a checkpoint  *)
(* the same owner id, so that the owner check of a release tells a whole   *)
(* record from a torn one and no process from another.                     *)
(***************************************************************************)
EXTENDS IOFaults

CONSTANT NoFile

VARIABLES record,    \* the lease file: who created it, is its content whole?
          unlinked,  \* removed records that may be found again after a power loss
          hold,      \* how far each process is with it
          operator   \* "sure": found the lease stale, about to remove it

leaseVars == <<record, unlinked, hold, operator>>

Records == [by: Procs, whole: BOOLEAN]
Stages == {"out", "created", "failing", "in", "checked"}

LeaseTypeOK ==
  /\ record \in Records \cup {NoFile}
  /\ unlinked \subseteq Records
  /\ hold \in [Procs -> Stages]
  /\ operator \in {"away", "sure"}

LeaseInit ==
  /\ record = NoFile
  /\ unlinked = {}
  /\ hold = [p \in Procs |-> "out"]
  /\ operator = "away"

Stage(p, s) == hold' = [hold EXCEPT ![p] = s]

\* os.Remove.
Unlink ==
  /\ record' = NoFile
  /\ unlinked' = IF record = NoFile THEN unlinked ELSE unlinked \cup {record}

\* A lease file that no living process stands for.
IsStale == record # NoFile /\ hold[record.by] = "out"

----------------------------------------------------------------------------
(* Acquire. *)

\* Mutant: the file is opened without O_EXCL.
Create_NotExclusive(p) ==
  /\ hold[p] = "out"
  /\ record' = [by |-> p, whole |-> FALSE]
  /\ Stage(p, "created")
  /\ UNCHANGED <<unlinked, operator, faults>>

\* O_EXCL: whoever creates the file holds the lease, before it has content.
Create(p) ==
  /\ hold[p] = "out"
  /\ record = NoFile
  /\ record' = [by |-> p, whole |-> FALSE]
  /\ Stage(p, "created")
  /\ UNCHANGED <<unlinked, operator, faults>>

\* What the open file gets shows at the path only while the path leads to it.
Content(p, w) ==
  IF record = [by |-> p, whole |-> FALSE] THEN [record EXCEPT !.whole = w] ELSE record

\* Write, Sync and Close.  When one of them fails the content is anybody's guess.
WriteRecord(p) ==
  /\ hold[p] = "created"
  /\ \/ record' = Content(p, TRUE) /\ Stage(p, "in") /\ NoFault
     \/ /\ Fault /\ Stage(p, "failing")
        /\ \E w \in BOOLEAN : record' = Content(p, w)
  /\ UNCHANGED <<unlinked, operator>>

\* The removal after a failure, and the last step of a release.  Its error is dropped.
RemoveRecord(p) ==
  /\ hold[p] \in {"failing", "checked"}
  /\ \/ Unlink /\ NoFault
     \/ UNCHANGED <<record, unlinked>> /\ Fault
  /\ Stage(p, "out")
  /\ UNCHANGED operator

----------------------------------------------------------------------------
(* Release: read the record, then remove whatever is at the path by then. *)

IsOwnRecord == record # NoFile /\ record.whole

ReadRecord(p) ==
  /\ hold[p] = "in"
  /\ \/ Stage(p, IF IsOwnRecord THEN "checked" ELSE "out") /\ NoFault
     \/ Stage(p, "out") /\ Fault
  /\ UNCHANGED <<record, unlinked, operator>>

----------------------------------------------------------------------------
(* InspectLease, for the run that the lease belongs to. *)

\* Mutant: a record that cannot be decoded counts as none.
Inspection_TornIsFree ==
  IF IsOwnRecord THEN "OWNED" ELSE "FREE"

Inspection ==
  CASE record = NoFile -> "FREE"
    [] IsOwnRecord     -> "OWNED"
    [] OTHER           -> "ERROR"

----------------------------------------------------------------------------
(* The code never breaks a stale lease.  The operator does, after checking  *)
(* that its process is gone; between the check and the removal anything     *)
(* may happen.                                                              *)

\* Mutant: the operator does not check that the process is gone.
Look_Careless ==
  /\ operator = "away" /\ record # NoFile
  /\ operator' = "sure"
  /\ UNCHANGED <<record, unlinked, hold, faults>>

Look ==
  /\ operator = "away" /\ IsStale
  /\ operator' = "sure"
  /\ UNCHANGED <<record, unlinked, hold, faults>>

RemoveStale ==
  /\ operator = "sure"
  /\ operator' = "away"
  /\ Unlink
  /\ UNCHANGED <<hold, faults>>

----------------------------------------------------------------------------
(* The file system.  The directory is not synced either.                    *)

\* It is written back in its own time.
FlushLease ==
  /\ unlinked # {}
  /\ unlinked' = {}
  /\ UNCHANGED <<record, hold, operator, faults>>

\* After a power loss the file may be gone, or one that was removed be there again.
LeaseAfterPowerLoss ==
  /\ record' \in {record, NoFile} \cup unlinked
  /\ unlinked' = {}
  /\ operator' = "away"
=============================================================================
