--------------------------- MODULE RunFilesProperties ---------------------------
(* What the lease file and the checkpoint file of a task have to guarantee. *)
EXTENDS RunFiles

Lock == INSTANCE RunLock
          WITH holders <- {p \in Procs : hold[p] # "out"}, stale <- IsStale

\* The file operations of Acquire and release, with torn records, failing writes
\* and an operator who clears stale files, are a lock (FileLease).
ImplementsRunLock == Lock!Spec

\* While a process holds the lease nobody who inspects it is told FREE, and
\* while it works it is seen to (InspectLease).
InspectionTellsTheTruth ==
  \A p \in Procs :
    /\ hold[p] # "out" => Inspection # "FREE"
    /\ hold[p] \in {"in", "checked"} => Inspection = "OWNED"

\* Process p renames its temporary file over the checkpoint.
Renames(p) == temp[p] # NoTemp /\ temp'[p] = NoTemp /\ faults' = faults

\* A Save replaces the very content that its process loaded or saved before: no
\* update of another process is lost (FileLease around FileStore.Save).
SavesBuildOnTheFile == [][\A p \in Procs : Renames(p) => view = base[p]]_vars

\* No reader ever finds a checkpoint that it cannot decode, not even after a
\* power loss in the middle of a Save (FileStore.Save, FileStore.Load).
NeverTorn == view # Torn

\* Once AO may have the text, nothing but a power loss brings back a checkpoint
\* from which it is sent (the write-ahead Save of stepLocked).
BarrierHoldsWithPower == losses = 0 /\ sent > 0 => view # "pending"

\* A power loss may take back a rename, because its directory is not synced, and
\* with it the write-ahead.  It costs one duplicate at most (FileStore.Save).
OneDuplicatePerPowerLoss == sent <= 1 + losses
=============================================================================
