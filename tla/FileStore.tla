-------------------------------- MODULE FileStore --------------------------------
(***************************************************************************)
(* The checkpoint file (FileStore in internal/recovery/checkpoint.go), one *)
(* file operation at a time, and what of it survives a power loss: Save    *)
(* syncs the temporary file but not the directory that it is renamed in.   *)
(***************************************************************************)
EXTENDS IOFaults

CONSTANTS Contents,  \* whole checkpoints
          Torn,      \* content that Load cannot decode
          NoTemp

VARIABLES view,      \* what a reader finds under the checkpoint's path
          onDisk,    \* what a reader may find there after a power loss
          temp       \* the temporary file of the Save each process is in

storeVars == <<view, onDisk, temp>>

Temps == [data: Contents, synced: BOOLEAN]

StoreTypeOK ==
  /\ view \in Contents \cup {Torn}
  /\ onDisk \subseteq Contents \cup {Torn}
  /\ temp \in [Procs -> Temps \cup {NoTemp}]

StoreInit(content) ==
  /\ view = content
  /\ onDisk = {content}
  /\ temp = [p \in Procs |-> NoTemp]

----------------------------------------------------------------------------
(* Save. *)

\* CreateTemp, Chmod and Write: a private file.
WriteTemp(p, content) ==
  /\ temp[p] = NoTemp
  /\ temp' = [temp EXCEPT ![p] = [data |-> content, synced |-> FALSE]]
  /\ UNCHANGED <<view, onDisk>>

SyncTemp(p) ==
  /\ temp[p] # NoTemp /\ ~temp[p].synced
  /\ temp' = [temp EXCEPT ![p].synced = TRUE]
  /\ UNCHANGED <<view, onDisk>>

\* Mutant: the temporary file is renamed without Sync.
RenameTemp_Unsynced(p) ==
  /\ temp[p] # NoTemp
  /\ view' = temp[p].data
  /\ onDisk' = onDisk \cup {temp[p].data} \cup (IF temp[p].synced THEN {} ELSE {Torn})
  /\ temp' = [temp EXCEPT ![p] = NoTemp]

\* Readers see the new content at once; a power loss may undo the rename.
RenameTemp(p) ==
  /\ temp[p] # NoTemp /\ temp[p].synced
  /\ view' = temp[p].data
  /\ onDisk' = onDisk \cup {temp[p].data}
  /\ temp' = [temp EXCEPT ![p] = NoTemp]

\* Any of these fails: Save removes the temporary file and returns the error.
SaveFails(p) ==
  /\ Fault
  /\ temp' = [temp EXCEPT ![p] = NoTemp]
  /\ UNCHANGED <<view, onDisk>>

----------------------------------------------------------------------------
(* The file system. *)

\* The directory is written back in its own time.
Flush ==
  /\ onDisk # {view}
  /\ onDisk' = {view}
  /\ UNCHANGED <<view, temp, faults>>

StoreAfterPowerLoss ==
  /\ view' \in onDisk
  /\ onDisk' = {view'}
  /\ temp' = [p \in Procs |-> NoTemp]
=============================================================================
