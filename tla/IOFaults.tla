-------------------------------- MODULE IOFaults --------------------------------
(* The processes of one host and the bound on what goes wrong with them. *)
EXTENDS Naturals

CONSTANTS Procs,      \* process slots; a slot is reused after a crash or exit
          MaxFaults   \* bound on failed file operations, crashes and power losses

ASSUME MaxFaultsAssumption == MaxFaults \in Nat

VARIABLE faults       \* faults injected so far

NoFault == UNCHANGED faults
Fault == faults < MaxFaults /\ faults' = faults + 1
=============================================================================
