--------------------------------- MODULE RunLock ---------------------------------
(***************************************************************************)
(* What the run-owned lease promises: at most one process is inside, and   *)
(* one that dies, or fails to give the lease back, leaves it stale until   *)
(* the operator clears it.  A lease that was given back may appear again,  *)
(* but lets nobody in.                                                     *)
(***************************************************************************)
CONSTANT Procs

VARIABLES holders,  \* the processes inside
          stale     \* does a lease without a holder keep everybody out?

Init == holders = {} /\ stale = FALSE

Take(p) == holders = {} /\ ~stale /\ holders' = {p} /\ UNCHANGED stale
Give(p) == holders = {p} /\ holders' = {} /\ UNCHANGED stale
Lose(p) == holders = {p} /\ holders' = {} /\ stale' = TRUE
Clear == stale /\ stale' = FALSE /\ UNCHANGED holders
Appear == holders = {} /\ ~stale /\ stale' = TRUE /\ UNCHANGED holders

Next == (\E p \in Procs : Take(p) \/ Give(p) \/ Lose(p)) \/ Clear \/ Appear

Spec == Init /\ [][Next]_<<holders, stale>>
=============================================================================
