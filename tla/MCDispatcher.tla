------------------------------ MODULE MCDispatcher ------------------------------
(* Instances of Dispatcher for TLC. *)
EXTENDS DispatcherProperties, TLC

CONSTANTS p1, p2, t1, t2, t3

ProcsAndTurns == Permutations({p1, p2}) \cup Permutations({t1, t2, t3})

=============================================================================
