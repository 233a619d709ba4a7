------------------------------- MODULE MCRunFiles -------------------------------
(* Instances of RunFiles for TLC. *)
EXTENDS RunFilesProperties, TLC

CONSTANTS p1, p2

MCContents == {"pending", "uncertain", "delivered"}
Slots == Permutations({p1, p2})
=============================================================================
