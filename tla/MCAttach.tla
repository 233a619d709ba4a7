-------------------------------- MODULE MCAttach --------------------------------
(* Instances of Attach for TLC. *)
EXTENDS AttachProperties

CONSTANTS r1, r2, ep1, b1, h1, mo1, e1

SpecOf(r, policy) ==
  [run |-> r, sha |-> <<r, policy>>, branch |-> b1, baseline |-> h1,
   policy |-> policy, model |-> mo1, effort |-> e1]

MCShas == Runs \X Policies

\* Two runs with the policy of a clean worktree, and the first one with the other policy.
TwoRuns == {SpecOf(r1, "require_clean"), SpecOf(r2, "require_clean")}
Rivals == TwoRuns \cup {SpecOf(r1, "allow_dirty_recorded")}

\* Everything is as the specifications want it.
Ready ==
  {[session |-> [x \in Sessions |-> [branch |-> b1, model |-> mo1, live |-> TRUE]],
    settings |-> [x \in Sessions |-> [model |-> mo1, effort |-> e1]],
    catalog |-> Models,
    trees |-> [t \in Places |-> [branch |-> IF t = "workspace" THEN b1 ELSE NoBranch,
                                 head |-> h1]],
    rootClean |-> TRUE, edits |-> {}, leases |-> [r \in Runs |-> "FREE"]]}
=============================================================================
