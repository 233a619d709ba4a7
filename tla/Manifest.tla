-------------------------------- MODULE Manifest --------------------------------
(***************************************************************************)
(* The run manifest that "coworkers attach" writes: what the strict reader *)
(* accepts and when two manifests bind the same                            *)
(* (internal/workforce/control/manifest.go, types.go).                     *)
(*                                                                         *)
(* Kept are the fields that attach fills from different sources, so that   *)
(* they could disagree.  Constant fields, identities that are fixed for a  *)
(* session or a repository, and the syntax of paths, hashes and URLs are   *)
(* left out.                                                               *)
(***************************************************************************)
EXTENDS Naturals

CONSTANTS Runs,      \* run ids
          Endpoints, \* URL and identity of an AO, with the URL of a gateway
          Shas,      \* hashes of run specifications
          Sessions, Branches, Heads, Models, Efforts,
          Edits      \* records of "git status" other than run leases

ASSUME EditsAssumption == Edits \cap Runs = {}

Policies == {"require_clean", "allow_dirty_recorded"}
LeaseStates == {"FREE", "OWNED", "LOCKED"}

\* What an inspection finds: a state, or a record that cannot be decoded.
Inspections == LeaseStates \cup {"malformed"}

\* What is left of "git status" in the execution workspace after the filter:
\* edits, and the lease files of other runs.  {} stands for the empty hash.
Porcelains == SUBSET (Edits \cup Runs)

Manifests ==
  [run: Runs, sha: Shas, session: Sessions, branch: Branches,
   baseline: Heads, head: Heads,
   policy: Policies, clean: BOOLEAN, porcelain: Porcelains,
   model: Models, effort: Efforts, catalog: SUBSET Models,
   lease: LeaseStates, endpoints: Endpoints, fromRunFile: BOOLEAN]

\* ReadManifest: the invariants between the fields of a manifest on disk.
Accepts(m) ==
  /\ m.policy = "require_clean" => m.clean
  /\ m.clean <=> m.porcelain = {}
  /\ m.head = m.baseline
  /\ m.model \in m.catalog
  /\ m.lease # "LOCKED"

\* Mutant: the endpoints count as a live observation, too.
Matches_AnyEndpoints(m, n) ==
  /\ m.run = n.run /\ m.sha = n.sha
  /\ m.session = n.session /\ m.branch = n.branch
  /\ m.baseline = n.baseline /\ m.head = n.head
  /\ m.policy = n.policy /\ m.clean = n.clean /\ m.porcelain = n.porcelain
  /\ m.model = n.model /\ m.effort = n.effort

\* IsExactBindingMatch: the bindings agree; the lease, the catalog and the
\* way AO was found are live observations that may differ.
Matches(m, n) ==
  /\ m.run = n.run /\ m.sha = n.sha
  /\ m.session = n.session /\ m.branch = n.branch
  /\ m.baseline = n.baseline /\ m.head = n.head
  /\ m.policy = n.policy /\ m.clean = n.clean /\ m.porcelain = n.porcelain
  /\ m.model = n.model /\ m.effort = n.effort
  /\ m.endpoints = n.endpoints
=============================================================================
