--------------------------------- MODULE Attach ---------------------------------
(***************************************************************************)
(* "coworkers attach" (internal/workforce/control/attach.go): a sequence   *)
(* of reads of AO, the gateway, git and the lease, each at its own moment, *)
(* and then one atomic write of the manifest (WriteManifestAtomic).        *)
(* Several attaches may run at once and name the same manifest file.       *)
(***************************************************************************)
EXTENDS Manifest, FiniteSets

CONSTANTS Procs,
          Specs,       \* the run specification files that may be named
          Faulty,      \* may reads and writes fail, and processes crash?
          Starts,      \* the worlds to start from
          MaxChanges,  \* bound on the changes of the world
          NoFile, Corrupt, NoBranch, NoManifest

SpecFiles == [run: Runs, sha: Shas, branch: Branches, baseline: Heads,
              policy: Policies, model: Models, effort: Efforts]

\* A hash determines the content.
ASSUME SpecsAssumption ==
  /\ Specs \subseteq SpecFiles
  /\ \A s, t \in Specs : s.sha = t.sha => s = t
ASSUME EndpointsAssumption == Endpoints # {}
ASSUME AttachSwitches == Faulty \in BOOLEAN /\ MaxChanges \in Nat
ASSUME AttachNulls ==
  /\ NoFile \notin Manifests /\ Corrupt \notin Manifests /\ NoManifest \notin Manifests
  /\ NoFile # Corrupt /\ NoBranch \notin Branches

VARIABLES world,    \* what the reads read
          changes,  \* changes of the world so far
          file,     \* the manifest file
          at,       \* where each attach is
          spec,     \* the run specification each attach was given
          m,        \* the manifest each attach is collecting
          began,    \* changes when each attach began (auxiliary)
          out       \* the manifest each attach printed

envVars == <<world, changes>>
procVars == <<at, spec, m, began, out>>
vars == <<envVars, file, procVars>>

Places == {"workspace", "elsewhere"}

Worlds ==
  [session: [Sessions -> [branch: Branches, model: Models, live: BOOLEAN]],
   settings: [Sessions -> [model: Models, effort: Efforts]],
   catalog: SUBSET Models,
   trees: [Places -> [branch: Branches \cup {NoBranch}, head: Heads]],
   rootClean: BOOLEAN,
   edits: SUBSET Edits,
   leases: [Runs -> Inspections]]

ASSUME StartsAssumption == Starts \subseteq Worlds

Exits == {"down", "exit0", "exit2", "exit3"}
Reads == {"endpoints", "session", "settings", "worktrees", "root", "status", "lease"}
Writes == {"stat", "compare", "rename", "readback"}

TypeOK ==
  /\ world \in Worlds
  /\ changes \in 0..MaxChanges
  /\ file \in Manifests \cup {NoFile, Corrupt}
  /\ at \in [Procs -> Exits \cup Reads \cup Writes]
  /\ spec \in [Procs -> Specs]
  /\ m \in [Procs -> Manifests \cup {NoManifest}]
  /\ began \in [Procs -> 0..MaxChanges]
  /\ out \in [Procs -> Manifests \cup {NoManifest}]

Init ==
  /\ world \in Starts
  /\ changes = 0
  /\ file \in {NoFile, Corrupt}
  /\ at = [p \in Procs |-> "down"]
  /\ spec \in [Procs -> Specs]
  /\ m = [p \in Procs |-> NoManifest]
  /\ began = [p \in Procs |-> 0]
  /\ out = [p \in Procs |-> NoManifest]

----------------------------------------------------------------------------
Goto(p, label) == at' = [at EXCEPT ![p] = label]
Collect(p, c) == m' = [m EXCEPT ![p] = c]

Local == {"exit2"}             \* failing git commands and files
Remote == {"exit2", "exit3"}   \* a bad answer, or none, over HTTP

Exit(p, code) ==
  Goto(p, code) /\ Collect(p, NoManifest) /\ UNCHANGED <<envVars, file, spec, began, out>>

\* One read: on to the next label with what was learned, if the checks pass;
\* exit 2 if they do not; if the read itself fails, one of codes.
Read(p, here, next, codes, check, c) ==
  /\ at[p] = here
  /\ \/ check /\ Goto(p, next) /\ Collect(p, c) /\ UNCHANGED <<envVars, file, spec, began, out>>
     \/ ~check /\ Exit(p, "exit2")
     \/ Faulty /\ \E code \in codes : Exit(p, code)

\* The specification is parsed and the workspace flag agrees with it.
Begin(p) ==
  /\ at[p] \in Exits
  /\ \E s \in Specs, x \in Sessions :
       /\ spec' = [spec EXCEPT ![p] = s]
       /\ Collect(p, [run |-> s.run, sha |-> s.sha, session |-> x, branch |-> s.branch,
                      baseline |-> s.baseline, head |-> s.baseline,
                      policy |-> s.policy, clean |-> TRUE, porcelain |-> {},
                      model |-> s.model, effort |-> s.effort, catalog |-> {},
                      lease |-> "FREE", endpoints |-> CHOOSE e \in Endpoints : TRUE,
                      fromRunFile |-> FALSE])
  /\ Goto(p, "endpoints")
  /\ began' = [began EXCEPT ![p] = changes]
  /\ out' = [out EXCEPT ![p] = NoManifest]
  /\ UNCHANGED <<envVars, file>>

\* What discovery adds to the manifest.
Located(p, e, viaFile) ==
  [m[p] EXCEPT !.catalog = world.catalog, !.endpoints = e, !.fromRunFile = viaFile]

\* ResolveAOEndpoint and ResolveGatewayEndpoint (module Discovery); an empty catalog is refused.
ResolveEndpoints(p) ==
  \E e \in Endpoints, viaFile \in BOOLEAN :
    Read(p, "endpoints", "session", Remote, world.catalog # {}, Located(p, e, viaFile))

ReadSession(p) ==
  LET s == world.session[m[p].session]
  IN Read(p, "session", "settings", Remote,
          s.live /\ s.model \in m[p].catalog /\ s.model = spec[p].model,
          [m[p] EXCEPT !.branch = s.branch, !.model = s.model])

\* The model is read again, with the settings of the conversation.
ReadSettings(p) ==
  LET s == world.settings[m[p].session]
  IN Read(p, "settings", "worktrees", Remote,
          s.model = m[p].model /\ s.effort = spec[p].effort,
          [m[p] EXCEPT !.effort = s.effort])

On(branch) == {t \in Places : world.trees[t].branch = branch}

\* Mutant: the session's branch only has to be checked out in the workspace.
ReadWorktrees_Ambiguous(p) ==
  LET t == world.trees["workspace"]
  IN Read(p, "worktrees", "root", Local,
          "workspace" \in On(m[p].branch) /\ t.head = spec[p].baseline
            /\ spec[p].branch = m[p].branch,
          [m[p] EXCEPT !.head = t.head])

\* Exactly one worktree is on the session's branch, it is the execution
\* workspace, at the baseline, on the branch that the specification expects.
ReadWorktrees(p) ==
  LET t == world.trees["workspace"]
  IN Read(p, "worktrees", "root", Local,
          On(m[p].branch) = {"workspace"} /\ t.head = spec[p].baseline
            /\ spec[p].branch = m[p].branch,
          [m[p] EXCEPT !.head = t.head])

CheckRoot(p) == Read(p, "root", "status", Local, world.rootClean, m[p])

\* Mutant: the lease of the run itself counts as an edit.
Porcelain_NoException(run) ==
  world.edits \cup {r \in Runs : world.leases[r] # "FREE"}

\* "git status" of the execution workspace (task leases, tracked and renamed
\* files are among its edits) without the untracked lease file
\* of the run itself; the lease files of other runs stay.
Porcelain(run) ==
  world.edits \cup {r \in Runs \ {run} : world.leases[r] # "FREE"}

\* Mutant: the policy is recorded, not enforced.
CheckStatus_NotEnforced(p) ==
  LET s == Porcelain(spec[p].run)
  IN Read(p, "status", "lease", Local, TRUE, [m[p] EXCEPT !.clean = (s = {}), !.porcelain = s])

CheckStatus(p) ==
  LET s == Porcelain(spec[p].run)
  IN Read(p, "status", "lease", Local, spec[p].policy = "require_clean" => s = {},
          [m[p] EXCEPT !.clean = (s = {}), !.porcelain = s])

\* Mutant: attach records a lease state that the strict reader does not know.
InspectLease_UnknownState(p) ==
  LET l == world.leases[spec[p].run]
  IN Read(p, "lease", "stat", Local, l \in {"FREE", "OWNED"},
          [m[p] EXCEPT !.lease = IF l = "OWNED" THEN "STALE" ELSE l])

\* InspectLease of the run; nothing is acquired.
InspectLease(p) ==
  LET l == world.leases[spec[p].run]
  IN Read(p, "lease", "stat", Local, l \in {"FREE", "OWNED"}, [m[p] EXCEPT !.lease = l])

----------------------------------------------------------------------------
(* WriteManifestAtomic, then the readback. *)

\* Is there a manifest already?
Stat(p) ==
  /\ at[p] = "stat"
  /\ \/ /\ Goto(p, IF file = NoFile THEN "rename" ELSE "compare")
        /\ UNCHANGED <<envVars, file, spec, m, began, out>>
     \/ Faulty /\ Exit(p, "exit2")

\* ReadManifest finds a manifest and accepts it.
Readable(f) == f \in Manifests /\ Accepts(f)

\* The manifest exists with these bindings.
Bound(f, c) == Readable(f) /\ Matches(f, c)

\* Mutant: a manifest that is corrupt or has other bindings is written anew.
Compare_Repairs(p) ==
  /\ at[p] = "compare"
  /\ Goto(p, IF Bound(file, m[p]) THEN "readback" ELSE "rename")
  /\ UNCHANGED <<envVars, file, spec, m, began, out>>

\* The manifest exists: idempotent success, or refusal.
Compare(p) ==
  /\ at[p] = "compare"
  /\ \/ /\ Bound(file, m[p])
        /\ Goto(p, "readback")
        /\ UNCHANGED <<envVars, file, spec, m, began, out>>
     \/ (~Bound(file, m[p]) \/ Faulty) /\ Exit(p, "exit2")

\* Mutant: the manifest is written in place, and only half of it when the process dies.
Rename_InPlace(p) ==
  /\ at[p] = "rename"
  /\ \/ file' = m[p] /\ Goto(p, "readback") /\ UNCHANGED m
     \/ Faulty /\ file' = Corrupt /\ Goto(p, "down") /\ Collect(p, NoManifest)
  /\ UNCHANGED <<envVars, spec, began, out>>

\* Mutant: when the rename fails, any manifest that is there is success.
Rename_AnyManifest(p) ==
  /\ at[p] = "rename"
  /\ \/ file' = m[p]
     \/ Faulty /\ Readable(file) /\ file' = file
  /\ Goto(p, "readback")
  /\ UNCHANGED <<envVars, spec, m, began, out>>

\* Write a private temporary file and rename it over the manifest.  When the
\* rename fails, a manifest with the same bindings still is success.
Rename(p) ==
  /\ at[p] = "rename"
  /\ \/ /\ file' = m[p]
        /\ Goto(p, "readback")
        /\ UNCHANGED <<envVars, spec, m, began, out>>
     \/ /\ Faulty
        /\ Goto(p, "compare")
        /\ UNCHANGED <<envVars, file, spec, m, began, out>>
     \/ Faulty /\ Exit(p, "exit2")

\* The manifest on disk is printed if it can be read, else the one collected.
Readback(p) ==
  /\ at[p] = "readback"
  /\ \/ Readable(file) /\ out' = [out EXCEPT ![p] = file]
     \/ (Faulty \/ ~Readable(file)) /\ out' = [out EXCEPT ![p] = m[p]]
  /\ Goto(p, "exit0")
  /\ UNCHANGED <<envVars, file, spec, m, began>>

----------------------------------------------------------------------------
(* The environment. *)

Crash(p) == Faulty /\ at[p] \notin Exits /\ Exit(p, "down")

\* One thing in the world changes: a session, its settings, the catalog, a
\* worktree, the product root, an edit, or a run lease.
Changed ==
  \/ \E x \in Sessions, v \in [branch: Branches, model: Models, live: BOOLEAN] :
       world' = [world EXCEPT !.session[x] = v]
  \/ \E x \in Sessions, v \in [model: Models, effort: Efforts] :
       world' = [world EXCEPT !.settings[x] = v]
  \/ \E v \in SUBSET Models : world' = [world EXCEPT !.catalog = v]
  \/ \E t \in Places, v \in [branch: Branches \cup {NoBranch}, head: Heads] :
       world' = [world EXCEPT !.trees[t] = v]
  \/ world' = [world EXCEPT !.rootClean = ~@]
  \/ \E v \in SUBSET Edits : world' = [world EXCEPT !.edits = v]
  \/ \E r \in Runs, v \in Inspections : world' = [world EXCEPT !.leases[r] = v]

WorldChanges ==
  /\ changes < MaxChanges
  /\ Changed
  /\ changes' = changes + 1
  /\ UNCHANGED <<file, procVars>>

Attaching(p) ==
  \/ Begin(p) \/ ResolveEndpoints(p) \/ ReadSession(p) \/ ReadSettings(p) \/ ReadWorktrees(p)
  \/ CheckRoot(p) \/ CheckStatus(p) \/ InspectLease(p)
  \/ Stat(p) \/ Compare(p) \/ Rename(p) \/ Readback(p)

Next == (\E p \in Procs : Attaching(p) \/ Crash(p)) \/ WorldChanges

Spec == Init /\ [][Next]_vars
=============================================================================
