---------------------------- MODULE AttachProperties ----------------------------
(* What attaching a run has to guarantee. *)
EXTENDS Attach

\* What one step does to the file: a whole manifest is put where none was, or one
\* with the same bindings where one is.
KeepsBindings ==
  file' # file =>
    /\ file' \in Manifests
    /\ file # NoFile => file \in Manifests /\ Matches(file, file')

\* A step in which attach p exits with a code.
Leaves(p, code) == at[p] \notin Exits /\ at'[p] = code

\* Whatever changes while attach reads, what it writes is a manifest that the
\* strict reader accepts: its fields, read at different moments, agree with one
\* another and with the policy (RunAttach, ReadManifest).
FileIsAccepted == file \in Manifests => Accepts(file)

\* A manifest that exists is neither replaced by one with other bindings nor torn,
\* and a corrupt one is left alone (WriteManifestAtomic).
BindingsStand == [][KeepsBindings]_vars

\* Two manifests come from the same request: one specification with the policy of a
\* clean worktree, one session, and the same AO and gateway.
SameRequest(f, g) ==
  f.sha = g.sha /\ f.session = g.session /\ f.endpoints = g.endpoints /\ f.policy = "require_clean"

\* Attaches of one request that race for the file, each looking for it before it renames,
\* never take bindings back, and nobody tears the file (WriteManifestAtomic).
SameRequestStands ==
  [][file' # file =>
       /\ file' \in Manifests
       /\ file # NoFile =>
            file \in Manifests /\ (SameRequest(file, file') => Matches(file, file'))]_vars

\* Whatever is at the path then stays there: nobody who found nothing has still to
\* rename.
Settled == file # NoFile /\ \A p \in Procs : at[p] # "rename"

\* Attaches of different runs may name one manifest file: once it is there and
\* nobody is about to rename, its bindings stand, whoever comes later
\* (WriteManifestAtomic).
SettledBindingsStand == [][Settled => KeepsBindings /\ Settled']_vars

\* When the write has succeeded, by a rename, by a manifest that was there, or by
\* one that was found after a failed rename, then the manifest on disk has the
\* bindings that were verified, whoever else writes (WriteManifestAtomic).
SuccessIsOnDisk ==
  [][\A p \in Procs : at[p] # "readback" /\ at'[p] = "readback" =>
       file' \in Manifests /\ Accepts(file') /\ Matches(file', m[p])]_vars

\* What the comment in RunAttach says of the readback: an attach that succeeds
\* leaves on disk, and prints, a manifest with the bindings that it has verified.
AttachedIsOnDisk ==
  [][\A p \in Procs : Leaves(p, "exit0") =>
       /\ file \in Manifests /\ Accepts(file) /\ Matches(file, m[p])
       /\ Matches(out'[p], m[p])]_vars

\* What attach has to find, in one state of the world.
Attachable(s, x) ==
  LET session == world.session[x]
      settings == world.settings[x]
  IN /\ session.live
     /\ session.model = s.model /\ s.model \in world.catalog
     /\ settings.model = s.model /\ settings.effort = s.effort
     /\ session.branch = s.branch
     /\ \A t \in Places : world.trees[t].branch = s.branch <=> t = "workspace"
     /\ world.trees["workspace"].head = s.baseline
     /\ world.rootClean
     /\ s.policy = "require_clean" =>
          world.edits = {} /\ \A r \in Runs : world.leases[r] # "FREE" => r = s.run
     /\ world.leases[s.run] \in {"FREE", "OWNED"}

\* When nothing changes while it runs, the sequence of reads and early returns
\* decides exactly whether everything holds at once (RunAttach).
AttachDecides ==
  [][\A p \in Procs : changes = began[p] =>
       /\ Leaves(p, "exit0") => Attachable(spec[p], m[p].session)
       /\ Leaves(p, "exit2") /\ at[p] \in Reads \ {"endpoints"} => ~Attachable(spec[p], m[p].session)]_vars

\* To attach again for the same specification and session is refused only when
\* edits or leases of other runs have come or gone: the lease of the run
\* itself does not matter (filterExactLeaseArtifact, IsExactBindingMatch).
OwnLeaseDoesNotMatter ==
  [][\A p \in Procs :
       /\ Leaves(p, "exit2") /\ at[p] = "compare"
       /\ file \in Manifests /\ file.sha = m[p].sha /\ file.session = m[p].session
       /\ file.endpoints = m[p].endpoints
       => file.porcelain \ {m[p].run} # m[p].porcelain \ {m[p].run}]_vars

----------------------------------------------------------------------------
(* The inductive invariant: what an attach has established when it gets to a  *)
(* label, whatever the world does meanwhile.                                  *)

After(label) ==
  CASE label = "session"   -> {"settings", "worktrees", "root", "status", "lease"} \cup Writes
    [] label = "settings"  -> {"worktrees", "root", "status", "lease"} \cup Writes
    [] label = "worktrees" -> {"root", "status", "lease"} \cup Writes
    [] label = "status"    -> {"lease"} \cup Writes
    [] label = "lease"     -> Writes

\* Manifest c collects bindings for specification s.
Collects(c, s) ==
  /\ c \in Manifests
  /\ c.run = s.run /\ c.sha = s.sha /\ c.baseline = s.baseline /\ c.policy = s.policy

Established(label, c, s) ==
  /\ label \in Reads \cup Writes => Collects(c, s)
  /\ label \in After("session") => c.model \in c.catalog /\ c.model = s.model
  /\ label \in After("settings") => c.effort = s.effort
  /\ label \in After("worktrees") => c.head = s.baseline /\ c.branch = s.branch
  /\ label \in After("status") =>
       /\ c.clean <=> c.porcelain = {}
       /\ s.policy = "require_clean" => c.clean
  /\ label \in After("lease") => c.lease # "LOCKED"

\* Manifest f is what an attach for specification s writes.
WrittenFor(f, s) ==
  /\ Collects(f, s) /\ Accepts(f)
  /\ f.branch = s.branch /\ f.model = s.model /\ f.effort = s.effort

\* What RunAttach has checked when it gets to the write, and what a manifest on
\* disk therefore is: complete, and bound as one of the specifications asks.
AttachInv ==
  /\ \A p \in Procs :
       /\ Established(at[p], m[p], spec[p])
       /\ at[p] = "rename" => file # Corrupt
  /\ file \in Manifests => \E s \in Specs : WrittenFor(file, s)
=============================================================================
