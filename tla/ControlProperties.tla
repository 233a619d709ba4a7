----------------------------- MODULE ControlProperties -----------------------------
(* What the commands of coworkers have to guarantee, together. *)
EXTENDS AttachProperties, Control

\* attach with its endpoints resolved step by step is module Attach, so that what
\* is proved of Attach holds of it (RunAttach, ResolveAOEndpoint).
AttachAlone == INSTANCE Attach WITH Faulty <- TRUE
ImplementsAttach == AttachAlone!Spec

----------------------------------------------------------------------------
(* Which daemon it should be, in one state of the machine. *)

AtUrl(url) ==
  IF url = "invalid" THEN "exit2"
  ELSE CASE machine.serves[url] = "silent" -> "exit3"
         [] machine.serves[url] = "broken" -> "exit2"
         [] OTHER                          -> "found"

Exist == {f \in Candidates : machine.files[f] # Absent}

\* The run file leads to a living process and an answering daemon.
Leads(f) ==
  /\ machine.files[f] \notin {Absent, Damaged}
  /\ machine.files[f].pid \in machine.alive
  /\ machine.serves[machine.files[f].port] \in Hosts

FromRunFile ==
  LET f == machine.files["env"]
  IN CASE f = Absent                                       -> "exit3"
       [] f \in Entries /\ f.pid \in machine.alive         -> AtUrl(f.port)
       [] OTHER                                            -> "exit2"

FromCandidates ==
  CASE Exist = {} -> "exit3"
    [] Exist # {} /\ (\A f \in Exist : Leads(f)) ->
         IF Cardinality({machine.files[f] : f \in Exist}) = 1 THEN "found" ELSE "exit2"
    [] OTHER -> "refused"

Expected(input) ==
  CASE input.flag # "unset"                          -> AtUrl(input.flag)
    [] input.flag = "unset" /\ input.env # "unset"   -> AtUrl(input.env)
    [] OTHER -> IF input.runFile THEN FromRunFile ELSE FromCandidates

\* A step that ends discovery, and what comes of it.
Concludes == look.at \notin {"found", "failed"} /\ look'.at \in {"found", "failed"}
Outcome == IF look'.at = "failed" THEN look'.code ELSE "found"

\* When nothing changes meanwhile, discovery finds a daemon exactly if the first
\* source that is set leads to one, and the default run files to no two; it never
\* falls back to a later source, and the exit code tells why.  Only for a default
\* run file that leads nowhere the code is left open: see NoDaemonIsExit3
\* (ResolveAOEndpoint).
DiscoveryDecides ==
  [][Concludes /\ changes = cmd.began =>
       IF Expected(cmd.input) = "refused" THEN Outcome # "found"
       ELSE Outcome = Expected(cmd.input)]_allVars

\* What docs/02-ARCHITECTURE.md and docs/06-OPERATIONS.md say of discovery by the
\* default run files: a valid endpoint that cannot be reached is exit 3
\* (ResolveAOEndpoint).
NoDaemonIsExit3 ==
  [][/\ Concludes /\ changes = cmd.began
     /\ cmd.input.flag = "unset" /\ cmd.input.env = "unset" /\ ~cmd.input.runFile
     /\ \A f \in Exist : /\ machine.files[f] # Damaged
                         /\ machine.files[f].pid \in machine.alive
                         /\ machine.serves[machine.files[f].port] = "silent"
     => Outcome = "exit3"]_allVars

----------------------------------------------------------------------------
\* After a doctor that passed, and while nothing changes, attach with the same file
\* and flags is not refused for anything that doctor looks at: endpoints, product
\* root, workspace, or the gateway's catalog (RunDoctor, RunAttach).
DoctorPredictsAttach ==
  [][\A p \in Procs :
       /\ cmd.name = "attach"
       /\ success = [name |-> "doctor", raw |-> cmd.raw, input |-> cmd.input]
       /\ Leaves(p, "exit2") \/ Leaves(p, "exit3")
       => /\ at[p] \notin {"endpoints", "root", "status"}
          /\ at[p] = "session" =>
               LET session == world.session[m[p].session]
               IN ~session.live \/ session.model # spec[p].model]_allVars

\* A status that ends after an attach that succeeded, while nothing has changed.
StatusAfterAttach ==
  /\ cmd.name = "status" /\ cmd'.name = "none"
  /\ success # Never /\ success.name = "attach"
  /\ cmd.input.flag \in {"unset", success.input.flag}

\* The AO URL that attach was given, or none, and the gateway URL that it was given
\* without the blanks around it, or none, are accepted by status (RunAttach,
\* RunStatus).
StatusAgreesOnPlainUrls ==
  [][/\ StatusAfterAttach
     /\ cmd.input.gateway.text \in {"", success.input.gateway.text}
     /\ ~cmd.input.gateway.blanks
     => cmd'.at = "exit0"]_allVars

\* What the comment in RunStatus says of --gateway-url: the URL that attach was
\* given is the bound endpoint, and is accepted (RunAttach, RunStatus).
StatusAgreesWithAttach ==
  [][/\ StatusAfterAttach
     /\ cmd.input.gateway \in {Unset, success.input.gateway}
     => cmd'.at = "exit0"]_allVars

\* A dirty workspace is bound only for a specification file that says so: the file
\* that has no policy is read, checked and recorded as one that requires a clean
\* workspace (ParseAndValidateRunSpec, RunAttach, ReadManifest).
DirtyIsExplicit ==
  file \in Manifests /\ ~file.clean =>
    \E raw \in RawSpecs : raw.sha = file.sha /\ raw.policy = "allow_dirty_recorded"
=============================================================================
