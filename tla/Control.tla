--------------------------------- MODULE Control ---------------------------------
(***************************************************************************)
(* The commands of coworkers (cmd/coworkers, internal/workforce/control):  *)
(* doctor, attach and status, one after another at one terminal, while     *)
(* daemons, gateway, git, leases and tools change.  attach is module       *)
(* Attach with its endpoints resolved by module Discovery.                 *)
(***************************************************************************)
EXTENDS Attach, Discovery

CONSTANTS RawSpecs,   \* run specification files, as they are written
          Tried,      \* the flags and environments that are tried
          StartMachines,
          Never,
          Others      \* the models of a specification's other profiles

RawSpecFiles ==
  [run: Runs, sha: Shas, branch: Branches, baseline: Heads,
   policy: Policies \cup {"unset", "odd"}, model: Models, effort: Efforts, wellFormed: BOOLEAN]

\* ParseAndValidateRunSpec: whatever it requires besides the policy is "well formed".
Accepted(raw) == raw.wellFormed /\ raw.policy # "odd"

\* Mutant: without a policy, a dirty workspace is recorded.
DirtyPolicy_Lax(policy) == IF policy = "unset" THEN "allow_dirty_recorded" ELSE policy

DirtyPolicy(policy) == IF policy = "unset" THEN "require_clean" ELSE policy

Parse(raw) ==
  [run |-> raw.run, sha |-> raw.sha, branch |-> raw.branch, baseline |-> raw.baseline,
   policy |-> DirtyPolicy(raw.policy), model |-> raw.model, effort |-> raw.effort]

\* A doctor that passed, or an attach.
Successes == [name: {"attach", "doctor"}, raw: RawSpecs, input: Tried]

ASSUME ControlInstance ==
  /\ RawSpecs \subseteq RawSpecFiles /\ Tried \subseteq Inputs
  /\ RawSpecs # {} /\ Tried # {}
  /\ StartMachines \subseteq Machines /\ Others \subseteq Models
  /\ Never \notin Successes
  /\ Endpoints = [port: Ports, host: Hosts, gateway: Gateways]
  /\ Specs = {Parse(raw) : raw \in {r \in RawSpecs : Accepted(r)}}

VARIABLES cmd,     \* the command at the terminal
          host,    \* are the required tools in PATH; which commits does the repository have?
          success  \* the last success, if nothing has changed since it began (auxiliary)

controlVars == <<cmd, machine, host, look, success>>
allVars == <<vars, controlVars>>

Steps == {"attach", "endpoints", "root", "status", "commit", "tools",
          "override", "gateway", "lease"}

Commands ==
  [name: {"none", "attach", "doctor", "status"}, at: Steps \cup Exits,
   raw: RawSpecs, input: Tried, began: 0..MaxChanges,
   catalog: SUBSET Models, seen: Manifests \cup {NoManifest}]

ControlTypeOK ==
  /\ TypeOK /\ DiscoveryTypeOK
  /\ cmd \in Commands
  /\ host \in [tools: BOOLEAN, commits: SUBSET Heads]
  /\ success \in Successes \cup {Never}

\* The prompt, after an exit.
Ended(code) ==
  [name |-> "none", at |-> code, raw |-> CHOOSE r \in RawSpecs : TRUE,
   input |-> CHOOSE i \in Tried : TRUE, began |-> 0, catalog |-> {}, seen |-> NoManifest]

Remember(code) ==
  success' = IF code = "exit0" /\ changes = cmd.began
             THEN [name |-> cmd.name, raw |-> cmd.raw, input |-> cmd.input] ELSE success

ControlInit ==
  /\ Init
  /\ machine \in StartMachines
  /\ look = NotLooking
  /\ cmd = Ended("down")
  /\ host = [tools |-> TRUE, commits |-> Heads]
  /\ success = Never

----------------------------------------------------------------------------
(* Commands begin. *)

AtPrompt == cmd.at \in Exits

Enter(name, label, raw, input) ==
  cmd' = [Ended("down") EXCEPT !.name = name, !.at = label, !.raw = raw, !.input = input,
                               !.began = changes]

\* doctor and attach read and check the specification first.
BeginDoctor ==
  /\ AtPrompt
  /\ \E raw \in RawSpecs, input \in Tried :
       \/ Accepted(raw) /\ Enter("doctor", "endpoints", raw, input) /\ StartLooking
       \/ ~Accepted(raw) /\ cmd' = Ended("exit2") /\ UNCHANGED look
  /\ UNCHANGED <<vars, machine, host, success>>

BeginAttach(p) ==
  /\ AtPrompt
  /\ \E raw \in RawSpecs, input \in Tried :
       \/ /\ Accepted(raw) /\ Begin(p) /\ spec'[p] = Parse(raw)
          /\ Enter("attach", "attach", raw, input) /\ StartLooking
       \/ ~Accepted(raw) /\ cmd' = Ended("exit2") /\ UNCHANGED <<vars, look>>
  /\ UNCHANGED <<machine, host, success>>

\* status knows flags only, and reads the manifest first.
BeginStatus ==
  /\ AtPrompt
  /\ \E input \in Tried :
       \/ /\ Readable(file)
          /\ cmd' = [Ended("down") EXCEPT !.name = "status", !.at = "override", !.input = input,
                                          !.began = changes, !.seen = file]
       \/ ~Readable(file) /\ cmd' = Ended("exit2")
  /\ UNCHANGED <<vars, machine, host, look, success>>

----------------------------------------------------------------------------
(* attach. *)

\* One request or read of discovery.
AttachDiscovers(p) ==
  /\ at[p] = "endpoints" /\ look.at # "found"
  /\ ResolveAO(cmd.input)
  /\ IF look'.at = "failed" THEN Exit(p, look'.code) ELSE UNCHANGED vars

\* Mutant: the catalog of a gateway that answers is not looked at.
AttachGateway_AnyCatalog(p) ==
  /\ look.at = "found"
  /\ LET answer == ProbeGateway(cmd.input)
     IN \/ /\ answer = "up"
           /\ \E d \in look.found :
                Read(p, "endpoints", "session", {}, TRUE,
                     Located(p, [port |-> d.port, host |-> d.host, gateway |-> Gateway(cmd.input)],
                             look.source # "url"))
        \/ answer # "up" /\ Exit(p, answer)
  /\ look' = NotLooking

\* The gateway, and with it all that module Attach calls ResolveEndpoints.
AttachGateway(p) ==
  /\ look.at = "found"
  /\ LET answer == ProbeGateway(cmd.input)
     IN \/ /\ answer = "up"
           /\ \E d \in look.found :
                Read(p, "endpoints", "session", {}, world.catalog # {},
                     Located(p, [port |-> d.port, host |-> d.host, gateway |-> Gateway(cmd.input)],
                             look.source # "url"))
        \/ answer # "up" /\ Exit(p, answer)
  /\ look' = NotLooking

\* The rest is as in Attach.
AttachGoesOn(p) ==
  /\ \/ ReadSession(p) \/ ReadSettings(p) \/ ReadWorktrees(p)
     \/ CheckRoot(p) \/ CheckStatus(p) \/ InspectLease(p)
     \/ Stat(p) \/ Compare(p) \/ Rename(p) \/ Readback(p)
  /\ UNCHANGED look

AttachStep(p) ==
  /\ cmd.name = "attach" /\ at[p] \notin Exits
  /\ AttachDiscovers(p) \/ AttachGateway(p) \/ AttachGoesOn(p)
  /\ cmd' = IF at'[p] \in Exits THEN Ended(at'[p]) ELSE cmd
  /\ Remember(at'[p])
  /\ UNCHANGED <<machine, host>>

----------------------------------------------------------------------------
(* doctor. *)

DoctorDiscovers ==
  /\ cmd.at = "endpoints" /\ look.at # "found"
  /\ ResolveAO(cmd.input)
  /\ cmd' = IF look'.at = "failed" THEN Ended(look'.code) ELSE cmd

DoctorGateway ==
  /\ cmd.at = "endpoints" /\ look.at = "found"
  /\ LET answer == ProbeGateway(cmd.input)
     IN cmd' = IF answer = "up" /\ world.catalog # {}
               THEN [cmd EXCEPT !.at = "root", !.catalog = world.catalog]
               ELSE Ended(IF answer = "exit3" THEN "exit3" ELSE "exit2")
  /\ look' = NotLooking

\* A check that refuses, or goes on.
Check(here, holds, next) ==
  /\ cmd.at = here
  /\ cmd' = IF holds THEN [cmd EXCEPT !.at = next] ELSE Ended("exit2")
  /\ UNCHANGED look

DoctorRoot == Check("root", world.rootClean, "status")

DoctorStatus ==
  Check("status",
        DirtyPolicy(cmd.raw.policy) = "require_clean" => Porcelain(cmd.raw.run) = {}, "commit")

DoctorCommit == Check("commit", cmd.raw.baseline \in host.commits, "tools")

\* Mutant: one profile's model in the catalog is enough.
ModelsPresent_Any(catalog) == (Others \cup {cmd.raw.model}) \cap catalog # {}

\* Every profile's model has to be in the catalog that the gateway gave before.
ModelsPresent(catalog) == Others \cup {cmd.raw.model} \subseteq catalog

DoctorTools ==
  /\ cmd.at = "tools"
  /\ cmd' = Ended(IF host.tools /\ ModelsPresent(cmd.catalog) THEN "exit0" ELSE "exit2")
  /\ UNCHANGED look

DoctorStep ==
  /\ cmd.name = "doctor"
  /\ \/ DoctorDiscovers \/ DoctorGateway
     \/ DoctorRoot \/ DoctorStatus \/ DoctorCommit \/ DoctorTools
  /\ Remember(cmd'.at)
  /\ UNCHANGED <<vars, machine, host>>

----------------------------------------------------------------------------
(* status. *)

\* --ao-url has to lead to the AO that the manifest is bound to.
Override ==
  IF cmd.input.flag = "invalid" THEN "exit2"
  ELSE LET answer == machine.serves[cmd.input.flag]
       IN CASE answer = "silent"                -> "exit3"
            [] answer = cmd.seen.endpoints.host -> "same"
            [] OTHER                            -> "exit2"

StatusOverride ==
  /\ cmd.at = "override"
  /\ IF cmd.input.flag = "unset" \/ Override = "same"
     THEN cmd' = [cmd EXCEPT !.at = "gateway"]
     ELSE cmd' = Ended(Override)

\* --gateway-url as it was typed, blanks and all, has to be the URL in the
\* manifest, and to answer.
StatusGateway ==
  /\ cmd.at = "gateway"
  /\ LET given == cmd.input.gateway
         answer == ProbeGateway(cmd.input)
         bound == given = [text |-> cmd.seen.endpoints.gateway, blanks |-> FALSE]
     IN cmd' = IF given = Unset \/ (bound /\ answer = "up" /\ world.catalog # {})
               THEN [cmd EXCEPT !.at = "lease"]
               ELSE Ended(IF bound /\ answer = "exit3" THEN "exit3" ELSE "exit2")

\* The lease is inspected anew and printed, whoever holds it.
StatusLease ==
  /\ cmd.at = "lease"
  /\ cmd' = Ended(IF world.leases[cmd.seen.run] = "malformed" THEN "exit2" ELSE "exit0")

StatusStep ==
  /\ cmd.name = "status"
  /\ StatusOverride \/ StatusGateway \/ StatusLease
  /\ UNCHANGED <<vars, machine, host, look, success>>

----------------------------------------------------------------------------
\* One thing changes, and what had succeeded before is history.
HostChanged ==
  \/ MachineChanged /\ UNCHANGED host
  \/ /\ \/ host' = [host EXCEPT !.tools = ~@]
        \/ \E v \in SUBSET Heads : host' = [host EXCEPT !.commits = v]
     /\ UNCHANGED machine

SomethingChanges ==
  /\ \/ WorldChanges /\ UNCHANGED <<machine, host>>
     \/ /\ changes < MaxChanges /\ changes' = changes + 1
        /\ HostChanged
        /\ UNCHANGED <<world, file, procVars>>
  /\ success' = Never
  /\ UNCHANGED <<cmd, look>>

ControlNext ==
  \/ BeginDoctor \/ BeginStatus \/ DoctorStep \/ StatusStep \/ SomethingChanges
  \/ \E p \in Procs : BeginAttach(p) \/ AttachStep(p)

ControlSpec == ControlInit /\ [][ControlNext]_allVars
=============================================================================
