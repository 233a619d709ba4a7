-------------------------------- MODULE Discovery --------------------------------
(***************************************************************************)
(* How the coworkers commands find an AO daemon and a gateway              *)
(* (internal/workforce/control/discovery.go): by URL, by the run file that *)
(* the environment names, or by the default run files.  Each stat, read,   *)
(* check of a process and probe is a step, while daemons come and go and   *)
(* leave run files behind.                                                 *)
(***************************************************************************)
EXTENDS Naturals, FiniteSets

CONSTANTS Ports,           \* loopback ports, where daemons may listen
          Hosts,           \* identities of AO daemons
          Pids,
          Gateways,        \* URLs of gateways
          DefaultGateway,  \* COWORKERS_GATEWAY_URL if set, else the built-in URL
          Absent, Damaged  \* run files that are not there or not usable

ASSUME GatewayAssumption == DefaultGateway \in Gateways \cup {"invalid"}

VARIABLES machine,  \* what the steps read
          look      \* the resolution in progress

\* "env" is the file that AO_RUN_FILE names.
RunFiles == {"env", "dev", "main"}
Candidates == {"dev", "main"}
Entries == [pid: Pids, port: Ports]

ASSUME DiscoveryNulls ==
  /\ Absent \notin Entries /\ Damaged \notin Entries /\ Absent # Damaged
  /\ {"silent", "broken"} \cap Hosts = {}
  /\ {"unset", "invalid"} \cap Ports = {} /\ {"", "invalid"} \cap Gateways = {}

Machines ==
  [serves: [Ports -> Hosts \cup {"silent", "broken"}],
   files: [RunFiles -> Entries \cup {Absent, Damaged}],
   alive: SUBSET Pids,
   gateways: [Gateways -> {"up", "down", "broken"}]]

\* --gateway-url as it is typed: what is left without the blanks around it, and
\* whether there are any.
Typed == [text: Gateways \cup {"", "invalid"}, blanks: BOOLEAN]
Unset == [text |-> "", blanks |-> FALSE]

TrimSpace(typed) == typed.text

\* What the operator gives: flags and environment.  An invalid URL is one that
\* ValidateLoopbackURL refuses, or to which no request can be made: for AO, which
\* nobody trims, one with blanks around it is among them.
Inputs ==
  [flag: Ports \cup {"unset", "invalid"}, env: Ports \cup {"unset", "invalid"},
   runFile: BOOLEAN, gateway: Typed]

\* What tells daemons apart; a URL says nothing about the process.
Daemons == [host: Hosts, pid: Pids \cup {"none"}, port: Ports]

Lookups ==
  [at: {"idle", "choose", "stat", "read", "alive", "probe", "found", "failed"},
   source: RunFiles \cup {"url"},
   pid: Pids \cup {"none"}, port: Ports \cup {"none"},
   found: SUBSET Daemons, code: {"none", "exit2", "exit3"}]

DiscoveryTypeOK == machine \in Machines /\ look \in Lookups

NotLooking ==
  [at |-> "idle", source |-> "url", pid |-> "none", port |-> "none", found |-> {}, code |-> "none"]

StartLooking == look' = [NotLooking EXCEPT !.at = "choose"]

----------------------------------------------------------------------------
(* The ends of a resolution. *)

Failed(code) == look' = [NotLooking EXCEPT !.at = "failed", !.code = code]
Found(source, found) ==
  look' = [NotLooking EXCEPT !.at = "found", !.source = source, !.found = found]

\* A candidate that exists must be usable: whatever is wrong with it is exit 2.
Fails(source, code) == Failed(IF source \in Candidates THEN "exit2" ELSE code)

\* Mutant: of several daemons any one is taken.
Conclude_Any(source, found) ==
  CASE found = {} -> Failed("exit3")
    [] OTHER      -> \E d \in found : Found(source, {d})

\* All candidates have been looked at; they have to lead to one daemon.
Conclude(source, found) ==
  CASE found = {}             -> Failed("exit3")
    [] Cardinality(found) > 1 -> Failed("exit2")
    [] OTHER                  -> Found(source, found)

----------------------------------------------------------------------------
(* ResolveAOEndpoint. *)

LookAtUrl(url) ==
  IF url = "invalid" THEN Failed("exit2")
  ELSE look' = [NotLooking EXCEPT !.at = "probe", !.port = url]

\* The flag, then the environment, then the run files: the first that is set
\* decides alone.
Choose(input) ==
  /\ look.at = "choose"
  /\ CASE input.flag # "unset" -> LookAtUrl(input.flag)
       [] input.flag = "unset" /\ input.env # "unset" -> LookAtUrl(input.env)
       [] OTHER -> look' = IF input.runFile
                           THEN [NotLooking EXCEPT !.at = "read", !.source = "env"]
                           ELSE [NotLooking EXCEPT !.at = "stat", !.source = "dev"]

\* On to the other candidate, or to the end.
AfterCandidate(found) ==
  IF look.source = "dev"
  THEN look' = [NotLooking EXCEPT !.at = "stat", !.source = "main", !.found = found]
  ELSE Conclude(look.source, found)

StatCandidate ==
  /\ look.at = "stat"
  /\ IF machine.files[look.source] = Absent
     THEN AfterCandidate(look.found)
     ELSE look' = [look EXCEPT !.at = "read"]

\* resolveRunFile, as far as the check of the process.
ReadRunFile ==
  /\ look.at = "read"
  /\ LET f == machine.files[look.source]
     IN CASE f = Absent  -> Fails(look.source, "exit3")
          [] f = Damaged -> Fails(look.source, "exit2")
          [] OTHER -> look' = [look EXCEPT !.at = "alive", !.pid = f.pid, !.port = f.port]

\* The process that the file names is alive: not that it is the daemon.
CheckProcessAlive ==
  /\ look.at = "alive"
  /\ IF look.pid \in machine.alive
     THEN look' = [look EXCEPT !.at = "probe"]
     ELSE Fails(look.source, "exit2")

\* Mutant: whatever answers is a daemon.
ProbeAOIdentity_AnyStatus ==
  /\ look.at = "probe"
  /\ LET host == machine.serves[look.port]
         found == look.found \cup {[host |-> host, pid |-> look.pid, port |-> look.port]}
     IN CASE host = "silent" -> Fails(look.source, "exit3")
          [] OTHER           -> IF look.source \in Candidates
                                THEN AfterCandidate(found)
                                ELSE Conclude(look.source, found)

ProbeAOIdentity ==
  /\ look.at = "probe"
  /\ LET host == machine.serves[look.port]
         found == look.found \cup {[host |-> host, pid |-> look.pid, port |-> look.port]}
     IN CASE host = "silent" -> Fails(look.source, "exit3")
          [] host = "broken" -> Fails(look.source, "exit2")
          [] host \in Hosts  -> IF look.source \in Candidates
                                THEN AfterCandidate(found)
                                ELSE Conclude(look.source, found)

ResolveAO(input) ==
  \/ Choose(input) \/ StatCandidate \/ ReadRunFile \/ CheckProcessAlive \/ ProbeAOIdentity

----------------------------------------------------------------------------
(* ResolveGatewayEndpoint; whether the catalog is empty is left to its users. *)

\* The URL without its blanks, or the default if nothing is left of it.
Gateway(input) ==
  IF TrimSpace(input.gateway) = "" THEN DefaultGateway ELSE TrimSpace(input.gateway)

\* "up", or how the command exits.
ProbeGateway(input) ==
  LET g == Gateway(input)
  IN CASE g = "invalid" -> "exit2"
       [] g \in Gateways -> CASE machine.gateways[g] = "down"   -> "exit3"
                              [] machine.gateways[g] = "broken" -> "exit2"
                              [] OTHER                          -> "up"

----------------------------------------------------------------------------
\* Daemons, their processes, their run files and the gateways change.
MachineChanged ==
  \/ \E n \in Ports, v \in Hosts \cup {"silent", "broken"} :
       machine' = [machine EXCEPT !.serves[n] = v]
  \/ \E f \in RunFiles, v \in Entries \cup {Absent, Damaged} :
       machine' = [machine EXCEPT !.files[f] = v]
  \/ \E v \in SUBSET Pids : machine' = [machine EXCEPT !.alive = v]
  \/ \E g \in Gateways, v \in {"up", "down", "broken"} :
       machine' = [machine EXCEPT !.gateways[g] = v]
=============================================================================
