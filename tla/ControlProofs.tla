------------------------------ MODULE ControlProofs ------------------------------
(***************************************************************************)
(* Theorems about the commands of coworkers, for any specification files,  *)
(* inputs, daemons and gateways, and any changes: that attach with its     *)
(* endpoints discovered step by step is the attach of module Attach, so    *)
(* that what is proved there holds of the command; that attach and         *)
(* discovery decide exactly what the state says, when nothing changes; and *)
(* that doctor, attach and status do not contradict one another.           *)
(***************************************************************************)
EXTENDS AttachProofs, ControlProperties, FiniteSetTheorems

Busy(p) == at[p] \notin Exits

\* A run file that is looked at is one, and so is a port.
LookOK ==
  /\ DiscoveryTypeOK
  /\ look.at \in {"stat", "read"} => look.source \in RunFiles
  /\ look.at \in {"alive", "probe"} => look.port \in Ports

\* There is one command at a time; an attach resolves its endpoints first, and only then.
OneCommand ==
  /\ \A p \in Procs : Busy(p) => cmd.name = "attach" /\ (look.at # "idle" <=> at[p] = "endpoints")
  /\ \A p, q \in Procs : Busy(p) /\ Busy(q) => p = q
  /\ cmd.name = "attach" => cmd.at = "attach"

CommandOK ==
  /\ cmd \in Commands
  /\ host \in [tools: BOOLEAN, commits: SUBSET Heads]
  /\ success \in Successes \cup {Never}

ControlInv == Ind /\ LookOK /\ CommandOK /\ OneCommand

----------------------------------------------------------------------------
(* Discovery. *)

LEMMA FailedIs ==
  ASSUME NEW code \in Remote, Failed(code)
  PROVE  /\ look' \in Lookups /\ look'.at = "failed" /\ look'.code = code
BY DEF Failed, NotLooking, Lookups, Remote, RunFiles

LEMMA FailsIs ==
  ASSUME NEW source, NEW code \in Remote, Fails(source, code)
  PROVE  look' \in Lookups /\ look'.at = "failed" /\ look'.code \in Remote
<1>1. CASE source \in Candidates
  <2>1. Failed("exit2") /\ "exit2" \in Remote
    BY <1>1 DEF Fails, Remote
  <2> QED
    BY <2>1, FailedIs
<1>2. CASE source \notin Candidates
  BY <1>2, FailedIs DEF Fails
<1> QED
  BY <1>1, <1>2

\* What a step of discovery may lead to.
Looks ==
  /\ look' \in Lookups /\ look'.at # "idle"
  /\ look'.at \in {"stat", "read"} => look'.source \in RunFiles
  /\ look'.at \in {"alive", "probe"} => look'.port \in Ports
  /\ look'.at = "failed" => look'.code \in Remote

LEMMA ConcludeIs ==
  ASSUME NEW source \in RunFiles \cup {"url"}, NEW found \in SUBSET Daemons,
         Conclude(source, found)
  PROVE  Looks
<1>1. CASE Found(source, found)
  BY <1>1 DEF Found, NotLooking, Lookups, Looks, RunFiles
<1>2. CASE \E code \in Remote : Failed(code)
  BY <1>2, FailedIs DEF Looks
<1>3. "exit2" \in Remote /\ "exit3" \in Remote
  BY DEF Remote
<1> QED
  BY <1>1, <1>2, <1>3 DEF Conclude

LEMMA AfterCandidateIs ==
  ASSUME look \in Lookups, NEW found \in SUBSET Daemons, AfterCandidate(found)
  PROVE  Looks
<1>1. CASE look.source = "dev"
  BY <1>1 DEF AfterCandidate, NotLooking, Lookups, Looks, RunFiles
<1>2. CASE look.source # "dev"
  <2>1. look.source \in RunFiles \cup {"url"} /\ Conclude(look.source, found)
    BY <1>2 DEF AfterCandidate, Lookups
  <2> QED
    BY <2>1, ConcludeIs
<1> QED
  BY <1>1, <1>2

LEMMA Looked ==
  ASSUME LookOK, NEW input \in Inputs, ResolveAO(input)
  PROVE  Looks
<1>1. /\ look \in Lookups /\ look.source \in RunFiles \cup {"url"} /\ look.found \in SUBSET Daemons
      /\ machine.files \in [RunFiles -> Entries \cup {Absent, Damaged}]
      /\ machine.serves \in [Ports -> Hosts \cup {"silent", "broken"}]
  BY DEF LookOK, DiscoveryTypeOK, Lookups, Machines
<1>2. "exit2" \in Remote /\ "exit3" \in Remote
  BY DEF Remote
<1>3. CASE Choose(input)
  <2>1. ASSUME NEW url \in Ports \cup {"invalid"}, LookAtUrl(url) PROVE Looks
    <3>1. CASE url = "invalid"
      BY <1>2, <2>1, <3>1, FailedIs DEF LookAtUrl, Looks
    <3>2. CASE url # "invalid"
      BY <2>1, <3>2 DEF LookAtUrl, NotLooking, Lookups, Looks, RunFiles
    <3> QED
      BY <3>1, <3>2
  <2>2. \/ \E url \in Ports \cup {"invalid"} : LookAtUrl(url)
        \/ look' = [NotLooking EXCEPT !.at = "read", !.source = "env"]
        \/ look' = [NotLooking EXCEPT !.at = "stat", !.source = "dev"]
    BY <1>3 DEF Choose, Inputs
  <2>3. ASSUME \/ look' = [NotLooking EXCEPT !.at = "read", !.source = "env"]
               \/ look' = [NotLooking EXCEPT !.at = "stat", !.source = "dev"]
        PROVE  Looks
    BY <2>3 DEF NotLooking, Lookups, Looks, RunFiles
  <2> QED
    BY <2>1, <2>2, <2>3
<1>4. CASE StatCandidate
  <2>1. CASE AfterCandidate(look.found)
    BY <1>1, <2>1, AfterCandidateIs
  <2>2. CASE look' = [look EXCEPT !.at = "read"]
    BY <1>1, <1>4, <2>2 DEF StatCandidate, LookOK, Lookups, Looks
  <2> QED
    BY <1>4, <2>1, <2>2 DEF StatCandidate
<1>5. CASE ReadRunFile
  <2> DEFINE f == machine.files[look.source]
  <2>1. CASE \E code \in Remote : Fails(look.source, code)
    BY <2>1, FailsIs DEF Looks
  <2>2. CASE look' = [look EXCEPT !.at = "alive", !.pid = f.pid, !.port = f.port] /\ f \in Entries
    BY <1>1, <2>2 DEF Lookups, Looks, Entries
  <2>3. f \in Entries \cup {Absent, Damaged}
    BY <1>1, <1>5 DEF ReadRunFile, LookOK
  <2> QED
    BY <1>2, <1>5, <2>1, <2>2, <2>3 DEF ReadRunFile
<1>6. CASE CheckProcessAlive
  <2>1. CASE Fails(look.source, "exit2")
    BY <1>2, <2>1, FailsIs DEF Looks
  <2>2. CASE look.at = "alive" /\ look' = [look EXCEPT !.at = "probe"]
    BY <1>1, <2>2 DEF Lookups, Looks, LookOK
  <2> QED
    BY <1>6, <2>1, <2>2 DEF CheckProcessAlive
<1>7. CASE ProbeAOIdentity
  <2> DEFINE answer == machine.serves[look.port]
             found == look.found \cup {[host |-> answer, pid |-> look.pid, port |-> look.port]}
  <2>1. CASE \E code \in Remote : Fails(look.source, code)
    BY <2>1, FailsIs DEF Looks
  <2>2. ASSUME answer \in Hosts PROVE found \in SUBSET Daemons
    BY <1>1, <1>7, <2>2 DEF ProbeAOIdentity, LookOK, Lookups, Daemons
  <2>3. answer \in Hosts \cup {"silent", "broken"}
    BY <1>1, <1>7 DEF ProbeAOIdentity, LookOK
  <2>4. CASE answer \in Hosts /\ (AfterCandidate(found) \/ Conclude(look.source, found))
    BY <1>1, <2>2, <2>4, AfterCandidateIs, ConcludeIs
  <2> QED
    BY <1>2, <1>7, <2>1, <2>3, <2>4 DEF ProbeAOIdentity
<1> QED
  BY <1>3, <1>4, <1>5, <1>6, <1>7 DEF ResolveAO

\* A lookup that is over or about to begin.
LEMMA LooksAnew ==
  ASSUME LookOK, machine' = machine, \/ StartLooking \/ look' = NotLooking \/ look' = look \/ Looks
  PROVE  LookOK'
<1>1. CASE StartLooking \/ look' = NotLooking
  BY <1>1 DEF LookOK, DiscoveryTypeOK, StartLooking, NotLooking, Lookups, RunFiles
<1>2. CASE look' = look \/ Looks
  BY <1>2 DEF LookOK, DiscoveryTypeOK, Looks
<1> QED
  BY <1>1, <1>2

----------------------------------------------------------------------------
(* Commands. *)

LEMMA EndedIs ==
  ASSUME NEW code \in Exits
  PROVE  Ended(code) \in Commands /\ Ended(code).at = code /\ Ended(code).name = "none"
<1>1. /\ (CHOOSE r \in RawSpecs : TRUE) \in RawSpecs
      /\ (CHOOSE i \in Tried : TRUE) \in Tried
  BY ControlInstance
<1>2. 0 \in 0..MaxChanges
  BY AttachSwitches
<1> QED
  BY <1>1, <1>2 DEF Ended, Commands

LEMMA EnterIs ==
  ASSUME Ind, NEW name \in {"attach", "doctor", "status"}, NEW label \in Steps,
         NEW raw \in RawSpecs, NEW input \in Tried, Enter(name, label, raw, input)
  PROVE  cmd' \in Commands /\ cmd'.at = label /\ cmd'.name = name
<1>1. Ended("down") \in Commands /\ changes \in 0..MaxChanges
  BY EndedIs DEF Exits, Ind, TypeOK
<1> QED
  BY <1>1 DEF Enter, Commands

LEMMA Idle ==
  ASSUME ControlInv, AtPrompt
  PROVE  \A p \in Procs : ~Busy(p)
BY DEF ControlInv, OneCommand, AtPrompt, Exits

\* A command other than attach, or none, leaves the attaches alone.
LEMMA OtherCommand ==
  ASSUME ControlInv, UNCHANGED <<vars, machine, host>>, \A p \in Procs : ~Busy(p),
         cmd' \in Commands, cmd'.name # "attach", LookOK', success' \in Successes \cup {Never}
  PROVE  ControlInv'
<1>1. Ind'
  BY StepKeepsInd DEF ControlInv
<1>2. at' = at
  BY DEF vars, procVars
<1> QED
  BY <1>1, <1>2 DEF ControlInv, CommandOK, OneCommand, Busy

\* attach p goes on; nobody else is attaching.
LEMMA AttachGoes ==
  ASSUME ControlInv, NEW p \in Procs, Busy(p), Ind',
         \A q \in Procs \ {p} : at'[q] = at[q],
         cmd' = IF at'[p] \in Exits THEN Ended(at'[p]) ELSE cmd,
         Remember(at'[p]), UNCHANGED <<machine, host>>, LookOK',
         Busy(p)' => (look'.at # "idle" <=> at'[p] = "endpoints")
  PROVE  ControlInv'
<1>1. cmd.name = "attach" /\ cmd \in Commands /\ cmd.at = "attach"
  BY DEF ControlInv, OneCommand, CommandOK
<1>2. \A q \in Procs : Busy(q)' => q = p
  BY DEF ControlInv, OneCommand, Busy
<1>3. CommandOK'
  <2>1. cmd' \in Commands
    BY <1>1, EndedIs
  <2>2. success' \in Successes \cup {Never}
    BY <1>1 DEF Remember, ControlInv, CommandOK, Successes, Commands
  <2> QED
    BY <2>1, <2>2 DEF ControlInv, CommandOK
<1>4. CASE at'[p] \in Exits
  <2>1. cmd'.name = "none"
    BY <1>4, EndedIs
  <2>2. \A q \in Procs : ~Busy(q)'
    BY <1>2, <1>4 DEF Busy
  <2> QED
    BY <1>3, <2>1, <2>2 DEF ControlInv, OneCommand
<1>5. CASE at'[p] \notin Exits
  BY <1>1, <1>2, <1>3, <1>5 DEF ControlInv, OneCommand, Busy
<1> QED
  BY <1>4, <1>5

----------------------------------------------------------------------------
(* doctor and status. *)

LEMMA BeginDoctorStep ==
  ASSUME ControlInv, BeginDoctor
  PROVE  ControlInv' /\ UNCHANGED vars
<1>1. \A p \in Procs : ~Busy(p)
  BY Idle DEF BeginDoctor
<1>2. cmd' \in Commands /\ cmd'.name # "attach"
  <2>1. PICK raw \in RawSpecs, input \in Tried :
          \/ Enter("doctor", "endpoints", raw, input) \/ cmd' = Ended("exit2")
    BY DEF BeginDoctor
  <2> QED
    BY <2>1, EnterIs, EndedIs DEF ControlInv, Steps, Exits
<1>3. UNCHANGED <<vars, machine, host, success>> /\ (StartLooking \/ look' = look)
  BY DEF BeginDoctor
<1>4. LookOK'
  BY <1>3, LooksAnew DEF ControlInv
<1> QED
  BY <1>1, <1>2, <1>3, <1>4, OtherCommand DEF ControlInv, CommandOK

LEMMA BeginStatusStep ==
  ASSUME ControlInv, BeginStatus
  PROVE  ControlInv' /\ UNCHANGED vars
<1>1. \A p \in Procs : ~Busy(p)
  BY Idle DEF BeginStatus
<1>2. cmd' \in Commands /\ cmd'.name # "attach"
  <2>1. PICK input \in Tried :
          \/ /\ Readable(file)
             /\ cmd' = [Ended("down") EXCEPT !.name = "status", !.at = "override",
                                             !.input = input, !.began = changes, !.seen = file]
          \/ cmd' = Ended("exit2")
    BY DEF BeginStatus
  <2>2. Ended("down") \in Commands /\ changes \in 0..MaxChanges
    BY EndedIs DEF Exits, ControlInv, Ind, TypeOK
  <2>3. "exit2" \in Exits /\ "override" \in Steps
    BY DEF Exits, Steps
  <2>4. CASE cmd' = Ended("exit2")
    BY <2>3, <2>4, EndedIs
  <2>5. CASE /\ file \in Manifests
             /\ cmd' = [Ended("down") EXCEPT !.name = "status", !.at = "override",
                                             !.input = input, !.began = changes, !.seen = file]
    BY <2>2, <2>3, <2>5 DEF Commands
  <2> QED
    BY <2>1, <2>4, <2>5 DEF Readable
<1>3. UNCHANGED <<vars, machine, host, look, success>>
  BY DEF BeginStatus
<1>4. LookOK'
  BY <1>3, LooksAnew DEF ControlInv
<1> QED
  BY <1>1, <1>2, <1>3, <1>4, OtherCommand DEF ControlInv, CommandOK

\* While doctor or status is at the terminal nobody attaches.
LEMMA NotAttaching ==
  ASSUME ControlInv, cmd.name # "attach"
  PROVE  \A p \in Procs : ~Busy(p)
BY DEF ControlInv, OneCommand

\* A command goes on or exits.
LEMMA GoesOnOrEnds ==
  ASSUME ControlInv, cmd.name # "attach",
         \/ \E next \in Steps : cmd' = [cmd EXCEPT !.at = next]
         \/ \E catalog \in SUBSET Models : cmd' = [cmd EXCEPT !.at = "root", !.catalog = catalog]
         \/ \E code \in Exits : cmd' = Ended(code)
         \/ cmd' = cmd
  PROVE  cmd' \in Commands /\ cmd'.name # "attach"
<1>1. cmd \in Commands
  BY DEF ControlInv, CommandOK
<1>2. CASE \E code \in Exits : cmd' = Ended(code)
  BY <1>2, EndedIs
<1>3. CASE \E next \in Steps : cmd' = [cmd EXCEPT !.at = next]
  BY <1>1, <1>3 DEF Commands
<1>4. CASE \E catalog \in SUBSET Models : cmd' = [cmd EXCEPT !.at = "root", !.catalog = catalog]
  BY <1>1, <1>4 DEF Commands, Steps
<1> QED
  BY <1>1, <1>2, <1>3, <1>4

LEMMA DoctorStepStep ==
  ASSUME ControlInv, DoctorStep
  PROVE  ControlInv' /\ UNCHANGED vars
<1>1. /\ cmd.name = "doctor" /\ cmd \in Commands /\ cmd.input \in Inputs
      /\ UNCHANGED <<vars, machine, host>> /\ Remember(cmd'.at)
      /\ world.catalog \in SUBSET Models
  BY ControlInstance DEF DoctorStep, ControlInv, CommandOK, Commands, Ind, TypeOK, Worlds
<1>2. \A p \in Procs : ~Busy(p)
  BY <1>1, NotAttaching
<1>3. /\ \/ \E next \in Steps : cmd' = [cmd EXCEPT !.at = next]
         \/ \E catalog \in SUBSET Models : cmd' = [cmd EXCEPT !.at = "root", !.catalog = catalog]
         \/ \E code \in Exits : cmd' = Ended(code)
         \/ cmd' = cmd
      /\ \/ look' = NotLooking \/ look' = look \/ Looks
  <2>1. CASE DoctorDiscovers
    <3>1. Looks
      BY <1>1, <2>1, Looked DEF DoctorDiscovers, ControlInv
    <3> QED
      BY <2>1, <3>1 DEF DoctorDiscovers, Looks, Remote, Exits
  <2>2. CASE DoctorGateway
    BY <1>1, <2>2 DEF DoctorGateway, Exits
  <2>3. CASE DoctorRoot \/ DoctorStatus \/ DoctorCommit
    BY <2>3 DEF DoctorRoot, DoctorStatus, DoctorCommit, Check, Exits, Steps
  <2>4. CASE DoctorTools
    BY <2>4 DEF DoctorTools, Exits
  <2> QED
    BY <2>1, <2>2, <2>3, <2>4 DEF DoctorStep
<1>4. cmd' \in Commands /\ cmd'.name # "attach"
  BY <1>1, <1>3, GoesOnOrEnds
<1>5. LookOK'
  BY <1>1, <1>3, LooksAnew DEF ControlInv
<1>6. success' \in Successes \cup {Never}
  BY <1>1 DEF Remember, ControlInv, CommandOK, Successes, Commands
<1> QED
  BY <1>1, <1>2, <1>4, <1>5, <1>6, OtherCommand

LEMMA StatusStepStep ==
  ASSUME ControlInv, StatusStep
  PROVE  ControlInv' /\ UNCHANGED vars
<1>1. cmd.name = "status" /\ UNCHANGED <<vars, machine, host, look, success>>
  BY DEF StatusStep
<1>2. \A p \in Procs : ~Busy(p)
  BY <1>1, NotAttaching
<1>3. \/ \E next \in Steps : cmd' = [cmd EXCEPT !.at = next]
      \/ \E code \in Exits : cmd' = Ended(code)
  <2>1. CASE StatusOverride
    <3>1. Override # "same" => Override \in Exits
      BY DEF Override, Exits
    <3> QED
      BY <2>1, <3>1 DEF StatusOverride, Exits, Steps
  <2>2. CASE StatusGateway \/ StatusLease
    BY <2>2 DEF StatusGateway, StatusLease, Exits, Steps
  <2> QED
    BY <2>1, <2>2 DEF StatusStep
<1>4. cmd' \in Commands /\ cmd'.name # "attach"
  BY <1>1, <1>3, GoesOnOrEnds
<1>5. LookOK'
  BY <1>1, LooksAnew DEF ControlInv
<1> QED
  BY <1>1, <1>2, <1>4, <1>5, OtherCommand DEF ControlInv, CommandOK

----------------------------------------------------------------------------
(* attach. *)

Rest(p) ==
  \/ ReadSession(p) \/ ReadSettings(p) \/ ReadWorktrees(p)
  \/ CheckRoot(p) \/ CheckStatus(p) \/ InspectLease(p)
  \/ Stat(p) \/ Compare(p) \/ Rename(p) \/ Readback(p)

\* A resolution that fails.
Unresolved(p) == at[p] = "endpoints" /\ \E code \in Remote : Exit(p, code)

\* What the commands do to the attaches.
Step ==
  \/ UNCHANGED vars \/ WorldChanges
  \/ \E p \in Procs : Begin(p) \/ ResolveEndpoints(p) \/ Unresolved(p) \/ Rest(p)

\* A step of Attach, whatever may fail.
Same == [AttachAlone!Next]_vars

LEMMA ReadIsSame ==
  ASSUME NEW p, NEW here, NEW next, NEW codes, NEW check, NEW c,
         Read(p, here, next, codes, check, c)
  PROVE  AttachAlone!Read(p, here, next, codes, check, c)
BY DEF Read, Exit, Goto, Collect, envVars,
       AttachAlone!Read, AttachAlone!Exit, AttachAlone!Goto, AttachAlone!Collect,
        AttachAlone!envVars

LEMMA ResolvedIsSame ==
  ASSUME NEW p \in Procs, ResolveEndpoints(p)
  PROVE  Same
<1>1. PICK e \in Endpoints, viaFile \in BOOLEAN :
        Read(p, "endpoints", "session", Remote, world.catalog # {}, Located(p, e, viaFile))
  BY DEF ResolveEndpoints
<1>2. AttachAlone!Read(p, "endpoints", "session", Remote, world.catalog # {},
                       Located(p, e, viaFile))
  BY <1>1, ReadIsSame
<1>3. AttachAlone!ResolveEndpoints(p)
  BY <1>2 DEF AttachAlone!ResolveEndpoints, AttachAlone!Remote, AttachAlone!Located, Remote, Located
<1> QED
  BY <1>3 DEF Same, AttachAlone!Next, AttachAlone!Attaching

LEMMA UnresolvedIsSame ==
  ASSUME NEW p \in Procs, Unresolved(p)
  PROVE  Same
<1>1. PICK e \in Endpoints, code \in Remote : Exit(p, code) /\ at[p] = "endpoints"
  BY EndpointsAssumption DEF Unresolved
<1>2. AttachAlone!Exit(p, code)
  BY <1>1 DEF Exit, Goto, Collect, envVars,
         AttachAlone!Exit, AttachAlone!Goto, AttachAlone!Collect, AttachAlone!envVars
<1>3. AttachAlone!Read(p, "endpoints", "session", Remote, world.catalog # {}, Located(p, e, TRUE))
  BY <1>1, <1>2 DEF AttachAlone!Read
<1>4. AttachAlone!ResolveEndpoints(p)
  BY <1>1, <1>3
  DEF AttachAlone!ResolveEndpoints, AttachAlone!Remote, AttachAlone!Located, Remote, Located
<1> QED
  BY <1>4 DEF Same, AttachAlone!Next, AttachAlone!Attaching

LEMMA ReadableIsSame ==
  ASSUME NEW f
  PROVE  /\ Readable(f) <=> AttachAlone!Readable(f)
         /\ \A c : Bound(f, c) <=> AttachAlone!Bound(f, c)
<1>1. AttachAlone!Manifests = Manifests
  BY DEF Manifests, Policies, Porcelains, LeaseStates, AttachAlone!Manifests,
         AttachAlone!Policies, AttachAlone!Porcelains, AttachAlone!LeaseStates
<1>2. Accepts(f) <=> AttachAlone!Accepts(f)
  BY DEF Accepts, AttachAlone!Accepts
<1>3. \A c : Matches(f, c) <=> AttachAlone!Matches(f, c)
  BY DEF Matches, AttachAlone!Matches
<1>4. Readable(f) <=> AttachAlone!Readable(f)
  BY <1>1, <1>2 DEF Readable, AttachAlone!Readable
<1> QED
  BY <1>3, <1>4 DEF Bound, AttachAlone!Bound

LEMMA RestIsSame ==
  ASSUME NEW p \in Procs, Rest(p)
  PROVE  Same
<1>1. CASE ReadSession(p)
  BY <1>1, ReadIsSame DEF ReadSession, AttachAlone!ReadSession, Remote, AttachAlone!Remote,
     Same, AttachAlone!Next, AttachAlone!Attaching
<1>2. CASE ReadSettings(p)
  BY <1>2, ReadIsSame DEF ReadSettings, AttachAlone!ReadSettings, Remote, AttachAlone!Remote,
     Same, AttachAlone!Next, AttachAlone!Attaching
<1>3. CASE ReadWorktrees(p)
  BY <1>3, ReadIsSame DEF ReadWorktrees, AttachAlone!ReadWorktrees, Local, AttachAlone!Local,
     On, AttachAlone!On, Places, AttachAlone!Places, Same, AttachAlone!Next, AttachAlone!Attaching
<1>4. CASE CheckRoot(p)
  BY <1>4, ReadIsSame DEF CheckRoot, AttachAlone!CheckRoot, Local, AttachAlone!Local,
     Same, AttachAlone!Next, AttachAlone!Attaching
<1>5. CASE CheckStatus(p)
  BY <1>5, ReadIsSame DEF CheckStatus, AttachAlone!CheckStatus, Local, AttachAlone!Local,
     Porcelain, AttachAlone!Porcelain, Same, AttachAlone!Next, AttachAlone!Attaching
<1>6. CASE InspectLease(p)
  BY <1>6, ReadIsSame DEF InspectLease, AttachAlone!InspectLease, Local, AttachAlone!Local,
     Same, AttachAlone!Next, AttachAlone!Attaching
<1>7. CASE Stat(p)
  <2>1. AttachAlone!Stat(p)
    BY <1>7 DEF Stat, Exit, Goto, Collect, envVars,
       AttachAlone!Stat, AttachAlone!Exit, AttachAlone!Goto, AttachAlone!Collect,
        AttachAlone!envVars
  <2> QED
    BY <2>1 DEF Same, AttachAlone!Next, AttachAlone!Attaching
<1>8. CASE Compare(p)
  <2>1. AttachAlone!Compare(p)
    BY <1>8, ReadableIsSame
    DEF Compare, Exit, Goto, Collect, envVars,
       AttachAlone!Compare, AttachAlone!Exit, AttachAlone!Goto, AttachAlone!Collect,
       AttachAlone!envVars
  <2> QED
    BY <2>1 DEF Same, AttachAlone!Next, AttachAlone!Attaching
<1>9. CASE Rename(p)
  <2>1. AttachAlone!Rename(p)
    BY <1>9 DEF Rename, Exit, Goto, Collect, envVars,
       AttachAlone!Rename, AttachAlone!Exit, AttachAlone!Goto, AttachAlone!Collect,
       AttachAlone!envVars
  <2> QED
    BY <2>1 DEF Same, AttachAlone!Next, AttachAlone!Attaching
<1>10. CASE Readback(p)
  <2>1. AttachAlone!Readback(p)
    BY <1>10, ReadableIsSame
    DEF Readback, Goto, Collect, envVars,
       AttachAlone!Readback, AttachAlone!Goto, AttachAlone!Collect, AttachAlone!envVars
  <2> QED
    BY <2>1 DEF Same, AttachAlone!Next, AttachAlone!Attaching
<1> QED
  BY <1>1, <1>2, <1>3, <1>4, <1>5, <1>6, <1>7, <1>8, <1>9, <1>10 DEF Rest

LEMMA StepIsSame ==
  ASSUME Step
  PROVE  Same
<1>1. CASE WorldChanges
  <2>1. AttachAlone!WorldChanges
    BY <1>1 DEF WorldChanges, Changed, procVars, Places, Inspections, LeaseStates,
                AttachAlone!WorldChanges, AttachAlone!Changed, AttachAlone!procVars,
                AttachAlone!Places, AttachAlone!Inspections, AttachAlone!LeaseStates
  <2> QED
    BY <2>1 DEF Same, AttachAlone!Next
<1>2. ASSUME NEW p \in Procs, Begin(p) PROVE Same
  <2>1. AttachAlone!Begin(p)
    BY <1>2
    DEF Begin, Goto, Collect, envVars, Exits, AttachAlone!Begin, AttachAlone!Goto,
        AttachAlone!Collect, AttachAlone!envVars, AttachAlone!Exits
  <2> QED
    BY <2>1 DEF Same, AttachAlone!Next, AttachAlone!Attaching
<1> QED
  BY <1>1, <1>2, ResolvedIsSame, UnresolvedIsSame, RestIsSame DEF Step, Same

\* The other attaches stay where they are.
OthersStay(p) == \A q \in Procs \ {p} : at'[q] = at[q]

LEMMA RestKeepsInd ==
  ASSUME Ind, NEW p \in Procs, Rest(p)
  PROVE  /\ Ind' /\ OthersStay(p)
         /\ at[p] # "endpoints" /\ at'[p] # "endpoints"
<1>1. Ind'
  BY ReadSessionKeepsInd, ReadSettingsKeepsInd, ReadWorktreesKeepsInd, CheckRootKeepsInd,
     CheckStatusKeepsInd, InspectLeaseKeepsInd, StatKeepsInd, CompareKeepsInd, RenameKeepsInd,
     ReadbackKeepsInd DEF Rest
<1>2. /\ at[p] # "endpoints"
      /\ \E label \in (Exits \cup Reads \cup Writes) \ {"endpoints"} : Goto(p, label)
  BY DEF Rest, ReadSession, ReadSettings, ReadWorktrees, CheckRoot, CheckStatus, InspectLease,
         Stat, Compare, Rename, Readback, Read, Exit, Exits, Reads, Writes, Remote, Local
<1>3. OthersStay(p) /\ at'[p] # "endpoints"
  BY <1>2 DEF Goto, OthersStay, Ind, TypeOK
<1> QED
  BY <1>1, <1>2, <1>3

LEMMA BeginAttachStep ==
  ASSUME ControlInv, NEW p \in Procs, BeginAttach(p)
  PROVE  ControlInv' /\ Step
<1>1. PICK raw \in RawSpecs, input \in Tried :
        \/ /\ Accepted(raw) /\ Begin(p) /\ spec'[p] = Parse(raw)
           /\ Enter("attach", "attach", raw, input) /\ StartLooking
        \/ ~Accepted(raw) /\ cmd' = Ended("exit2") /\ UNCHANGED <<vars, look>>
  BY DEF BeginAttach
<1>2. UNCHANGED <<machine, host, success>> /\ (\A q \in Procs : ~Busy(q))
  BY Idle DEF BeginAttach
<1>3. LookOK'
  BY <1>1, <1>2, LooksAnew DEF ControlInv
<1>4. CASE cmd' = Ended("exit2") /\ UNCHANGED vars
  BY <1>2, <1>3, <1>4, EndedIs, OtherCommand DEF Exits, ControlInv, CommandOK, Step
<1>5. CASE Begin(p) /\ Enter("attach", "attach", raw, input) /\ StartLooking
  <2>1. Ind'
    BY <1>5, BeginKeepsInd DEF ControlInv
  <2>2. cmd' \in Commands /\ cmd'.at = "attach" /\ cmd'.name = "attach"
    BY <1>5, EnterIs DEF ControlInv, Steps
  <2>3. look'.at # "idle"
    BY <1>5 DEF StartLooking, NotLooking
  <2>4. at'[p] = "endpoints" /\ OthersStay(p)
    BY <1>5 DEF Begin, Goto, OthersStay, ControlInv, Ind, TypeOK
  <2>5. \A q \in Procs : Busy(q)' => q = p
    BY <1>2, <2>4 DEF Busy, OthersStay
  <2>6. OneCommand'
    BY <2>2, <2>3, <2>4, <2>5 DEF OneCommand
  <2> QED
    BY <1>2, <1>3, <1>5, <2>1, <2>2, <2>6 DEF ControlInv, CommandOK, Step
<1> QED
  BY <1>1, <1>4, <1>5

LEMMA GatewayIs ==
  ASSUME NEW input \in Inputs
  PROVE  /\ ProbeGateway(input) \in {"up"} \cup Remote
         /\ ProbeGateway(input) = "up" => Gateway(input) \in Gateways
<1>1. Gateway(input) \in Gateways \cup {"invalid"}
  BY GatewayAssumption DEF Gateway, TrimSpace, Inputs, Typed
<1> QED
  BY <1>1 DEF ProbeGateway, Remote

LEMMA AttachStepStep ==
  ASSUME ControlInv, NEW p \in Procs, AttachStep(p)
  PROVE  ControlInv' /\ Step
<1>1. /\ Busy(p) /\ cmd \in Commands /\ cmd.input \in Inputs
      /\ look.at # "idle" <=> at[p] = "endpoints"
      /\ cmd' = IF at'[p] \in Exits THEN Ended(at'[p]) ELSE cmd
      /\ Remember(at'[p]) /\ UNCHANGED <<machine, host>>
  BY ControlInstance DEF AttachStep, Busy, ControlInv, OneCommand, CommandOK, Commands
<1>2. SUFFICES /\ Ind' /\ OthersStay(p) /\ LookOK' /\ Step
               /\ Busy(p)' => (look'.at # "idle" <=> at'[p] = "endpoints")
  BY <1>1, AttachGoes DEF OthersStay
<1>3. CASE AttachDiscovers(p)
  <2>1. Looks /\ at[p] = "endpoints"
    BY <1>1, <1>3, Looked DEF AttachDiscovers, ControlInv
  <2>2. LookOK'
    BY <1>1, <2>1, LooksAnew DEF ControlInv
  <2>3. CASE look'.at = "failed"
    <3>1. Exit(p, look'.code) /\ look'.code \in Remote
      BY <1>3, <2>1, <2>3 DEF AttachDiscovers, Looks
    <3>2. Ind' /\ OthersStay(p) /\ ~Busy(p)'
      BY <3>1, ExitKeepsInd
      DEF GivesUp, Remote, Exits, Exit, Goto, ControlInv, Ind, TypeOK, OthersStay, Busy
    <3> QED
      BY <2>1, <2>2, <3>1, <3>2 DEF Step, Unresolved
  <2>4. CASE look'.at # "failed"
    <3>1. UNCHANGED vars /\ at' = at
      BY <1>3, <2>4 DEF AttachDiscovers, vars, procVars
    <3> QED
      BY <2>1, <2>2, <3>1, StepKeepsInd DEF ControlInv, OthersStay, Step, Looks
  <2> QED
    BY <2>3, <2>4
<1>4. CASE AttachGateway(p)
  <2>1. at[p] = "endpoints" /\ look.at = "found" /\ look' = NotLooking
    BY <1>1, <1>4 DEF AttachGateway
  <2>2. LookOK' /\ look'.at = "idle"
    BY <1>1, <2>1, LooksAnew DEF ControlInv, NotLooking
  <2>3. CASE ProbeGateway(cmd.input) = "up"
    <3>1. PICK d \in look.found :
            Read(p, "endpoints", "session", {}, world.catalog # {},
                 Located(p, [port |-> d.port, host |-> d.host, gateway |-> Gateway(cmd.input)],
                         look.source # "url"))
      BY <1>4, <2>3 DEF AttachGateway
    <3>2. [port |-> d.port, host |-> d.host, gateway |-> Gateway(cmd.input)] \in Endpoints
      BY <1>1, <2>3, GatewayIs, ControlInstance
      DEF ControlInv, LookOK, DiscoveryTypeOK, Lookups, Daemons
    <3>3. ResolveEndpoints(p)
      BY <3>1, <3>2 DEF ResolveEndpoints, Read
    <3>4. Ind' /\ Step
      BY <3>3, EndpointsKeepsInd DEF ControlInv, Step
    <3>5. \E label \in Exits \cup {"session"} : Goto(p, label)
      BY <3>1 DEF Read, Exit, Exits
    <3>6. OthersStay(p) /\ at'[p] # "endpoints"
      BY <3>5 DEF Goto, OthersStay, ControlInv, Ind, TypeOK, Exits
    <3> QED
      BY <2>2, <3>4, <3>6
  <2>4. CASE ProbeGateway(cmd.input) # "up"
    <3>1. PICK code \in Remote : Exit(p, code)
      BY <1>1, <1>4, <2>4, GatewayIs DEF AttachGateway
    <3>2. Ind' /\ OthersStay(p) /\ ~Busy(p)'
      BY <3>1, ExitKeepsInd
      DEF GivesUp, Remote, Exits, Exit, Goto, ControlInv, Ind, TypeOK, OthersStay, Busy
    <3> QED
      BY <2>1, <2>2, <3>1, <3>2 DEF Step, Unresolved
  <2> QED
    BY <2>3, <2>4
<1>5. CASE AttachGoesOn(p)
  <2>1. Rest(p) /\ look' = look
    BY <1>5 DEF AttachGoesOn, Rest
  <2>2. LookOK'
    BY <1>1, <2>1, LooksAnew DEF ControlInv
  <2> QED
    BY <1>1, <2>1, <2>2, RestKeepsInd DEF ControlInv, Step
<1> QED
  BY <1>3, <1>4, <1>5 DEF AttachStep

----------------------------------------------------------------------------
(* Changes. *)

LEMMA MachineChangedIs ==
  ASSUME machine \in Machines, MachineChanged
  PROVE  machine' \in Machines
BY DEF MachineChanged, Machines, RunFiles

LEMMA ChangesStep ==
  ASSUME ControlInv, SomethingChanges
  PROVE  ControlInv' /\ Step
<1>1. WorldChanges
  <2>1. CASE /\ changes < MaxChanges /\ changes' = changes + 1
             /\ UNCHANGED <<world, file, procVars>>
    <3>1. world \in Worlds /\ world.edits \in SUBSET Edits
      BY DEF ControlInv, Ind, TypeOK, Worlds
    <3>2. world' = [world EXCEPT !.edits = world.edits]
      BY <2>1, <3>1 DEF Worlds
    <3>3. Changed
      BY <3>1, <3>2 DEF Changed
    <3> QED
      BY <2>1, <3>3 DEF WorldChanges
  <2> QED
    BY <2>1 DEF SomethingChanges
<1>2. Ind' /\ at' = at
  BY <1>1, WorldChangesKeepsInd DEF ControlInv, WorldChanges, procVars
<1>3. UNCHANGED <<cmd, look>> /\ success' = Never
  BY DEF SomethingChanges
<1>4. machine' \in Machines /\ host' \in [tools: BOOLEAN, commits: SUBSET Heads]
  <2>1. machine \in Machines /\ host \in [tools: BOOLEAN, commits: SUBSET Heads]
    BY DEF ControlInv, LookOK, DiscoveryTypeOK, CommandOK
  <2>2. CASE HostChanged
    BY <2>1, <2>2, MachineChangedIs DEF HostChanged
  <2> QED
    BY <2>1, <2>2 DEF SomethingChanges
<1>5. ControlInv'
  BY <1>2, <1>3, <1>4
  DEF ControlInv, LookOK, DiscoveryTypeOK, CommandOK, OneCommand, Busy
<1> QED
  BY <1>1, <1>5 DEF Step

----------------------------------------------------------------------------
(* The invariant, and what follows. *)

LEMMA ControlInvInit == ControlInit => ControlInv
<1> SUFFICES ASSUME ControlInit PROVE ControlInv
  OBVIOUS
<1>1. Ind /\ \A p \in Procs : at[p] = "down"
  BY InitInd DEF ControlInit, Init
<1>2. cmd \in Commands /\ cmd.name = "none"
  BY EndedIs DEF ControlInit, Exits
<1>3. LookOK
  BY ControlInstance DEF ControlInit, LookOK, DiscoveryTypeOK, NotLooking, Lookups, RunFiles
<1> QED
  BY <1>1, <1>2, <1>3 DEF ControlInit, ControlInv, CommandOK, OneCommand, Busy, Exits

LEMMA ControlInvStep ==
  ASSUME ControlInv, [ControlNext]_allVars
  PROVE  ControlInv' /\ Step
<1>1. CASE UNCHANGED allVars
  <2>1. UNCHANGED <<vars, cmd, machine, host, look, success>> /\ at' = at
    BY <1>1 DEF allVars, controlVars, vars, procVars
  <2>2. Ind' /\ LookOK'
    BY <2>1, StepKeepsInd, LooksAnew DEF ControlInv
  <2> QED
    BY <2>1, <2>2 DEF ControlInv, CommandOK, OneCommand, Busy, Step
<1>2. CASE BeginDoctor \/ BeginStatus \/ DoctorStep \/ StatusStep
  BY <1>2, BeginDoctorStep, BeginStatusStep, DoctorStepStep, StatusStepStep DEF Step
<1>3. CASE SomethingChanges \/ \E p \in Procs : BeginAttach(p) \/ AttachStep(p)
  BY <1>3, ChangesStep, BeginAttachStep, AttachStepStep
<1> QED
  BY <1>1, <1>2, <1>3 DEF ControlNext

LEMMA ControlInvAlways == ControlSpec => []ControlInv
<1>1. ControlInv /\ [ControlNext]_allVars => ControlInv'
  BY ControlInvStep
<1> QED
  BY <1>1, ControlInvInit, PTL DEF ControlSpec

\* ControlTypeOK: every reachable state of the terminal and the machine is well typed.
THEOREM ControlTypeCorrect == ControlSpec => []ControlTypeOK
<1>1. ControlInv => ControlTypeOK
  BY DEF ControlInv, Ind, LookOK, CommandOK, ControlTypeOK
<1> QED
  BY <1>1, ControlInvAlways, PTL

\* ImplementsAttach: the command attach, with discovery one read or probe at a time, is
\* the attach of module Attach (RunAttach, ResolveAOEndpoint, ResolveGatewayEndpoint).
THEOREM AttachIsImplemented == ControlSpec => ImplementsAttach
<1>1. ControlInit => AttachAlone!Init
  BY DEF ControlInit, Init, AttachAlone!Init
<1>2. ControlInv /\ [ControlNext]_allVars => [AttachAlone!Next]_AttachAlone!vars
  BY ControlInvStep, StepIsSame
  DEF Same, vars, envVars, procVars, AttachAlone!vars, AttachAlone!envVars, AttachAlone!procVars
<1> QED
  BY <1>1, <1>2, ControlInvAlways, PTL DEF ControlSpec, ImplementsAttach, AttachAlone!Spec

\* DirtyIsExplicit: a dirty workspace is bound only for a specification that says so.
THEOREM DirtyIsOnPurpose == ControlSpec => []DirtyIsExplicit
<1>1. ControlInv => DirtyIsExplicit
  <2> SUFFICES ASSUME ControlInv, file \in Manifests, ~file.clean
               PROVE  \E raw \in RawSpecs :
                        raw.sha = file.sha /\ raw.policy = "allow_dirty_recorded"
    BY DEF DirtyIsExplicit
  <2>1. PICK s \in Specs : WrittenFor(file, s)
    BY DEF ControlInv, Ind, AttachInv
  <2>2. PICK raw \in RawSpecs : Accepted(raw) /\ s = Parse(raw)
    BY ControlInstance
  <2>3. s.sha = file.sha /\ s.policy = file.policy /\ file.policy # "require_clean"
    BY <2>1 DEF WrittenFor, Collects, Accepts
  <2>4. s.sha = raw.sha /\ s.policy = DirtyPolicy(raw.policy)
    BY <2>2 DEF Parse
  <2>5. raw.policy \in Policies \cup {"unset", "odd"}
    BY ControlInstance DEF RawSpecFiles
  <2> QED
    BY <2>2, <2>3, <2>4, <2>5 DEF Accepted, DirtyPolicy, Policies
<1> QED
  BY <1>1, ControlInvAlways, PTL
----------------------------------------------------------------------------
(* What attach decides when nothing fails and nothing changes. *)

\* What has been read and is still so.
Fresh(label, c, s) ==
  LET session == world.session[c.session]
      settings == world.settings[c.session]
  IN /\ label = "session" \/ label \in After("session") => c.catalog = world.catalog
     /\ label \in After("session") =>
          session.live /\ session.model = c.model /\ session.branch = c.branch
     /\ label \in After("settings") => settings.model = s.model /\ settings.effort = s.effort
     /\ label \in After("worktrees") =>
          On(s.branch) = {"workspace"} /\ world.trees["workspace"].head = s.baseline
     /\ label = "status" \/ label \in After("status") => world.rootClean
     /\ label \in After("status") => (s.policy = "require_clean" => Porcelain(s.run) = {})
     /\ label \in After("lease") => world.leases[s.run] \in {"FREE", "OWNED"}

FreshInv ==
  \A p \in Procs : /\ began[p] <= changes
                   /\ changes = began[p] => Fresh(at[p], m[p], spec[p])

Decides(p) ==
  changes = began[p] =>
    /\ Leaves(p, "exit0") => Attachable(spec[p], m[p].session)
    /\ Faulty = FALSE /\ Leaves(p, "exit2") /\ at[p] \in Reads \ {"endpoints"} =>
         ~Attachable(spec[p], m[p].session)

\* An exit says nothing, and neither does the first label.
LEMMA NothingFresh ==
  ASSUME NEW label \in Exits \cup {"endpoints"}, NEW c, NEW s
  PROVE  Fresh(label, c, s)
BY DEF Fresh, After, Exits, Reads, Writes

LEMMA FreshMove ==
  ASSUME Ind, FreshInv, NEW p \in Procs, NEW label, NEW c, Goto(p, label), Collect(p, c),
         UNCHANGED <<world, changes, spec, began>>,
         changes = began[p] => Fresh(label, c, spec[p])
  PROVE  FreshInv' /\ at'[p] = label /\ OthersStay(p)
<1>1. at'[p] = label /\ m'[p] = c /\ \A q \in Procs \ {p} : at'[q] = at[q] /\ m'[q] = m[q]
  BY DEF Goto, Collect, Ind, TypeOK
<1>2. ASSUME NEW q \in Procs, changes = began[q] PROVE Fresh(at'[q], m'[q], spec[q])
  BY <1>1, <1>2 DEF FreshInv
<1>3. ASSUME NEW q \in Procs, changes' = began'[q] PROVE Fresh(at[q], m[q], spec[q])'
  BY <1>2, <1>3 DEF Fresh, On, Porcelain
<1> QED
  BY <1>1, <1>3 DEF FreshInv, OthersStay

\* A read that is right about its check.
LEMMA ReadDecides ==
  ASSUME Ind, FreshInv, NEW p \in Procs, NEW here \in Reads,
         NEW next \in Reads \cup Writes, NEW codes \in {Local, Remote}, NEW check, NEW c,
         Read(p, here, next, codes, check, c),
         changes = began[p] /\ check => Fresh(next, c, spec[p]),
         changes = began[p] /\ here # "endpoints" =>
           (Attachable(spec[p], m[p].session) => check)
  PROVE  FreshInv' /\ Decides(p) /\ OthersStay(p)
<1>1. CASE check /\ Goto(p, next) /\ Collect(p, c) /\ UNCHANGED <<envVars, file, spec, began, out>>
  <2>1. FreshInv' /\ at'[p] = next /\ OthersStay(p)
    BY <1>1, FreshMove DEF envVars
  <2>2. next # "exit0" /\ next # "exit2"
    BY DEF Reads, Writes
  <2> QED
    BY <2>1, <2>2 DEF Decides, Leaves
<1>2. CASE ~check /\ Exit(p, "exit2")
  <2>1. FreshInv' /\ at'[p] = "exit2" /\ OthersStay(p)
    BY <1>2, FreshMove, NothingFresh DEF Exit, envVars, Exits
  <2>2. at[p] = here
    BY DEF Read
  <2> QED
    BY <1>2, <2>1, <2>2 DEF Decides, Leaves
<1>3. ASSUME Faulty, NEW code \in codes, Exit(p, code)
      PROVE  FreshInv' /\ Decides(p) /\ OthersStay(p)
  <2>1. code \in Exits /\ code # "exit0" /\ Faulty # FALSE
    BY <1>3 DEF Local, Remote, Exits
  <2>2. FreshInv' /\ at'[p] = code /\ OthersStay(p)
    BY <1>3, <2>1, FreshMove, NothingFresh DEF Exit, envVars
  <2> QED
    BY <2>1, <2>2 DEF Decides, Leaves
<1> QED
  BY <1>1, <1>2, <1>3 DEF Read

\* What an attach at a label knows.
LEMMA Knows ==
  ASSUME Ind, FreshInv, NEW p \in Procs, at[p] \in Reads \cup Writes
  PROVE  /\ m[p] \in Manifests /\ Established(at[p], m[p], spec[p])
         /\ changes = began[p] => Fresh(at[p], m[p], spec[p])
         /\ world \in Worlds /\ spec[p] \in SpecFiles
BY Holding DEF FreshInv, Collects, Ind, TypeOK

LEMMA EndpointsDecides ==
  ASSUME Ind, FreshInv, NEW p \in Procs, ResolveEndpoints(p)
  PROVE  FreshInv' /\ Decides(p) /\ OthersStay(p)
<1>1. PICK e \in Endpoints, viaFile \in BOOLEAN :
        Read(p, "endpoints", "session", Remote, world.catalog # {}, Located(p, e, viaFile))
  BY DEF ResolveEndpoints
<1>2. m[p] \in Manifests
  BY <1>1, Knows DEF Read, Reads
<1>3. Fresh("session", Located(p, e, viaFile), spec[p])
  BY <1>2 DEF Fresh, Located, Manifests, After, Reads, Writes
<1> QED
  BY <1>1, <1>3, ReadDecides DEF Reads

LEMMA SessionDecides ==
  ASSUME Ind, FreshInv, NEW p \in Procs, ReadSession(p)
  PROVE  FreshInv' /\ Decides(p) /\ OthersStay(p)
<1> DEFINE s == world.session[m[p].session]
           c == [m[p] EXCEPT !.branch = s.branch, !.model = s.model]
           check == s.live /\ s.model \in m[p].catalog /\ s.model = spec[p].model
<1>1. Read(p, "session", "settings", Remote, check, c) /\ at[p] = "session"
  BY DEF ReadSession, Read
<1>2. m[p] \in Manifests /\ (changes = began[p] => m[p].catalog = world.catalog)
  BY <1>1, Knows DEF Reads, Fresh
<1>3. /\ c.session = m[p].session /\ c.model = s.model /\ c.branch = s.branch
      /\ c.catalog = m[p].catalog
  BY <1>2 DEF Manifests
<1>4. changes = began[p] /\ check => Fresh("settings", c, spec[p])
  <2> HIDE DEF c
  <2> QED
    BY <1>2, <1>3 DEF Fresh, After, Reads, Writes
<1>5. changes = began[p] => (Attachable(spec[p], m[p].session) => check)
  BY <1>2 DEF Attachable
<1> QED
  <2> HIDE DEF c, check
  <2> QED
    BY <1>1, <1>4, <1>5, ReadDecides DEF Reads

LEMMA SettingsDecides ==
  ASSUME Ind, FreshInv, NEW p \in Procs, ReadSettings(p)
  PROVE  FreshInv' /\ Decides(p) /\ OthersStay(p)
<1> DEFINE s == world.settings[m[p].session]
           c == [m[p] EXCEPT !.effort = s.effort]
           check == s.model = m[p].model /\ s.effort = spec[p].effort
<1>1. Read(p, "settings", "worktrees", Remote, check, c) /\ at[p] = "settings"
  BY DEF ReadSettings, Read
<1>2. /\ m[p] \in Manifests /\ m[p].model = spec[p].model
      /\ changes = began[p] => Fresh("settings", m[p], spec[p])
  BY <1>1, Knows DEF Reads, Established, After
<1>3. /\ c.session = m[p].session /\ c.model = m[p].model /\ c.branch = m[p].branch
      /\ c.catalog = m[p].catalog
  BY <1>2 DEF Manifests
<1>4. changes = began[p] /\ check => Fresh("worktrees", c, spec[p])
  <2> HIDE DEF c
  <2> QED
    BY <1>2, <1>3 DEF Fresh, After, Reads, Writes
<1>5. changes = began[p] => (Attachable(spec[p], m[p].session) => check)
  BY <1>2 DEF Attachable
<1> QED
  <2> HIDE DEF c, check
  <2> QED
    BY <1>1, <1>4, <1>5, ReadDecides DEF Reads

LEMMA WorktreesDecides ==
  ASSUME Ind, FreshInv, NEW p \in Procs, ReadWorktrees(p)
  PROVE  FreshInv' /\ Decides(p) /\ OthersStay(p)
<1> DEFINE t == world.trees["workspace"]
           c == [m[p] EXCEPT !.head = t.head]
           check == /\ On(m[p].branch) = {"workspace"} /\ t.head = spec[p].baseline
                    /\ spec[p].branch = m[p].branch
<1>1. Read(p, "worktrees", "root", Local, check, c) /\ at[p] = "worktrees"
  BY DEF ReadWorktrees, Read
<1>2. /\ m[p] \in Manifests
      /\ changes = began[p] => Fresh("worktrees", m[p], spec[p])
  BY <1>1, Knows DEF Reads
<1>3. /\ c.session = m[p].session /\ c.model = m[p].model /\ c.branch = m[p].branch
      /\ c.catalog = m[p].catalog
  BY <1>2 DEF Manifests
<1>4. changes = began[p] /\ check => Fresh("root", c, spec[p])
  <2> HIDE DEF c
  <2> QED
    BY <1>2, <1>3 DEF Fresh, After, Reads, Writes
<1>5. changes = began[p] => (Attachable(spec[p], m[p].session) => check)
  <2> SUFFICES ASSUME changes = began[p], Attachable(spec[p], m[p].session) PROVE check
    OBVIOUS
  <2>1. m[p].branch = spec[p].branch
    BY <1>2 DEF Attachable, Fresh, After, Reads, Writes
  <2>2. On(spec[p].branch) = {"workspace"}
    BY DEF Attachable, On, Places
  <2> QED
    BY <2>1, <2>2 DEF Attachable
<1> QED
  <2> HIDE DEF c, check
  <2> QED
    BY <1>1, <1>4, <1>5, ReadDecides DEF Reads

LEMMA RootDecides ==
  ASSUME Ind, FreshInv, NEW p \in Procs, CheckRoot(p)
  PROVE  FreshInv' /\ Decides(p) /\ OthersStay(p)
<1>1. Read(p, "root", "status", Local, world.rootClean, m[p]) /\ at[p] = "root"
  BY DEF CheckRoot, Read
<1>2. changes = began[p] => Fresh("root", m[p], spec[p])
  BY <1>1, Knows DEF Reads
<1>3. changes = began[p] /\ world.rootClean => Fresh("status", m[p], spec[p])
  BY <1>2 DEF Fresh, After, Reads, Writes
<1> QED
  BY <1>1, <1>3, ReadDecides DEF Reads, Attachable

LEMMA StatusDecides ==
  ASSUME Ind, FreshInv, NEW p \in Procs, CheckStatus(p)
  PROVE  FreshInv' /\ Decides(p) /\ OthersStay(p)
<1> DEFINE s == Porcelain(spec[p].run)
           c == [m[p] EXCEPT !.clean = (s = {}), !.porcelain = s]
           check == spec[p].policy = "require_clean" => s = {}
<1>1. Read(p, "status", "lease", Local, check, c) /\ at[p] = "status"
  BY DEF CheckStatus, Read
<1>2. /\ m[p] \in Manifests
      /\ changes = began[p] => Fresh("status", m[p], spec[p])
  BY <1>1, Knows DEF Reads
<1>3. /\ c.session = m[p].session /\ c.model = m[p].model /\ c.branch = m[p].branch
      /\ c.catalog = m[p].catalog
  BY <1>2 DEF Manifests
<1>4. changes = began[p] /\ check => Fresh("lease", c, spec[p])
  <2> HIDE DEF c
  <2> QED
    BY <1>2, <1>3 DEF Fresh, After, Reads, Writes
<1>5. Attachable(spec[p], m[p].session) => check
  BY DEF Attachable, Porcelain
<1> QED
  <2> HIDE DEF c, check
  <2> QED
    BY <1>1, <1>4, <1>5, ReadDecides DEF Reads

LEMMA LeaseDecides ==
  ASSUME Ind, FreshInv, NEW p \in Procs, InspectLease(p)
  PROVE  FreshInv' /\ Decides(p) /\ OthersStay(p)
<1> DEFINE l == world.leases[spec[p].run]
           c == [m[p] EXCEPT !.lease = l]
           check == l \in {"FREE", "OWNED"}
<1>1. Read(p, "lease", "stat", Local, check, c) /\ at[p] = "lease"
  BY DEF InspectLease, Read
<1>2. /\ m[p] \in Manifests
      /\ changes = began[p] => Fresh("lease", m[p], spec[p])
  BY <1>1, Knows DEF Reads
<1>3. /\ c.session = m[p].session /\ c.model = m[p].model /\ c.branch = m[p].branch
      /\ c.catalog = m[p].catalog
  BY <1>2 DEF Manifests
<1>4. changes = began[p] /\ check => Fresh("stat", c, spec[p])
  <2> HIDE DEF c
  <2> QED
    BY <1>2, <1>3 DEF Fresh, After, Reads, Writes
<1>5. Attachable(spec[p], m[p].session) => check
  BY DEF Attachable
<1> QED
  <2> HIDE DEF c, check
  <2> QED
    BY <1>1, <1>4, <1>5, ReadDecides DEF Reads, Writes

\* From one write to the next everything stays fresh; the readback is a success.
LEMMA WritesDecide ==
  ASSUME Ind, FreshInv, NEW p \in Procs,
         Stat(p) \/ Compare(p) \/ Rename(p) \/ Readback(p)
  PROVE  FreshInv' /\ Decides(p) /\ OthersStay(p)
<1>1. /\ at[p] \in Writes /\ at[p] \notin Reads
      /\ \/ \E label \in Writes \cup {"exit0"} : Goto(p, label) /\ Collect(p, m[p])
         \/ Goto(p, "exit2") /\ Collect(p, NoManifest)
      /\ UNCHANGED <<world, changes, spec, began>>
  BY DEF Stat, Compare, Rename, Readback, Exit, Goto, Collect, envVars, Reads, Writes, Ind, TypeOK
<1>2. Established(at[p], m[p], spec[p]) /\ (changes = began[p] => Fresh(at[p], m[p], spec[p]))
      /\ world \in Worlds
  BY <1>1, Knows
<1>3. changes = began[p] =>
        /\ Attachable(spec[p], m[p].session)
        /\ \A label \in Writes \cup {"exit0"} : Fresh(label, m[p], spec[p])
  <2> SUFFICES ASSUME changes = began[p]
               PROVE  /\ Attachable(spec[p], m[p].session)
                      /\ \A label \in Writes \cup {"exit0"} : Fresh(label, m[p], spec[p])
    OBVIOUS
  <2>1. \A label \in Writes \cup {"exit0"} : Fresh(label, m[p], spec[p])
    BY <1>1, <1>2 DEF Fresh, After, Reads, Writes
  <2>2. /\ m[p].model \in m[p].catalog /\ m[p].model = spec[p].model
        /\ m[p].branch = spec[p].branch
    BY <1>1, <1>2 DEF Established, After, Reads, Writes
  <2>3. Fresh("stat", m[p], spec[p])
    BY <2>1 DEF Writes
  <2>4. \A t \in Places : world.trees[t].branch = spec[p].branch <=> t = "workspace"
    BY <2>3 DEF Fresh, After, Writes, On, Places
  <2>5. Attachable(spec[p], m[p].session)
    BY <2>2, <2>3, <2>4 DEF Attachable, Fresh, After, Writes, Porcelain
  <2> QED
    BY <2>1, <2>5
<1>4. FreshInv' /\ OthersStay(p)
  BY <1>1, <1>3, FreshMove, NothingFresh DEF Exits
<1> QED
  BY <1>1, <1>3, <1>4 DEF Decides

\* A step of one attach, a crash of one, or a change of the world.
LEMMA FreshStep ==
  ASSUME Ind, FreshInv, Step \/ \E p \in Procs : Crash(p)
  PROVE  FreshInv' /\ (\A p \in Procs : Decides(p))
<1>1. ASSUME at' = at PROVE \A p \in Procs : Decides(p)
  BY <1>1 DEF Decides, Leaves, Exits
<1>2. CASE UNCHANGED vars
  <2>1. UNCHANGED <<world, changes, at, m, spec, began>>
    BY <1>2 DEF vars, envVars, procVars
  <2> QED
    BY <1>1, <2>1 DEF FreshInv, Fresh, On, Porcelain
<1>3. CASE WorldChanges
  <2>1. changes' = changes + 1 /\ UNCHANGED <<at, m, spec, began>>
    BY <1>3 DEF WorldChanges, procVars
  <2>2. changes \in Nat /\ \A p \in Procs : began[p] \in Nat
    BY AttachSwitches DEF Ind, TypeOK
  <2>3. \A p \in Procs : began'[p] <= changes' /\ changes' # began'[p]
    BY <2>1, <2>2 DEF FreshInv
  <2> QED
    BY <1>1, <2>1, <2>3 DEF FreshInv
<1>4. ASSUME NEW p \in Procs, FreshInv', Decides(p), OthersStay(p)
      PROVE  FreshInv' /\ (\A q \in Procs : Decides(q))
  BY <1>4 DEF Decides, Leaves, OthersStay, Exits
<1>5. ASSUME NEW p \in Procs, Begin(p)
      PROVE  FreshInv' /\ Decides(p) /\ OthersStay(p)
  <2>1. /\ at'[p] = "endpoints" /\ OthersStay(p) /\ began'[p] = changes
        /\ UNCHANGED <<world, changes>>
        /\ \A q \in Procs \ {p} : m'[q] = m[q] /\ spec'[q] = spec[q] /\ began'[q] = began[q]
    BY <1>5 DEF Begin, Goto, Collect, OthersStay, Ind, TypeOK, envVars
  <2>2. changes \in Nat
    BY AttachSwitches DEF Ind, TypeOK
  <2>3. Fresh("endpoints", m'[p], spec'[p])
    BY NothingFresh
  <2>4. ASSUME NEW q \in Procs
        PROVE  began'[q] <= changes /\ (changes = began'[q] => Fresh(at'[q], m'[q], spec'[q]))
    BY <2>1, <2>2, <2>3 DEF FreshInv, OthersStay
  <2>5. FreshInv'
    BY <2>1, <2>4 DEF FreshInv, Fresh, On, Porcelain
  <2>6. Decides(p)
    BY <2>1 DEF Decides, Leaves
  <2> QED
    BY <2>1, <2>5, <2>6
<1>6. ASSUME NEW p \in Procs, Unresolved(p)
      PROVE  FreshInv' /\ Decides(p) /\ OthersStay(p)
  <2>1. PICK code \in Remote : Exit(p, code) /\ at[p] = "endpoints"
    BY <1>6 DEF Unresolved
  <2>2. code \in Exits /\ code # "exit0"
    BY DEF Remote, Exits
  <2>3. FreshInv' /\ at'[p] = code /\ OthersStay(p)
    BY <2>1, <2>2, FreshMove, NothingFresh DEF Exit, envVars
  <2> QED
    BY <2>1, <2>2, <2>3 DEF Decides, Leaves
<1>7. ASSUME NEW p \in Procs, Crash(p)
      PROVE  FreshInv' /\ Decides(p) /\ OthersStay(p)
  <2>1. FreshInv' /\ at'[p] = "down" /\ OthersStay(p)
    BY <1>7, FreshMove, NothingFresh DEF Crash, Exit, envVars, Exits
  <2> QED
    BY <2>1 DEF Decides, Leaves
<1>8. ASSUME NEW p \in Procs, Begin(p) \/ ResolveEndpoints(p) \/ Unresolved(p) \/ Rest(p)
      PROVE  FreshInv' /\ Decides(p) /\ OthersStay(p)
  BY <1>5, <1>6, <1>8, EndpointsDecides, SessionDecides, SettingsDecides, WorktreesDecides,
     RootDecides, StatusDecides, LeaseDecides, WritesDecide DEF Rest
<1> QED
  BY <1>2, <1>3, <1>4, <1>8, <1>7 DEF Step

LEMMA FreshInit == Init => FreshInv
<1> SUFFICES ASSUME Init PROVE FreshInv
  OBVIOUS
<1>1. \A p \in Procs : at[p] = "down" /\ began[p] = 0 /\ changes = 0
  BY DEF Init
<1> QED
  BY <1>1, NothingFresh DEF FreshInv, Exits

\* AttachDecides: when nothing fails, and nothing changes while it runs, attach succeeds or
\* is refused exactly as everything that it looks at holds at once, or not (RunAttach).
THEOREM AttachIsExact ==
  ASSUME Faulty = FALSE PROVE ControlSpec => AttachDecides
<1> DEFINE Exact == \A p \in Procs : changes = began[p] =>
             /\ Leaves(p, "exit0") => Attachable(spec[p], m[p].session)
             /\ Leaves(p, "exit2") /\ at[p] \in Reads \ {"endpoints"} =>
                  ~Attachable(spec[p], m[p].session)
<1>1. ControlInit => FreshInv
  BY FreshInit DEF ControlInit
<1>2. ControlInv /\ FreshInv /\ [ControlNext]_allVars => FreshInv' /\ [Exact]_vars
  BY ControlInvStep, FreshStep DEF ControlInv, Decides
<1> QED
  BY <1>1, <1>2, ControlInvAlways, PTL DEF ControlSpec, AttachDecides

\* A step of the attaches that race, in the terms of the commands.
LEMMA RaceStep ==
  ASSUME [Next]_vars
  PROVE  Step \/ \E p \in Procs : Crash(p)
<1>1. CASE UNCHANGED vars \/ WorldChanges
  BY <1>1 DEF Step
<1>2. ASSUME NEW p \in Procs, Attaching(p) PROVE Step
  BY <1>2 DEF Attaching, Step, Rest
<1> QED
  BY <1>1, <1>2 DEF Next

LEMMA FreshAlways == Spec => []FreshInv
<1>1. Ind /\ FreshInv /\ [Next]_vars => FreshInv'
  BY RaceStep, FreshStep
<1> QED
  BY <1>1, FreshInit, IndAlways, PTL DEF Spec

\* Whatever fails, crashes or races: an attach that succeeds, with nothing changed since it
\* began, has found everything that it must find, all at once; a read that failed is never
\* taken for one that passed (RunAttach).
THEOREM SuccessIsJustified ==
  Spec => [][\A p \in Procs : changes = began[p] /\ Leaves(p, "exit0") =>
                              Attachable(spec[p], m[p].session)]_vars
<1> DEFINE Justified == \A p \in Procs : changes = began[p] /\ Leaves(p, "exit0") =>
                                         Attachable(spec[p], m[p].session)
<1>1. Ind /\ FreshInv /\ [Next]_vars => [Justified]_vars
  BY RaceStep, FreshStep DEF Decides
<1> QED
  BY <1>1, IndAlways, FreshAlways, PTL DEF Spec

\* AttachDecides: also attaches that race for one manifest file are decided exactly, each
\* by what it looks at, when nothing fails and nothing changes (RunAttach).
THEOREM RacingAttachesAreExact ==
  ASSUME Faulty = FALSE PROVE Spec => AttachDecides
<1> DEFINE Exact == \A p \in Procs : changes = began[p] =>
             /\ Leaves(p, "exit0") => Attachable(spec[p], m[p].session)
             /\ Leaves(p, "exit2") /\ at[p] \in Reads \ {"endpoints"} =>
                  ~Attachable(spec[p], m[p].session)
<1>1. Ind /\ FreshInv /\ [Next]_vars => [Exact]_vars
  BY RaceStep, FreshStep DEF Decides
<1> QED
  BY <1>1, IndAlways, FreshAlways, PTL DEF Spec, AttachDecides

----------------------------------------------------------------------------
(* The run's own lease. *)

\* The lease of the run itself is never among the edits that are recorded.
NotAnEdit ==
  /\ \A p \in Procs : at[p] \in After("status") => m[p].run \notin m[p].porcelain
  /\ file \in Manifests => file.run \notin file.porcelain

\* An attach that is refused at the comparison has seen other bindings.
OwnLeaseAside(p) ==
  /\ Leaves(p, "exit2") /\ at[p] = "compare"
  /\ file \in Manifests /\ file.sha = m[p].sha /\ file.session = m[p].session
  /\ file.endpoints = m[p].endpoints
  => file.porcelain \ {m[p].run} # m[p].porcelain \ {m[p].run}

\* A step of attach p that leaves the file alone.
LEMMA NotAnEditMove ==
  ASSUME Ind, NotAnEdit, NEW p \in Procs, NEW label, NEW c, Goto(p, label), Collect(p, c),
         file' = file, label \in After("status") => c.run \notin c.porcelain
  PROVE  NotAnEdit'
<1>1. at'[p] = label /\ m'[p] = c /\ \A q \in Procs \ {p} : at'[q] = at[q] /\ m'[q] = m[q]
  BY DEF Goto, Collect, Ind, TypeOK
<1> QED
  BY <1>1 DEF NotAnEdit

LEMMA NotAnEditStep ==
  ASSUME Ind, NotAnEdit, Step
  PROVE  NotAnEdit'
<1>1. ASSUME NEW p \in Procs, NEW label \in Exits \cup Reads, label # "lease",
             NEW c, Goto(p, label), Collect(p, c), file' = file
      PROVE  NotAnEdit'
  <2>1. label \notin After("status")
    BY <1>1 DEF After, Exits, Reads, Writes
  <2> QED
    BY <1>1, <2>1, NotAnEditMove
<1>2. CASE UNCHANGED vars
  BY <1>2 DEF vars, procVars, NotAnEdit
<1>3. CASE WorldChanges
  BY <1>3 DEF WorldChanges, procVars, NotAnEdit
<1>4. ASSUME NEW p \in Procs, Begin(p) PROVE NotAnEdit'
  <2>1. \E c : Collect(p, c)
    BY <1>4 DEF Begin
  <2> QED
    BY <1>1, <1>4, <2>1 DEF Begin, Reads
<1>5. ASSUME NEW p \in Procs, NEW code \in Exits, Exit(p, code) PROVE NotAnEdit'
  BY <1>1, <1>5 DEF Exit, Exits, Reads
<1>6. ASSUME NEW p \in Procs, NEW here, NEW next, NEW codes \in {Local, Remote}, NEW check, NEW c,
             Read(p, here, next, codes, check, c),
             next \in After("status") => c.run \notin c.porcelain
      PROVE  NotAnEdit'
  <2>1. CASE Goto(p, next) /\ Collect(p, c) /\ file' = file
    BY <1>6, <2>1, NotAnEditMove
  <2> QED
    BY <1>5, <1>6, <2>1 DEF Read, Local, Remote, Exits
<1>7. \A label \in {"session", "settings", "worktrees", "root", "status"} :
        label \notin After("status")
  BY DEF After, Writes
<1>8. ASSUME NEW p \in Procs, ResolveEndpoints(p) \/ ReadSession(p) \/ ReadSettings(p)
                              \/ ReadWorktrees(p) \/ CheckRoot(p)
      PROVE  NotAnEdit'
  BY <1>6, <1>7, <1>8
  DEF ResolveEndpoints, ReadSession, ReadSettings, ReadWorktrees, CheckRoot
<1>9. ASSUME NEW p \in Procs, CheckStatus(p) PROVE NotAnEdit'
  <2> DEFINE s == Porcelain(spec[p].run)
             c == [m[p] EXCEPT !.clean = (s = {}), !.porcelain = s]
  <2>1. at[p] = "status" /\ \E check : Read(p, "status", "lease", Local, check, c)
    BY <1>9 DEF CheckStatus, Read
  <2>2. m[p] \in Manifests /\ m[p].run = spec[p].run /\ spec[p].run \in Runs
    BY <2>1, Holding DEF Reads, Collects, SpecFiles
  <2>3. world.edits \subseteq Edits
    BY DEF Ind, TypeOK, Worlds
  <2>4. c.run \notin c.porcelain
    BY <2>2, <2>3, EditsAssumption DEF Manifests, Porcelain
  <2> HIDE DEF c
  <2> QED
    BY <1>6, <2>1, <2>4
<1>10. ASSUME NEW p \in Procs, at[p] \in {"lease"} \cup Writes PROVE at[p] \in After("status")
  BY <1>10 DEF After, Writes
<1>11. ASSUME NEW p \in Procs, InspectLease(p) PROVE NotAnEdit'
  <2> DEFINE c == [m[p] EXCEPT !.lease = world.leases[spec[p].run]]
  <2>1. at[p] = "lease" /\ \E check : Read(p, "lease", "stat", Local, check, c)
    BY <1>11 DEF InspectLease, Read
  <2>2. m[p] \in Manifests
    BY <2>1, Holding DEF Reads, Collects
  <2>3. c.run \notin c.porcelain
    BY <1>10, <2>1, <2>2 DEF NotAnEdit, Manifests
  <2> HIDE DEF c
  <2> QED
    BY <1>6, <2>1, <2>3
<1>12. ASSUME NEW p \in Procs, Stat(p) \/ Compare(p) \/ Rename(p) \/ Readback(p)
       PROVE  NotAnEdit'
  <2>1. at[p] \in Writes /\ m[p].run \notin m[p].porcelain
    BY <1>10, <1>12 DEF Stat, Compare, Rename, Readback, Writes, NotAnEdit
  <2>2. CASE Exit(p, "exit2")
    BY <1>5, <2>2 DEF Exits
  <2>3. ASSUME NEW label, Goto(p, label), m' = m, file' = file PROVE NotAnEdit'
    <3>1. Collect(p, m[p])
      BY <2>3 DEF Collect, Ind, TypeOK
    <3> QED
      BY <2>1, <2>3, <3>1, NotAnEditMove
  <2>4. CASE Rename(p) /\ file' = m[p] /\ Goto(p, "readback") /\ m' = m
    <3>1. \A q \in Procs : at'[q] \in After("status") => at[q] \in After("status")
      BY <1>10, <2>1, <2>4 DEF Goto, Ind, TypeOK
    <3> QED
      BY <2>1, <2>4, <3>1 DEF NotAnEdit
  <2> QED
    BY <1>12, <2>2, <2>3, <2>4 DEF Stat, Compare, Rename, Readback
<1> QED
  BY <1>2, <1>3, <1>4, <1>5, <1>8, <1>9, <1>11, <1>12 DEF Step, Unresolved, Remote, Exits, Rest

LEMMA OwnLeaseStep ==
  ASSUME Ind, NotAnEdit, Faulty = FALSE, Step, NEW p \in Procs
  PROVE  OwnLeaseAside(p)
<1> SUFFICES ASSUME Leaves(p, "exit2"), at[p] = "compare", file \in Manifests,
                    file.sha = m[p].sha, file.session = m[p].session,
                    file.endpoints = m[p].endpoints,
                    file.porcelain \ {m[p].run} = m[p].porcelain \ {m[p].run}
             PROVE  FALSE
  BY DEF OwnLeaseAside
<1>1. Compare(p)
  <2>1. at' # at /\ at'[p] # at[p]
    BY DEF Leaves, Exits
  <2>2. ASSUME NEW q \in Procs, OthersStay(q) PROVE q = p
    BY <2>1, <2>2 DEF OthersStay
  <2>3. PICK q \in Procs : Begin(q) \/ ResolveEndpoints(q) \/ Unresolved(q) \/ Rest(q)
    BY <2>1 DEF Step, vars, procVars, WorldChanges
  <2>4. OthersStay(q)
    BY <2>3, RestKeepsInd
    DEF Begin, ResolveEndpoints, Unresolved, Read, Exit, Goto, OthersStay, Ind, TypeOK
  <2> QED
    BY <2>2, <2>3, <2>4
    DEF Begin, ResolveEndpoints, Unresolved, Rest, ReadSession, ReadSettings, ReadWorktrees,
        CheckRoot, CheckStatus, InspectLease, Read, Stat, Rename, Readback, Exits
<1>2. ~Bound(file, m[p])
  <2>1. at'[p] = "exit2"
    BY DEF Leaves
  <2> QED
    BY <1>1, <2>1 DEF Compare, Goto, Ind, TypeOK
<1>3. PICK s \in Specs : WrittenFor(file, s)
  BY DEF Ind, AttachInv
<1>4. /\ Collects(m[p], spec[p]) /\ Established("compare", m[p], spec[p])
      /\ spec[p] \in Specs
  BY Holding DEF Writes
<1>5. s = spec[p]
  BY <1>3, <1>4, SpecsAssumption DEF WrittenFor, Collects
<1>6. /\ m[p].model = s.model /\ m[p].effort = s.effort /\ m[p].head = s.baseline
      /\ m[p].branch = s.branch
      /\ m[p].clean <=> m[p].porcelain = {}
  BY <1>4, <1>5 DEF Established, After, Writes
<1>7. file.porcelain = m[p].porcelain /\ file.run = m[p].run
  <2>1. file.run = m[p].run
    BY <1>3, <1>4, <1>5 DEF WrittenFor, Collects
  <2>2. m[p].run \notin m[p].porcelain /\ m[p].run \notin file.porcelain
    BY <2>1 DEF NotAnEdit, After, Writes
  <2> QED
    BY <2>1, <2>2
<1>8. (file.clean <=> m[p].clean) /\ file.clean \in BOOLEAN /\ m[p].clean \in BOOLEAN
  BY <1>3, <1>4, <1>6, <1>7 DEF WrittenFor, Accepts, Collects, Manifests
<1>9. file.clean = m[p].clean /\ file.head = file.baseline
  BY <1>3, <1>8 DEF WrittenFor, Accepts
<1>10. Matches(file, m[p]) /\ Accepts(file)
  BY <1>3, <1>4, <1>5, <1>6, <1>7, <1>9 DEF WrittenFor, Collects, Matches
<1> QED
  BY <1>2, <1>10 DEF Bound, Readable

\* OwnLeaseDoesNotMatter: when nothing fails, attaching again for the same file and session
\* is refused only for edits and leases of other runs (filterExactLeaseArtifact).
THEOREM OwnLeaseIsIgnored ==
  ASSUME Faulty = FALSE PROVE ControlSpec => OwnLeaseDoesNotMatter
<1> DEFINE Aside == \A p \in Procs :
             /\ Leaves(p, "exit2") /\ at[p] = "compare"
             /\ file \in Manifests /\ file.sha = m[p].sha /\ file.session = m[p].session
             /\ file.endpoints = m[p].endpoints
             => file.porcelain \ {m[p].run} # m[p].porcelain \ {m[p].run}
<1>1. ControlInit => NotAnEdit
  BY AttachNulls DEF ControlInit, Init, NotAnEdit, After, Writes
<1>2. ControlInv /\ NotAnEdit /\ [ControlNext]_allVars => NotAnEdit' /\ [Aside]_vars
  BY ControlInvStep, NotAnEditStep, OwnLeaseStep DEF ControlInv, OwnLeaseAside
<1> QED
  BY <1>1, <1>2, ControlInvAlways, PTL DEF ControlSpec, OwnLeaseDoesNotMatter

----------------------------------------------------------------------------
(* What discovery decides when nothing changes. *)

\* The daemon that a run file leads to.
Daemon(f) ==
  [host |-> machine.serves[machine.files[f].port],
   pid |-> machine.files[f].pid, port |-> machine.files[f].port]

\* The run files that have been looked at before this one.
Before(f) == IF f = "main" THEN {"dev"} ELSE {}

\* Which source decides.
ByUrl(input) == input.flag # "unset" \/ input.env # "unset"
Url(input) == IF input.flag # "unset" THEN input.flag ELSE input.env

\* The files before this one lead to what was found.
FoundBefore(f, found) ==
  /\ found = {Daemon(g) : g \in Before(f) \cap Exist}
  /\ \A g \in Before(f) \cap Exist : Leads(g)

\* A resolution on its way.
OnTheWay(input) ==
  /\ look.at \in {"stat", "read", "alive"} \/ (look.at = "probe" /\ look.source # "url") =>
       /\ ~ByUrl(input) /\ FoundBefore(look.source, look.found)
       /\ look.source = "env" <=> input.runFile
       /\ look.source \in RunFiles
  /\ look.at = "stat" => look.source \in Candidates
  /\ look.at \in {"read", "alive", "probe"} /\ look.source \in Candidates => look.source \in Exist
  /\ look.at = "alive" \/ (look.at = "probe" /\ look.source # "url") =>
       /\ machine.files[look.source] \in Entries
       /\ look.pid = machine.files[look.source].pid /\ look.port = machine.files[look.source].port
  /\ look.at = "probe" /\ look.source # "url" => look.pid \in machine.alive
  /\ look.at = "probe" /\ look.source = "url" =>
       ByUrl(input) /\ look.port = Url(input) /\ look.found = {}

Over == look'.at \in {"found", "failed"}

\* What a step of discovery decides, or leaves to do.
Decided(input) ==
  /\ ~Over => OnTheWay(input)'
  /\ Over => IF Expected(input) = "refused" THEN Outcome # "found"
             ELSE Outcome = Expected(input)

LEMMA OneOrTwo ==
  ASSUME NEW a, NEW b
  PROVE  /\ Cardinality({}) = 0 /\ Cardinality({a}) = 1
         /\ Cardinality({a, b}) = IF a = b THEN 1 ELSE 2
<1>1. Cardinality({}) = 0 /\ Cardinality({a}) = 1 /\ IsFiniteSet({a})
  BY FS_EmptySet, FS_Singleton
<1>2. CASE a = b
  <2>1. {a, b} = {a}
    BY <1>2
  <2> QED
    BY <1>1, <1>2, <2>1
<1>3. CASE a # b
  <2>1. {a, b} = {a} \cup {b} /\ b \notin {a}
    BY <1>3
  <2>2. Cardinality({a} \cup {b}) = Cardinality({a}) + 1
    BY <1>1, <2>1, FS_AddElement
  <2> QED
    BY <1>1, <1>3, <2>1, <2>2
<1> QED
  BY <1>1, <1>2, <1>3

\* By a URL.
LEMMA ChooseDecides ==
  ASSUME LookOK, NEW input \in Inputs, Choose(input), machine' = machine
  PROVE  Decided(input)
<1>1. ASSUME NEW url \in Ports \cup {"invalid"}, LookAtUrl(url), url = Url(input), ByUrl(input)
      PROVE  Decided(input)
  <2>1. CASE url = "invalid"
    <3>1. look'.at = "failed" /\ look'.code = "exit2"
      BY <1>1, <2>1 DEF LookAtUrl, Failed, NotLooking
    <3>2. Expected(input) = "exit2"
      BY <1>1, <2>1 DEF Expected, ByUrl, Url, AtUrl
    <3> QED
      BY <3>1, <3>2 DEF Decided, Over, Outcome
  <2>2. CASE url # "invalid"
    <3>1. look' = [NotLooking EXCEPT !.at = "probe", !.port = url]
      BY <1>1, <2>2 DEF LookAtUrl
    <3>2. look'.at = "probe" /\ look'.source = "url" /\ look'.port = url /\ look'.found = {}
      BY <3>1 DEF NotLooking
    <3>3. OnTheWay(input)'
      BY <1>1, <3>2 DEF OnTheWay, Candidates, ByUrl, Url
    <3> QED
      BY <3>2, <3>3 DEF Decided, Over
  <2> QED
    BY <2>1, <2>2
<1>2. CASE ByUrl(input)
  <2>1. Url(input) \in Ports \cup {"invalid"} /\ LookAtUrl(Url(input))
    BY <1>2 DEF Choose, ByUrl, Url, Inputs
  <2> QED
    BY <1>1, <1>2, <2>1
<1>3. CASE ~ByUrl(input)
  <2>1. look' = IF input.runFile THEN [NotLooking EXCEPT !.at = "read", !.source = "env"]
                ELSE [NotLooking EXCEPT !.at = "stat", !.source = "dev"]
    BY <1>3 DEF Choose, ByUrl
  <2>2. /\ look'.found = {} /\ look'.at \in {"read", "stat"} /\ input.runFile \in BOOLEAN
        /\ look'.source = IF input.runFile THEN "env" ELSE "dev"
        /\ look'.at = IF input.runFile THEN "read" ELSE "stat"
    BY <2>1 DEF NotLooking, Inputs
  <2>3. Before(look'.source) = {}
    BY <2>2 DEF Before
  <2>4. FoundBefore(look.source, look.found)'
    BY <2>2, <2>3 DEF FoundBefore, Before
  <2>5. OnTheWay(input)'
    BY <1>3, <2>2, <2>4 DEF OnTheWay, Candidates, RunFiles, ByUrl
  <2> QED
    BY <2>2, <2>5 DEF Decided, Over
<1> QED
  BY <1>2, <1>3

LEMMA ExpectedIs ==
  ASSUME NEW input \in Inputs
  PROVE  Expected(input) = IF ByUrl(input) THEN AtUrl(Url(input))
                           ELSE IF input.runFile THEN FromRunFile ELSE FromCandidates
BY DEF Expected, ByUrl, Url

LEMMA FailsDecides ==
  ASSUME NEW input, NEW code, Fails(look.source, code),
         Expected(input) = IF look.source \in Candidates THEN "refused" ELSE code
  PROVE  Decided(input)
<1>1. look'.at = "failed" /\ look'.code = IF look.source \in Candidates THEN "exit2" ELSE code
  BY DEF Fails, Failed, NotLooking
<1>2. Over /\ Outcome = IF look.source \in Candidates THEN "exit2" ELSE code
  BY <1>1 DEF Over, Outcome
<1> QED
  BY <1>2 DEF Decided

\* A candidate that exists and does not lead to a daemon decides.
LEMMA BadCandidate ==
  ASSUME NEW f \in Exist, ~Leads(f)
  PROVE  FromCandidates = "refused"
BY DEF FromCandidates

\* One daemon is one entry.
LEMMA SameDaemon ==
  ASSUME LookOK, NEW f \in RunFiles, NEW g \in RunFiles, Leads(f), Leads(g)
  PROVE  Daemon(f) = Daemon(g) <=> machine.files[f] = machine.files[g]
<1>1. machine.files[f] \in Entries /\ machine.files[g] \in Entries
  BY DEF LookOK, DiscoveryTypeOK, Machines, Leads
<1>2. ASSUME Daemon(f) = Daemon(g) PROVE machine.files[f] = machine.files[g]
  <2>1. /\ machine.files[f].pid = machine.files[g].pid
        /\ machine.files[f].port = machine.files[g].port
    BY <1>2 DEF Daemon
  <2> QED
    BY <1>1, <2>1 DEF Entries
<1> QED
  BY <1>2 DEF Daemon

LEMMA FoundDecides ==
  ASSUME NEW input, NEW source, NEW found, Found(source, found), Expected(input) = "found"
  PROVE  Decided(input)
BY DEF Found, NotLooking, Decided, Over, Outcome

LEMMA NoneDecides ==
  ASSUME NEW input, NEW code, Failed(code), Expected(input) = code
  PROVE  Decided(input)
BY DEF Failed, NotLooking, Decided, Over, Outcome

LEMMA ConcludeCases ==
  ASSUME NEW source, NEW found, Conclude(source, found)
  PROVE  /\ found = {} => Failed("exit3")
         /\ found # {} /\ Cardinality(found) = 1 => Found(source, found)
         /\ found # {} /\ Cardinality(found) = 2 => Failed("exit2")
<1>1. CASE found = {}
  <2>1. ~(Cardinality(found) > 1)
    BY <1>1, FS_EmptySet
  <2> QED
    BY <1>1, <2>1 DEF Conclude
<1>2. CASE found # {} /\ Cardinality(found) = 1
  <2>1. ~(Cardinality(found) > 1)
    BY <1>2
  <2> QED
    BY <1>2, <2>1 DEF Conclude
<1>3. CASE found # {} /\ Cardinality(found) = 2
  <2>1. Cardinality(found) > 1
    BY <1>3
  <2> QED
    BY <1>3, <2>1 DEF Conclude
<1> QED
  BY <1>1, <1>2, <1>3

\* When every candidate has been looked at, and leads to a daemon.
LEMMA ConcludeDecides ==
  ASSUME LookOK, NEW input, NEW source, NEW found, Conclude(source, found),
         \A f \in Exist : Leads(f), found = {Daemon(f) : f \in Exist},
         Expected(input) = FromCandidates
  PROVE  Decided(input)
<1> DEFINE entries == {machine.files[f] : f \in Exist}
<1>1. Exist \subseteq {"dev", "main"}
  BY DEF Exist, Candidates
<1>2. CASE Exist = {}
  <2>1. found = {} /\ FromCandidates = "exit3"
    BY <1>2 DEF FromCandidates
  <2>2. Failed("exit3")
    BY <2>1, ConcludeCases
  <2> QED
    BY <2>1, <2>2, NoneDecides
<1>3. ASSUME NEW a \in Exist, NEW b \in Exist, Exist = {a, b}
      PROVE  Decided(input)
  <2>1. found = {Daemon(a), Daemon(b)} /\ entries = {machine.files[a], machine.files[b]}
    BY <1>3
  <2>2. Daemon(a) = Daemon(b) <=> machine.files[a] = machine.files[b]
    BY <1>1, SameDaemon DEF RunFiles
  <2>3. CASE machine.files[a] = machine.files[b]
    <3>1. Cardinality(found) = 1 /\ Cardinality(entries) = 1 /\ found # {}
      <4>1. Cardinality({Daemon(a), Daemon(b)}) = 1
        BY <2>2, <2>3, OneOrTwo
      <4>2. Cardinality({machine.files[a], machine.files[b]}) = 1
        BY <2>3, OneOrTwo
      <4> HIDE DEF entries
      <4> QED
        BY <2>1, <4>1, <4>2
    <3>2. Found(source, found)
      BY <3>1, ConcludeCases
    <3>3. FromCandidates = "found"
      BY <1>3, <3>1 DEF FromCandidates
    <3> QED
      BY <3>2, <3>3, FoundDecides
  <2>4. CASE machine.files[a] # machine.files[b]
    <3>1. Cardinality(found) = 2 /\ Cardinality(entries) = 2 /\ found # {}
      <4>1. Cardinality({Daemon(a), Daemon(b)}) = 2
        BY <2>2, <2>4, OneOrTwo
      <4>2. Cardinality({machine.files[a], machine.files[b]}) = 2
        BY <2>4, OneOrTwo
      <4> HIDE DEF entries
      <4> QED
        BY <2>1, <4>1, <4>2
    <3>2. Failed("exit2")
      BY <3>1, ConcludeCases
    <3>3. FromCandidates = "exit2"
      BY <1>3, <3>1 DEF FromCandidates
    <3> QED
      BY <3>2, <3>3, NoneDecides
  <2> QED
    BY <2>3, <2>4
<1>4. \/ Exist = {} \/ Exist = {"dev", "dev"} \/ Exist = {"main", "main"}
      \/ Exist = {"dev", "main"}
  BY <1>1
<1> QED
  BY <1>2, <1>3, <1>4

\* One candidate leads to a daemon, or is absent.
LEMMA AfterDecides ==
  ASSUME LookOK, NEW input \in Inputs, NEW found, AfterCandidate(found), machine' = machine,
         look.source \in Candidates, ~ByUrl(input), ~input.runFile,
         found = {Daemon(f) : f \in (Before(look.source) \cup {look.source}) \cap Exist},
         \A f \in (Before(look.source) \cup {look.source}) \cap Exist : Leads(f)
  PROVE  Decided(input)
<1>1. CASE look.source = "dev"
  <2>1. look' = [NotLooking EXCEPT !.at = "stat", !.source = "main", !.found = found]
    BY <1>1 DEF AfterCandidate
  <2>2. look'.at = "stat" /\ look'.source = "main" /\ look'.found = found
    BY <2>1 DEF NotLooking
  <2>3. Before(look.source) \cup {look.source} = Before("main")
    BY <1>1 DEF Before
  <2>4. Exist' = Exist /\ (\A f : Leads(f)' <=> Leads(f)) /\ (\A f : Daemon(f)' = Daemon(f))
    BY DEF Exist, Leads, Daemon
  <2>5. FoundBefore("main", found)'
    BY <2>3, <2>4 DEF FoundBefore, Before
  <2>6. OnTheWay(input)'
    BY <2>2, <2>5 DEF OnTheWay, Candidates, RunFiles, ByUrl
  <2> QED
    BY <2>2, <2>6 DEF Decided, Over
<1>2. CASE look.source = "main"
  <2>1. Conclude(look.source, found)
    BY <1>2 DEF AfterCandidate
  <2>2. (Before(look.source) \cup {look.source}) \cap Exist = Exist
    BY <1>2 DEF Before, Exist, Candidates
  <2>3. Expected(input) = FromCandidates
    BY ExpectedIs
  <2> QED
    BY <2>1, <2>2, <2>3, ConcludeDecides
<1> QED
  BY <1>1, <1>2 DEF Candidates

LEMMA StatDecides ==
  ASSUME LookOK, NEW input \in Inputs, OnTheWay(input), StatCandidate, machine' = machine
  PROVE  Decided(input)
<1>1. /\ look.at = "stat" /\ look.source \in Candidates /\ ~ByUrl(input) /\ ~input.runFile
      /\ FoundBefore(look.source, look.found)
  BY DEF StatCandidate, OnTheWay, Candidates, Inputs
<1>2. CASE machine.files[look.source] = Absent
  <2>1. AfterCandidate(look.found) /\ look.source \notin Exist
    BY <1>2 DEF StatCandidate, Exist
  <2>2. (Before(look.source) \cup {look.source}) \cap Exist = Before(look.source) \cap Exist
    BY <2>1
  <2> QED
    BY <1>1, <2>1, <2>2, AfterDecides DEF FoundBefore
<1>3. CASE machine.files[look.source] # Absent
  <2>1. look' = [look EXCEPT !.at = "read"] /\ look \in Lookups
    BY <1>3 DEF StatCandidate, LookOK, DiscoveryTypeOK
  <2>2. look'.at = "read" /\ look'.source = look.source /\ look'.found = look.found
    BY <2>1 DEF Lookups
  <2>3. look.source \in Exist
    BY <1>1, <1>3 DEF Exist
  <2>4. OnTheWay(input)'
    BY <1>1, <2>2, <2>3
    DEF OnTheWay, Candidates, RunFiles, ByUrl, FoundBefore, Exist, Leads, Daemon
  <2> QED
    BY <2>2, <2>4 DEF Decided, Over
<1> QED
  BY <1>2, <1>3

LEMMA FileDecides ==
  ASSUME LookOK, NEW input \in Inputs, OnTheWay(input), ReadRunFile, machine' = machine
  PROVE  Decided(input)
<1> DEFINE f == machine.files[look.source]
<1>1. /\ look.at = "read" /\ look.source \in RunFiles /\ ~ByUrl(input)
      /\ FoundBefore(look.source, look.found)
      /\ look.source = "env" <=> input.runFile
      /\ look.source \in Candidates => look.source \in Exist
      /\ look \in Lookups /\ f \in Entries \cup {Absent, Damaged}
  BY DEF ReadRunFile, OnTheWay, LookOK, DiscoveryTypeOK, Machines
<1>2. /\ look.source \in Candidates <=> ~input.runFile
      /\ look.source \notin Candidates => look.source = "env"
  BY <1>1 DEF RunFiles, Candidates, Inputs
<1>3. CASE f = Absent
  <2>1. look.source = "env" /\ input.runFile /\ look.source \notin Candidates
    BY <1>1, <1>2, <1>3 DEF Exist
  <2>2. Expected(input) = "exit3"
    BY <1>1, <1>3, <2>1, ExpectedIs, DiscoveryNulls DEF FromRunFile
  <2>3. Fails(look.source, "exit3")
    BY <1>3, DiscoveryNulls DEF ReadRunFile
  <2> QED
    BY <2>1, <2>2, <2>3, FailsDecides
<1>4. CASE f = Damaged
  <2>1. Fails(look.source, "exit2")
    BY <1>4, DiscoveryNulls DEF ReadRunFile
  <2>2. CASE look.source \in Candidates
    <3>1. look.source \in Exist /\ ~Leads(look.source)
      BY <1>1, <1>4, <2>2 DEF Leads
    <3>2. Expected(input) = "refused"
      BY <1>1, <1>2, <2>2, <3>1, ExpectedIs, BadCandidate
    <3> QED
      BY <2>1, <2>2, <3>2, FailsDecides
  <2>3. CASE look.source \notin Candidates
    <3>1. machine.files["env"] = Damaged /\ input.runFile
      BY <1>2, <1>4, <2>3
    <3>2. Damaged # Absent /\ Damaged \notin Entries
      BY DiscoveryNulls
    <3>3. FromRunFile = "exit2"
      BY <3>1, <3>2 DEF FromRunFile
    <3>4. Expected(input) = "exit2"
      BY <1>1, <3>1, <3>3, ExpectedIs
    <3> QED
      BY <2>1, <2>3, <3>4, FailsDecides
  <2> QED
    BY <2>2, <2>3
<1>5. CASE f \in Entries
  <2>1. look' = [look EXCEPT !.at = "alive", !.pid = f.pid, !.port = f.port]
    BY <1>5, DiscoveryNulls DEF ReadRunFile
  <2>2. /\ look'.at = "alive" /\ look'.source = look.source /\ look'.found = look.found
        /\ look'.pid = f.pid /\ look'.port = f.port
    BY <1>1, <2>1 DEF Lookups
  <2>3. /\ Exist' = Exist /\ (\A g : Leads(g)' <=> Leads(g)) /\ (\A g : Daemon(g)' = Daemon(g))
    BY DEF Exist, Leads, Daemon
  <2>4. OnTheWay(input)'
    BY <1>1, <1>5, <2>2, <2>3 DEF OnTheWay, ByUrl, FoundBefore
  <2> QED
    BY <2>2, <2>4 DEF Decided, Over
<1> QED
  BY <1>1, <1>3, <1>4, <1>5

LEMMA AliveDecides ==
  ASSUME LookOK, NEW input \in Inputs, OnTheWay(input), CheckProcessAlive, machine' = machine
  PROVE  Decided(input)
<1> DEFINE f == machine.files[look.source]
<1>1. /\ look.at = "alive" /\ look.source \in RunFiles /\ ~ByUrl(input)
      /\ FoundBefore(look.source, look.found)
      /\ look.source = "env" <=> input.runFile
      /\ look.source \in Candidates => look.source \in Exist
      /\ look \in Lookups /\ f \in Entries /\ look.pid = f.pid /\ look.port = f.port
  BY DEF CheckProcessAlive, OnTheWay, LookOK, DiscoveryTypeOK
<1>2. /\ look.source \in Candidates <=> ~input.runFile
      /\ look.source \notin Candidates => look.source = "env"
  BY <1>1 DEF RunFiles, Candidates, Inputs
<1>3. CASE look.pid \notin machine.alive
  <2>1. Fails(look.source, "exit2")
    BY <1>3 DEF CheckProcessAlive
  <2>2. CASE look.source \in Candidates
    <3>1. look.source \in Exist /\ ~Leads(look.source)
      BY <1>1, <1>3, <2>2 DEF Leads
    <3>2. Expected(input) = "refused"
      BY <1>1, <1>2, <2>2, <3>1, ExpectedIs, BadCandidate
    <3> QED
      BY <2>1, <2>2, <3>2, FailsDecides
  <2>3. CASE look.source \notin Candidates
    <3>1. machine.files["env"].pid \notin machine.alive /\ input.runFile
      BY <1>1, <1>2, <1>3, <2>3
    <3>2. machine.files["env"] # Absent
      BY <1>1, <1>2, <2>3, DiscoveryNulls
    <3>3. FromRunFile = "exit2"
      BY <3>1, <3>2 DEF FromRunFile
    <3>4. Expected(input) = "exit2"
      BY <1>1, <3>1, <3>3, ExpectedIs
    <3> QED
      BY <2>1, <2>3, <3>4, FailsDecides
  <2> QED
    BY <2>2, <2>3
<1>4. CASE look.pid \in machine.alive
  <2>1. look' = [look EXCEPT !.at = "probe"]
    BY <1>4 DEF CheckProcessAlive
  <2>2. /\ look'.at = "probe" /\ look'.source = look.source /\ look'.found = look.found
        /\ look'.pid = look.pid /\ look'.port = look.port
    BY <1>1, <2>1 DEF Lookups
  <2>3. /\ Exist' = Exist /\ (\A g : Leads(g)' <=> Leads(g)) /\ (\A g : Daemon(g)' = Daemon(g))
    BY DEF Exist, Leads, Daemon
  <2>4. look.source # "url"
    BY <1>1 DEF RunFiles
  <2>5. OnTheWay(input)'
    BY <1>1, <1>4, <2>2, <2>3, <2>4 DEF OnTheWay, ByUrl, FoundBefore
  <2> QED
    BY <2>2, <2>5 DEF Decided, Over
<1> QED
  BY <1>3, <1>4

\* The only daemon that is asked.
LEMMA OneDecides ==
  ASSUME LookOK, NEW input, ProbeAOIdentity, look.source \notin Candidates,
         look.found = {}, Expected(input) = AtUrl(look.port)
  PROVE  Decided(input)
<1> DEFINE answer == machine.serves[look.port]
           d == [host |-> answer, pid |-> look.pid, port |-> look.port]
<1>1. look.at = "probe" /\ look.port \in Ports /\ answer \in Hosts \cup {"silent", "broken"}
  BY DEF ProbeAOIdentity, LookOK, DiscoveryTypeOK, Machines
<1>2. /\ "silent" \notin Hosts /\ "broken" \notin Hosts
      /\ look.port # "invalid"
  BY <1>1, DiscoveryNulls
<1>3. AtUrl(look.port) = CASE answer = "silent" -> "exit3" [] answer = "broken" -> "exit2"
                           [] OTHER -> "found"
  BY <1>2 DEF AtUrl
<1>4. CASE answer = "silent"
  <2>1. Fails(look.source, "exit3")
    BY <1>2, <1>4 DEF ProbeAOIdentity
  <2> QED
    BY <1>3, <1>4, <2>1, FailsDecides
<1>5. CASE answer = "broken"
  <2>1. Fails(look.source, "exit2")
    BY <1>2, <1>5 DEF ProbeAOIdentity
  <2> QED
    BY <1>3, <1>5, <2>1, FailsDecides
<1>6. CASE answer \in Hosts
  <2>1. Conclude(look.source, look.found \cup {d})
    BY <1>2, <1>6 DEF ProbeAOIdentity
  <2>2. look.found \cup {d} = {d}
    OBVIOUS
  <2>3. Cardinality({d}) = 1 /\ {d} # {}
    BY OneOrTwo
  <2>4. Found(look.source, {d})
    <3> HIDE DEF d
    <3> QED
      BY <2>1, <2>2, <2>3, ConcludeCases
  <2> QED
    BY <1>2, <1>3, <1>6, <2>4, FoundDecides
<1> QED
  BY <1>1, <1>4, <1>5, <1>6

LEMMA ProbeDecides ==
  ASSUME LookOK, NEW input \in Inputs, OnTheWay(input), ProbeAOIdentity, machine' = machine
  PROVE  Decided(input)
<1> DEFINE f == machine.files[look.source]
<1>1. look.at = "probe" /\ look.port \in Ports /\ look \in Lookups
  BY DEF ProbeAOIdentity, LookOK, DiscoveryTypeOK
<1>2. CASE look.source = "url"
  <2>1. ByUrl(input) /\ look.port = Url(input) /\ look.found = {}
    BY <1>1, <1>2 DEF OnTheWay
  <2>2. look.source \notin Candidates
    BY <1>2 DEF Candidates
  <2>3. Expected(input) = AtUrl(look.port)
    BY <2>1, ExpectedIs
  <2> QED
    BY <2>1, <2>2, <2>3, OneDecides
<1>3. CASE look.source # "url"
  <2>1. /\ look.source \in RunFiles /\ ~ByUrl(input)
        /\ FoundBefore(look.source, look.found)
        /\ look.source = "env" <=> input.runFile
        /\ look.source \in Candidates => look.source \in Exist
        /\ f \in Entries /\ look.pid = f.pid /\ look.port = f.port /\ look.pid \in machine.alive
    BY <1>1, <1>3 DEF OnTheWay
  <2>2. CASE look.source \notin Candidates
    <3>1. look.source = "env" /\ input.runFile
      BY <2>1, <2>2 DEF RunFiles, Candidates
    <3>2. look.found = {}
      BY <2>1, <3>1 DEF FoundBefore, Before
    <3>3. FromRunFile = AtUrl(look.port)
      <4>1. machine.files["env"] = f /\ f # Absent
        BY <2>1, <3>1, DiscoveryNulls
      <4> QED
        BY <2>1, <4>1 DEF FromRunFile
    <3>4. Expected(input) = AtUrl(look.port)
      BY <2>1, <3>1, <3>3, ExpectedIs
    <3> QED
      BY <2>2, <3>2, <3>4, OneDecides
  <2>3. CASE look.source \in Candidates
    <3> DEFINE answer == machine.serves[look.port]
               d == [host |-> answer, pid |-> look.pid, port |-> look.port]
    <3>1. ~input.runFile /\ look.source \in Exist
      BY <2>1, <2>3 DEF Candidates, Inputs
    <3>2. /\ answer \in Hosts \cup {"silent", "broken"}
          /\ "silent" \notin Hosts /\ "broken" \notin Hosts
      BY <1>1, DiscoveryNulls DEF LookOK, DiscoveryTypeOK, Machines
    <3>3. CASE answer \notin Hosts
      <4>1. \E code : Fails(look.source, code)
        BY <3>2, <3>3 DEF ProbeAOIdentity
      <4>2. ~Leads(look.source)
        BY <2>1, <3>3 DEF Leads
      <4>3. Expected(input) = "refused"
        BY <2>1, <3>1, <4>2, ExpectedIs, BadCandidate
      <4> QED
        BY <2>3, <4>1, <4>3, FailsDecides
    <3>4. CASE answer \in Hosts
      <4>1. AfterCandidate(look.found \cup {d})
        BY <2>3, <3>2, <3>4 DEF ProbeAOIdentity
      <4>2. Leads(look.source) /\ Daemon(look.source) = d
        BY <2>1, <3>4, DiscoveryNulls DEF Leads, Daemon
      <4>3. look.found \cup {d} =
              {Daemon(g) : g \in (Before(look.source) \cup {look.source}) \cap Exist}
        <5> HIDE DEF d
        <5>1. (Before(look.source) \cup {look.source}) \cap Exist =
                (Before(look.source) \cap Exist) \cup {look.source}
          BY <3>1
        <5> QED
          BY <2>1, <4>2, <5>1 DEF FoundBefore
      <4>4. \A g \in (Before(look.source) \cup {look.source}) \cap Exist : Leads(g)
        BY <2>1, <4>2 DEF FoundBefore
      <4> QED
        BY <2>1, <2>3, <3>1, <4>1, <4>3, <4>4, AfterDecides
    <3> QED
      BY <3>3, <3>4
  <2> QED
    BY <2>2, <2>3
<1> QED
  BY <1>2, <1>3

LEMMA ResolveDecides ==
  ASSUME LookOK, NEW input \in Inputs, OnTheWay(input), ResolveAO(input), machine' = machine
  PROVE  Decided(input) /\ look.at \notin {"found", "failed"}
BY ChooseDecides, StatDecides, FileDecides, AliveDecides, ProbeDecides
DEF ResolveAO, Choose, StatCandidate, ReadRunFile, CheckProcessAlive, ProbeAOIdentity

Looking == look.at \in {"choose", "stat", "read", "alive", "probe"}

\* Who looks, and what has been found so far if nothing has changed.
LookingInv ==
  /\ cmd.began <= changes
  /\ Looking => cmd.name = "attach" \/ (cmd.name = "doctor" /\ cmd.at = "endpoints")
  /\ changes = cmd.began => OnTheWay(cmd.input)

\* What DiscoveryDecides says of one step.
DecidedNow ==
  Concludes /\ changes = cmd.began =>
    IF Expected(cmd.input) = "refused" THEN Outcome # "found"
    ELSE Outcome = Expected(cmd.input)

\* Nobody is looking, or somebody begins to.
LEMMA Undecided ==
  ASSUME look' = look \/ look'.at \in {"idle", "choose"},
         look'.at \notin {"stat", "read", "alive", "probe"},
         cmd'.began <= changes',
         look'.at = "choose" =>
           cmd'.name = "attach" \/ (cmd'.name = "doctor" /\ cmd'.at = "endpoints")
  PROVE  LookingInv' /\ DecidedNow
BY DEF LookingInv, Looking, OnTheWay, DecidedNow, Concludes

\* A step of discovery.
LEMMA Discovers ==
  ASSUME ControlInv, LookingInv, cmd.input \in Inputs, ResolveAO(cmd.input),
         cmd.name = "attach" \/ (cmd.name = "doctor" /\ cmd.at = "endpoints"),
         machine' = machine, changes' = changes, changes \in Nat,
         IF look'.at = "failed" THEN cmd'.began = 0 ELSE cmd' = cmd
  PROVE  LookingInv' /\ DecidedNow
<1>1. LookOK /\ Looks
  BY Looked DEF ControlInv
<1>2. DecidedNow
  BY <1>1, ResolveDecides DEF LookingInv, DecidedNow, Concludes, Decided, Over
<1>3. CASE look'.at = "failed"
  <2>1. ~Looking' /\ cmd'.began <= changes'
    BY <1>3 DEF Looking
  <2>2. OnTheWay(cmd.input)'
    BY <1>3 DEF OnTheWay
  <2> QED
    BY <1>2, <2>1, <2>2 DEF LookingInv
<1>4. CASE look'.at # "failed"
  <2>1. ASSUME changes = cmd.began, look'.at # "found" PROVE OnTheWay(cmd.input)'
    <3>1. Decided(cmd.input)
      BY <1>1, <2>1, ResolveDecides DEF LookingInv
    <3>2. ~Over
      BY <1>4, <2>1 DEF Over
    <3> QED
      BY <1>4, <3>1, <3>2 DEF Decided, OnTheWay
  <2>2. look'.at = "found" => OnTheWay(cmd.input)'
    BY DEF OnTheWay
  <2> QED
    BY <1>2, <1>4, <2>1, <2>2 DEF LookingInv
<1> QED
  BY <1>3, <1>4

LEMMA LookingStep ==
  ASSUME ControlInv, LookingInv, ControlNext
  PROVE  LookingInv' /\ DecidedNow
<1>1. /\ changes \in Nat /\ cmd \in Commands /\ cmd.input \in Inputs /\ cmd.began \in Nat
      /\ cmd.began <= changes
  BY AttachSwitches, ControlInstance
  DEF ControlInv, Ind, TypeOK, CommandOK, Commands, LookingInv
<1>2. \A code : /\ Ended(code).began = 0 /\ Ended(code).name = "none"
                /\ DOMAIN Ended(code) = {"name", "at", "raw", "input", "began", "catalog", "seen"}
  BY DEF Ended
<1>3. AtPrompt => ~Looking
  BY DEF AtPrompt, Exits, LookingInv, ControlInv, OneCommand
<1>4. ASSUME NEW name, NEW label, NEW raw, NEW input, Enter(name, label, raw, input)
      PROVE  cmd'.began = changes /\ cmd'.name = name /\ cmd'.at = label
  BY <1>4 DEF Enter, Ended
<1>5. StartLooking => look'.at = "choose"
  BY DEF StartLooking, NotLooking
<1>6. CASE BeginDoctor
  <2>1. AtPrompt /\ changes' = changes
    BY <1>6 DEF BeginDoctor, vars, envVars
  <2>2. PICK raw \in RawSpecs, input \in Tried :
          \/ Enter("doctor", "endpoints", raw, input) /\ StartLooking
          \/ cmd' = Ended("exit2") /\ look' = look
    BY <1>6 DEF BeginDoctor
  <2> QED
    BY <1>1, <1>2, <1>3, <1>4, <1>5, <2>1, <2>2, Undecided DEF Looking
<1>7. CASE BeginStatus
  <2>1. AtPrompt /\ changes' = changes /\ look' = look
    BY <1>7 DEF BeginStatus, vars, envVars
  <2>2. cmd'.began = changes \/ cmd'.began = 0
    BY <1>2, <1>7 DEF BeginStatus
  <2> QED
    BY <1>1, <1>3, <2>1, <2>2, Undecided DEF Looking
<1>8. ASSUME NEW p \in Procs, BeginAttach(p) PROVE LookingInv' /\ DecidedNow
  <2>1. AtPrompt
    BY <1>8 DEF BeginAttach
  <2>2. PICK raw \in RawSpecs, input \in Tried :
          \/ Begin(p) /\ Enter("attach", "attach", raw, input) /\ StartLooking
          \/ cmd' = Ended("exit2") /\ UNCHANGED <<vars, look>>
    BY <1>8 DEF BeginAttach
  <2>3. changes' = changes
    BY <2>2 DEF Begin, vars, envVars
  <2> QED
    BY <1>1, <1>2, <1>3, <1>4, <1>5, <2>1, <2>2, <2>3, Undecided DEF Looking
<1>9. CASE DoctorStep
  <2>1. /\ cmd.name = "doctor" /\ changes' = changes /\ machine' = machine
    BY <1>9 DEF DoctorStep, vars, envVars
  <2>2. CASE DoctorDiscovers
    BY <1>1, <1>2, <2>1, <2>2, Discovers DEF DoctorDiscovers
  <2>3. CASE DoctorGateway
    <3>1. look'.at = "idle"
      BY <2>3 DEF DoctorGateway, NotLooking
    <3>2. cmd'.began = cmd.began \/ cmd'.began = 0
      BY <1>1, <1>2, <2>3 DEF DoctorGateway, Commands
    <3> QED
      BY <1>1, <2>1, <3>1, <3>2, Undecided
  <2>4. CASE DoctorRoot \/ DoctorStatus \/ DoctorCommit \/ DoctorTools
    <3>1. cmd.at # "endpoints" /\ look' = look
      BY <2>4 DEF DoctorRoot, DoctorStatus, DoctorCommit, DoctorTools, Check
    <3>2. ~Looking
      BY <2>1, <3>1 DEF LookingInv
    <3>3. cmd'.began = cmd.began \/ cmd'.began = 0
      BY <1>1, <1>2, <2>4
      DEF DoctorRoot, DoctorStatus, DoctorCommit, DoctorTools, Check, Commands
    <3> QED
      BY <1>1, <2>1, <3>1, <3>2, <3>3, Undecided DEF Looking
  <2> QED
    BY <1>9, <2>2, <2>3, <2>4 DEF DoctorStep
<1>10. CASE StatusStep
  <2>1. cmd.name = "status" /\ changes' = changes /\ look' = look
    BY <1>10 DEF StatusStep, vars, envVars
  <2>2. ~Looking
    BY <2>1 DEF LookingInv
  <2>3. cmd'.began = cmd.began \/ cmd'.began = 0
    BY <1>1, <1>2, <1>10 DEF StatusStep, StatusOverride, StatusGateway, StatusLease, Commands
  <2> QED
    BY <1>1, <2>1, <2>2, <2>3, Undecided DEF Looking
<1>11. ASSUME NEW p \in Procs, AttachStep(p) PROVE LookingInv' /\ DecidedNow
  <2>1. /\ cmd.name = "attach" /\ Busy(p) /\ machine' = machine
        /\ look.at # "idle" <=> at[p] = "endpoints"
        /\ cmd' = IF at'[p] \in Exits THEN Ended(at'[p]) ELSE cmd
    BY <1>11 DEF AttachStep, Busy, ControlInv, OneCommand
  <2>2. cmd'.began = cmd.began \/ cmd'.began = 0
    BY <1>2, <2>1
  <2>3. CASE AttachDiscovers(p)
    <3>1. CASE look'.at = "failed"
      <4>1. Looks
        BY <1>1, <2>3, Looked DEF AttachDiscovers, ControlInv
      <4>2. Exit(p, look'.code) /\ look'.code \in Exits
        BY <2>3, <3>1, <4>1 DEF AttachDiscovers, Looks, Remote, Exits
      <4>3. at'[p] \in Exits /\ changes' = changes
        BY <4>2 DEF Exit, Goto, envVars, ControlInv, Ind, TypeOK
      <4> QED
        BY <1>1, <1>2, <2>1, <2>3, <3>1, <4>3, Discovers DEF AttachDiscovers
    <3>2. CASE look'.at # "failed"
      <4>1. at' = at /\ changes' = changes
        BY <2>3, <3>2 DEF AttachDiscovers, vars, envVars, procVars
      <4> QED
        BY <1>1, <2>1, <2>3, <3>2, <4>1, Discovers DEF AttachDiscovers, Busy
    <3> QED
      BY <3>1, <3>2
  <2>4. CASE AttachGateway(p)
    <3>1. look'.at = "idle"
      BY <2>4 DEF AttachGateway, NotLooking
    <3>2. changes' = changes
      BY <2>4 DEF AttachGateway, Read, Exit, envVars
    <3> QED
      BY <1>1, <2>2, <3>1, <3>2, Undecided
  <2>5. CASE AttachGoesOn(p)
    <3>1. at[p] # "endpoints" /\ look' = look
      BY <2>5
      DEF AttachGoesOn, ReadSession, ReadSettings, ReadWorktrees, CheckRoot, CheckStatus,
          InspectLease, Read, Stat, Compare, Rename, Readback
    <3>2. changes' = changes
      BY <2>5
      DEF AttachGoesOn, ReadSession, ReadSettings, ReadWorktrees, CheckRoot, CheckStatus,
          InspectLease, Read, Exit, Stat, Compare, Rename, Readback, envVars
    <3> QED
      BY <1>1, <2>1, <2>2, <3>1, <3>2, Undecided
  <2> QED
    BY <1>11, <2>3, <2>4, <2>5 DEF AttachStep
<1>12. CASE SomethingChanges
  <2>1. changes' = changes + 1 /\ UNCHANGED <<cmd, look>>
    BY <1>12 DEF SomethingChanges, WorldChanges
  <2> QED
    BY <1>1, <2>1 DEF LookingInv, Looking, DecidedNow, Concludes
<1> QED
  BY <1>6, <1>7, <1>8, <1>9, <1>10, <1>11, <1>12 DEF ControlNext

\* Discovery is as far as the state says, and decides by it.
LEMMA LookingAlways ==
  ASSUME ControlInv, LookingInv, [ControlNext]_allVars
  PROVE  LookingInv' /\ DecidedNow
<1>1. CASE ControlNext
  BY <1>1, LookingStep
<1>2. CASE UNCHANGED allVars
  <2>1. UNCHANGED <<cmd, look, machine, changes>>
    BY <1>2 DEF allVars, controlVars, vars, envVars
  <2> QED
    BY <2>1 DEF LookingInv, Looking, OnTheWay, FoundBefore, Exist, Leads, Daemon, DecidedNow, Concludes
<1> QED
  BY <1>1, <1>2

LEMMA LookingInit == ControlInit => LookingInv
<1> SUFFICES ASSUME ControlInit PROVE LookingInv
  OBVIOUS
<1>1. changes = 0 /\ cmd.began = 0 /\ look.at = "idle"
  BY DEF ControlInit, Init, Ended, NotLooking
<1> QED
  BY <1>1 DEF LookingInv, Looking, OnTheWay

\* DiscoveryDecides: when nothing changes while it looks, discovery finds a daemon exactly if
\* the first source that is set leads to one, and the default run files to no two; it never
\* falls back, and but for a default run file that leads nowhere, the exit code is that of
\* what is wrong (ResolveAOEndpoint).
THEOREM DiscoveryIsExact == ControlSpec => DiscoveryDecides
<1> DEFINE Exact ==
      Concludes /\ changes = cmd.began =>
        IF Expected(cmd.input) = "refused" THEN Outcome # "found"
        ELSE Outcome = Expected(cmd.input)
<1>1. ControlInv /\ LookingInv /\ [ControlNext]_allVars => LookingInv' /\ [Exact]_allVars
  BY LookingAlways DEF DecidedNow
<1> QED
  BY <1>1, LookingInit, ControlInvAlways, PTL DEF ControlSpec, DiscoveryDecides

----------------------------------------------------------------------------
(* What one command says of the next. *)

\* The daemon and the gateway that the operator asks for are the bound ones.
Answers(e, input) ==
  /\ input.flag # "unset" => input.flag \in Ports /\ machine.serves[input.flag] = e.host
  /\ e.gateway = Gateway(input) /\ ProbeGateway(input) = "up" /\ world.catalog # {}

\* What an attach at the terminal knows.
Informed(p) ==
  /\ spec[p] = Parse(cmd.raw)
  /\ at[p] = "rename" => file = NoFile
  /\ at[p] = "readback" => Bound(file, m[p])
  /\ changes = cmd.began =>
       /\ at[p] # "endpoints" => Answers(m[p].endpoints, cmd.input)
       /\ at[p] = "session" => m[p].catalog = world.catalog
       /\ at[p] \in Writes => world.leases[spec[p].run] \in {"FREE", "OWNED"}

\* What has been found is what was asked for.
FoundRight(input) ==
  /\ Expected(input) = "found"
  /\ input.flag # "unset" =>
       input.flag \in Ports /\ \A d \in look.found : d.host = machine.serves[input.flag]

FoundOK ==
  look.at = "found" =>
    /\ cmd.name = "attach" \/ (cmd.name = "doctor" /\ cmd.at = "endpoints")
    /\ changes = cmd.began => FoundRight(cmd.input)

\* doctor goes by what it has checked.
DoctorOK ==
  cmd.name = "doctor" =>
    /\ cmd.at \in {"endpoints", "root", "status", "commit", "tools"}
    /\ changes = cmd.began =>
         /\ cmd.at # "endpoints" =>
              /\ Expected(cmd.input) = "found" /\ ProbeGateway(cmd.input) = "up"
              /\ cmd.catalog = world.catalog /\ world.catalog # {}
         /\ cmd.at \in {"status", "commit", "tools"} => world.rootClean
         /\ cmd.at \in {"commit", "tools"} =>
              (DirtyPolicy(cmd.raw.policy) = "require_clean" => Porcelain(cmd.raw.run) = {})

\* status goes by the manifest that is there.
StatusOK ==
  cmd.name = "status" =>
    cmd.at \in {"override", "gateway", "lease"} /\ cmd.seen = file /\ Readable(file)

\* What an attach that succeeded leaves, while nothing changes.
Confirmed(input) ==
  /\ Readable(file) /\ Answers(file.endpoints, input)
  /\ world.leases[file.run] \in {"FREE", "OWNED"}

\* What a doctor that passed has seen.
Passed(raw, input) ==
  /\ Expected(input) = "found" /\ ProbeGateway(input) = "up" /\ world.catalog # {}
  /\ world.rootClean
  /\ DirtyPolicy(raw.policy) = "require_clean" => Porcelain(raw.run) = {}
  /\ raw.model \in world.catalog

SuccessOK ==
  success # Never =>
    /\ success.name = "attach" => Confirmed(success.input)
    /\ success.name = "doctor" => Passed(success.raw, success.input)

\* Nothing has changed since a command began that follows a success.
Since == success # Never /\ cmd.name = "attach" => changes = cmd.began

TerminalInv ==
  /\ \A p \in Procs : Busy(p) => Informed(p)
  /\ FoundOK /\ DoctorOK /\ StatusOK /\ SuccessOK /\ Since

LEMMA SameMachine ==
  ASSUME machine' = machine, NEW input
  PROVE  /\ Expected(input)' = Expected(input)
         /\ ProbeGateway(input)' = ProbeGateway(input)
<1>1. Exist' = Exist /\ \A f : Leads(f)' <=> Leads(f)
  BY DEF Exist, Leads
<1>2. FromCandidates' = FromCandidates
  BY <1>1 DEF FromCandidates
<1>3. \A url : AtUrl(url)' = AtUrl(url)
  BY DEF AtUrl
<1>4. FromRunFile' = FromRunFile
  BY <1>3 DEF FromRunFile, AtUrl
<1>5. Expected(input)' = Expected(input)
  BY <1>2, <1>3, <1>4 DEF Expected
<1>6. ProbeGateway(input)' = ProbeGateway(input)
  BY DEF ProbeGateway, Gateway
<1> QED
  BY <1>5, <1>6

\* A success stands as long as nothing changes: there is a file, and it stays.
LEMMA SuccessStands ==
  ASSUME SuccessOK, success' = success, UNCHANGED <<machine, world>>,
         file' = file \/ file = NoFile
  PROVE  SuccessOK'
<1>1. ASSUME Confirmed(success.input) PROVE Confirmed(success.input)'
  <2>1. file' = file
    BY <1>1, AttachNulls DEF Confirmed, Readable
  <2> QED
    BY <1>1, <2>1, SameMachine DEF Confirmed, Answers, Gateway, Readable
<1>2. ASSUME Passed(success.raw, success.input) PROVE Passed(success.raw, success.input)'
  BY <1>2, SameMachine DEF Passed, Porcelain
<1> QED
  BY <1>1, <1>2 DEF SuccessOK

\* A command ends at the terminal.
LEMMA TerminalEnds ==
  ASSUME SuccessOK', NEW code, cmd' = Ended(code), look'.at # "found",
         \A p \in Procs : ~Busy(p)'
  PROVE  TerminalInv'
<1>1. cmd'.name = "none"
  BY DEF Ended
<1> QED
  BY <1>1 DEF TerminalInv, FoundOK, DoctorOK, StatusOK, Since

----------------------------------------------------------------------------
(* Each command. *)

LEMMA BeginsAtTerminal ==
  ASSUME ControlInv, TerminalInv, BeginDoctor \/ BeginStatus
  PROVE  TerminalInv'
<1>1. /\ AtPrompt /\ UNCHANGED <<vars, machine, success>>
      /\ UNCHANGED <<world, file, changes, at>>
  BY DEF BeginDoctor, BeginStatus, vars, envVars, procVars
<1>2. \A p \in Procs : ~Busy(p) /\ ~Busy(p)'
  BY <1>1, Idle DEF Busy
<1>3. SuccessOK'
  BY <1>1, SuccessStands DEF TerminalInv
<1>4. look.at # "found"
  BY <1>1 DEF TerminalInv, FoundOK, AtPrompt, Exits, ControlInv, OneCommand
<1>5. CASE cmd' = Ended("exit2") /\ look' = look
  BY <1>2, <1>3, <1>4, <1>5, TerminalEnds
<1>6. ASSUME NEW raw \in RawSpecs, NEW input \in Tried,
             Enter("doctor", "endpoints", raw, input), StartLooking
      PROVE  TerminalInv'
  <2>1. cmd'.name = "doctor" /\ cmd'.at = "endpoints" /\ look'.at = "choose"
    BY <1>6 DEF Enter, Ended, StartLooking, NotLooking
  <2> QED
    BY <1>2, <1>3, <2>1 DEF TerminalInv, FoundOK, DoctorOK, StatusOK, Since
<1>7. ASSUME Readable(file), NEW input \in Tried, look' = look,
             cmd' = [Ended("down") EXCEPT !.name = "status", !.at = "override",
                                          !.input = input, !.began = changes, !.seen = file]
      PROVE  TerminalInv'
  <2>1. cmd'.name = "status" /\ cmd'.seen = file
    BY <1>7 DEF Ended
  <2> QED
    BY <1>1, <1>2, <1>3, <1>4, <1>7, <2>1
    DEF TerminalInv, FoundOK, DoctorOK, StatusOK, Since, Readable
<1>8. \/ cmd' = Ended("exit2") /\ look' = look
      \/ \E raw \in RawSpecs, input \in Tried :
           Enter("doctor", "endpoints", raw, input) /\ StartLooking
      \/ \E input \in Tried :
           /\ Readable(file) /\ look' = look
           /\ cmd' = [Ended("down") EXCEPT !.name = "status", !.at = "override",
                                           !.input = input, !.began = changes, !.seen = file]
  <2>1. CASE BeginDoctor
    BY <2>1 DEF BeginDoctor
  <2>2. CASE BeginStatus
    BY <2>2 DEF BeginStatus
  <2> QED
    BY <2>1, <2>2
<1> QED
  BY <1>5, <1>6, <1>7, <1>8

\* A resolution that finds something has found what was asked for.
LEMMA FindsRight ==
  ASSUME LookOK, NEW input \in Inputs, OnTheWay(input), ResolveAO(input), machine' = machine,
         look'.at = "found"
  PROVE  /\ Expected(input) = "found"
         /\ input.flag # "unset" =>
              input.flag \in Ports /\ \A d \in look'.found : d.host = machine.serves[input.flag]
<1>1. Expected(input) = "found"
  BY ResolveDecides DEF Decided, Over, Outcome
<1>2. ASSUME input.flag # "unset"
      PROVE  input.flag \in Ports /\ \A d \in look'.found : d.host = machine.serves[input.flag]
  <2>1. ByUrl(input) /\ Url(input) = input.flag
    BY <1>2 DEF ByUrl, Url
  <2>2. ~Choose(input)
    <3>1. ASSUME NEW url, LookAtUrl(url) PROVE FALSE
      BY <3>1 DEF LookAtUrl, Failed, NotLooking
    <3> QED
      BY <1>2, <3>1 DEF Choose
  <2>3. ~StatCandidate /\ ~ReadRunFile /\ ~CheckProcessAlive
    BY <2>1 DEF StatCandidate, ReadRunFile, CheckProcessAlive, OnTheWay
  <2>4. ProbeAOIdentity
    BY <2>2, <2>3 DEF ResolveAO
  <2> DEFINE d == [host |-> machine.serves[look.port], pid |-> look.pid, port |-> look.port]
  <2>5. look.source = "url" /\ look.port = input.flag /\ look.found = {} /\ look.port \in Ports
    BY <2>1, <2>4 DEF ProbeAOIdentity, OnTheWay, LookOK
  <2>6. look.source \notin Candidates /\ look.found \cup {d} = {d}
    BY <2>5 DEF Candidates
  <2>7. Conclude(look.source, {d})
    <3>1. ASSUME NEW code, Fails(look.source, code) PROVE FALSE
      BY <3>1 DEF Fails, Failed, NotLooking
    <3>2. machine.serves[look.port] \in Hosts \cup {"silent", "broken"}
      BY <2>5 DEF LookOK, DiscoveryTypeOK, Machines
    <3>3. "silent" \notin Hosts /\ "broken" \notin Hosts
      BY DiscoveryNulls
    <3> QED
      BY <2>4, <2>6, <3>1, <3>2, <3>3 DEF ProbeAOIdentity
  <2>8. Found(look.source, {d})
    BY <2>7, OneOrTwo, ConcludeCases
  <2>9. look'.found = {d}
    BY <2>8 DEF Found, NotLooking
  <2> QED
    BY <2>5, <2>9
<1> QED
  BY <1>1, <1>2

LEMMA DoctorAtTerminal ==
  ASSUME ControlInv, LookingInv, TerminalInv, DoctorStep
  PROVE  TerminalInv'
<1>1. /\ cmd.name = "doctor" /\ UNCHANGED <<vars, machine, host>> /\ Remember(cmd'.at)
      /\ UNCHANGED <<world, file, changes, at>>
      /\ cmd \in Commands /\ cmd.input \in Inputs /\ cmd.raw \in RawSpecs /\ LookOK
  BY ControlInstance
  DEF DoctorStep, vars, envVars, procVars, ControlInv, CommandOK, Commands
<1>2. \A p \in Procs : ~Busy(p) /\ ~Busy(p)'
  BY <1>1, NotAttaching DEF Busy
<1>3. /\ cmd.at \in {"endpoints", "root", "status", "commit", "tools"}
      /\ look.at = "found" => cmd.at = "endpoints"
  BY <1>1 DEF TerminalInv, DoctorOK, FoundOK
<1>4. ASSUME success' = success PROVE SuccessOK'
  BY <1>1, <1>4, SuccessStands DEF TerminalInv
<1>5. ASSUME NEW code, code # "exit0", cmd' = Ended(code), look'.at # "found" PROVE TerminalInv'
  <2>1. success' = success
    BY <1>1, <1>5 DEF Remember, Ended
  <2> QED
    BY <1>2, <1>4, <1>5, <2>1, TerminalEnds
<1>6. ASSUME NEW next \in Steps, success' = success, FoundOK', DoctorOK',
             cmd'.name = "doctor"
      PROVE  TerminalInv'
  BY <1>2, <1>4, <1>6 DEF TerminalInv, StatusOK, Since
<1>7. CASE DoctorDiscovers
  <2>1. CASE look'.at = "failed"
    <3>1. Looks
      BY <1>1, <1>7, Looked DEF DoctorDiscovers
    <3> QED
      BY <1>5, <1>7, <2>1, <3>1 DEF DoctorDiscovers, Looks, Remote
  <2>2. CASE look'.at # "failed"
    <3>1. cmd' = cmd /\ cmd.at = "endpoints" /\ success' = success
      BY <1>1, <1>7, <2>2 DEF DoctorDiscovers, Remember
    <3>2. ASSUME look'.at = "found", changes = cmd.began PROVE FoundRight(cmd.input)'
      <4>1. OnTheWay(cmd.input)
        BY <3>2 DEF LookingInv
      <4>2. /\ Expected(cmd.input) = "found"
            /\ cmd.input.flag # "unset" =>
                 /\ cmd.input.flag \in Ports
                 /\ \A d \in look'.found : d.host = machine.serves[cmd.input.flag]
        BY <1>1, <1>7, <3>2, <4>1, FindsRight DEF DoctorDiscovers
      <4> QED
        BY <1>1, <3>1, <4>2, SameMachine DEF FoundRight
    <3>3. FoundOK'
      BY <1>1, <3>1, <3>2 DEF FoundOK
    <3>4. DoctorOK'
      BY <1>1, <3>1 DEF DoctorOK
    <3> QED
      BY <1>1, <1>6, <3>1, <3>3, <3>4 DEF Steps
  <2> QED
    BY <2>1, <2>2
<1>8. CASE DoctorGateway
  <2>1. look'.at = "idle"
    BY <1>8 DEF DoctorGateway, NotLooking
  <2>2. CASE ProbeGateway(cmd.input) = "up" /\ world.catalog # {}
    <3>1. cmd' = [cmd EXCEPT !.at = "root", !.catalog = world.catalog]
      BY <1>8, <2>2 DEF DoctorGateway
    <3>2. /\ cmd'.name = "doctor" /\ cmd'.at = "root" /\ cmd'.catalog = world.catalog
          /\ cmd'.began = cmd.began /\ cmd'.input = cmd.input /\ cmd'.raw = cmd.raw
      BY <1>1, <3>1 DEF Commands
    <3>3. changes = cmd.began => Expected(cmd.input) = "found"
      BY <1>8 DEF DoctorGateway, TerminalInv, FoundOK, FoundRight
    <3>4. DoctorOK'
      BY <1>1, <2>2, <3>2, <3>3, SameMachine DEF DoctorOK
    <3>5. success' = success
      BY <1>1, <3>2 DEF Remember
    <3> QED
      BY <1>6, <2>1, <3>2, <3>4, <3>5 DEF FoundOK, Steps
  <2>3. CASE ~(ProbeGateway(cmd.input) = "up" /\ world.catalog # {})
    <3>1. cmd' = Ended("exit3") \/ cmd' = Ended("exit2")
      BY <1>8, <2>3 DEF DoctorGateway
    <3> QED
      BY <1>5, <2>1, <3>1
  <2> QED
    BY <2>2, <2>3
<1>9. ASSUME NEW here, NEW holds, NEW next \in {"status", "commit", "tools"},
             Check(here, holds, next), here # "endpoints",
             holds => DoctorOK'
      PROVE  TerminalInv'
  <2>1. look' = look /\ look.at # "found" /\ cmd.at = here
    BY <1>3, <1>9 DEF Check
  <2>2. CASE holds
    <3>1. cmd' = [cmd EXCEPT !.at = next]
      BY <1>9, <2>2 DEF Check
    <3>2. cmd'.name = "doctor" /\ cmd'.at # "exit0"
      BY <1>1, <3>1 DEF Commands
    <3>3. success' = success
      BY <1>1, <3>2 DEF Remember
    <3> QED
      BY <1>6, <1>9, <2>1, <2>2, <3>2, <3>3 DEF FoundOK, Steps
  <2>3. CASE ~holds
    <3>1. cmd' = Ended("exit2")
      BY <1>9, <2>3 DEF Check
    <3> QED
      BY <1>5, <2>1, <3>1
  <2> QED
    BY <2>2, <2>3
<1>10. ASSUME NEW next \in {"status", "commit", "tools"}, cmd' = [cmd EXCEPT !.at = next],
              cmd.at # "endpoints",
              cmd.at = "root" => next = "status" /\ world.rootClean,
              cmd.at = "status" => next = "commit" /\
                (DirtyPolicy(cmd.raw.policy) = "require_clean" => Porcelain(cmd.raw.run) = {})
       PROVE  DoctorOK'
  <2>1. /\ cmd'.name = "doctor" /\ cmd'.at = next /\ cmd'.catalog = cmd.catalog
        /\ cmd'.began = cmd.began /\ cmd'.input = cmd.input /\ cmd'.raw = cmd.raw
    BY <1>1, <1>10 DEF Commands
  <2>2. \A run : Porcelain(run)' = Porcelain(run)
    BY <1>1 DEF Porcelain
  <2> QED
    BY <1>1, <1>3, <1>10, <2>1, <2>2, SameMachine DEF TerminalInv, DoctorOK
<1>11. CASE DoctorRoot
  <2>1. Check("root", world.rootClean, "status")
    BY <1>11 DEF DoctorRoot
  <2>2. world.rootClean => DoctorOK'
    BY <1>10, <2>1 DEF Check
  <2> QED
    BY <1>9, <2>1, <2>2
<1>12. CASE DoctorStatus
  <2> DEFINE holds == DirtyPolicy(cmd.raw.policy) = "require_clean" => Porcelain(cmd.raw.run) = {}
  <2>1. Check("status", holds, "commit")
    BY <1>12 DEF DoctorStatus
  <2>2. holds => DoctorOK'
    BY <1>10, <2>1 DEF Check
  <2> HIDE DEF holds
  <2> QED
    BY <1>9, <2>1, <2>2
<1>13. CASE DoctorCommit
  <2>1. Check("commit", cmd.raw.baseline \in host.commits, "tools")
    BY <1>13 DEF DoctorCommit
  <2>2. cmd.raw.baseline \in host.commits => DoctorOK'
    BY <1>10, <2>1 DEF Check
  <2> QED
    BY <1>9, <2>1, <2>2
<1>14. CASE DoctorTools
  <2>1. cmd.at = "tools" /\ look' = look /\ look.at # "found"
    BY <1>3, <1>14 DEF DoctorTools
  <2>2. CASE host.tools /\ ModelsPresent(cmd.catalog)
    <3>1. cmd' = Ended("exit0") /\ cmd'.at = "exit0"
      BY <1>14, <2>2 DEF DoctorTools, Ended
    <3>2. CASE changes = cmd.began
      <4>1. success' = [name |-> "doctor", raw |-> cmd.raw, input |-> cmd.input]
        BY <1>1, <3>1, <3>2 DEF Remember
      <4>2. success'.name = "doctor" /\ success'.raw = cmd.raw /\ success'.input = cmd.input
        BY <4>1
      <4>3. Passed(cmd.raw, cmd.input)
        BY <1>1, <2>1, <2>2, <3>2 DEF TerminalInv, DoctorOK, Passed, ModelsPresent
      <4>4. SuccessOK'
        BY <1>1, <4>2, <4>3, SameMachine DEF SuccessOK, Passed, Porcelain
      <4> QED
        BY <1>2, <2>1, <3>1, <4>4, TerminalEnds
    <3>3. CASE changes # cmd.began
      <4>1. success' = success
        BY <1>1, <3>3 DEF Remember
      <4> QED
        BY <1>2, <1>4, <2>1, <3>1, <4>1, TerminalEnds
    <3> QED
      BY <3>2, <3>3
  <2>3. CASE ~(host.tools /\ ModelsPresent(cmd.catalog))
    <3>1. cmd' = Ended("exit2")
      BY <1>14, <2>3 DEF DoctorTools
    <3> QED
      BY <1>5, <2>1, <3>1
  <2> QED
    BY <2>2, <2>3
<1> QED
  BY <1>7, <1>8, <1>11, <1>12, <1>13, <1>14 DEF DoctorStep

\* StatusAgreesOnPlainUrls, of one step.
StatusAgrees ==
  /\ StatusAfterAttach
  /\ cmd.input.gateway.text \in {"", success.input.gateway.text} /\ ~cmd.input.gateway.blanks
  => cmd'.at = "exit0"

LEMMA StatusAtTerminal ==
  ASSUME ControlInv, TerminalInv, StatusStep
  PROVE  TerminalInv' /\ StatusAgrees
<1>1. /\ cmd.name = "status" /\ UNCHANGED <<vars, machine, look, success>>
      /\ UNCHANGED <<world, file, changes, at>>
      /\ cmd \in Commands /\ cmd.seen = file /\ Readable(file)
      /\ cmd.input \in Inputs /\ success \in Successes \cup {Never}
  BY ControlInstance
  DEF StatusStep, vars, envVars, procVars, ControlInv, CommandOK, Commands, TerminalInv, StatusOK
<1>2. \A p \in Procs : ~Busy(p) /\ ~Busy(p)'
  BY <1>1, NotAttaching DEF Busy
<1>3. look.at # "found" /\ SuccessOK'
  BY <1>1, SuccessStands DEF TerminalInv, FoundOK
<1>4. ASSUME NEW code, cmd' = Ended(code) PROVE TerminalInv'
  BY <1>1, <1>2, <1>3, <1>4, TerminalEnds
<1>5. ASSUME NEW next \in {"gateway", "lease"}, cmd' = [cmd EXCEPT !.at = next]
      PROVE  TerminalInv' /\ StatusAgrees
  <2>1. cmd'.name = "status" /\ cmd'.at = next /\ cmd'.seen = file
    BY <1>1, <1>5 DEF Commands
  <2> QED
    BY <1>1, <1>2, <1>3, <2>1
    DEF TerminalInv, FoundOK, DoctorOK, StatusOK, Since, Readable, StatusAgrees, StatusAfterAttach
<1>6. ASSUME success # Never, success.name = "attach"
      PROVE  /\ success.input \in Inputs /\ file \in Manifests
             /\ Answers(file.endpoints, success.input)
             /\ file.endpoints.host \in Hosts /\ file.endpoints.gateway \in Gateways
             /\ world.leases[file.run] \in {"FREE", "OWNED"}
  <2>1. Confirmed(success.input) /\ success.input \in Inputs
    BY <1>1, <1>6, ControlInstance DEF TerminalInv, SuccessOK, Successes
  <2>2. file \in Manifests /\ file.endpoints \in Endpoints
    BY <1>1 DEF Readable, Manifests
  <2> QED
    BY <2>1, <2>2, ControlInstance DEF Confirmed
<1>7. CASE StatusOverride
  <2>1. CASE cmd.input.flag = "unset" \/ Override = "same"
    BY <1>5, <1>7, <2>1 DEF StatusOverride
  <2>2. CASE ~(cmd.input.flag = "unset" \/ Override = "same")
    <3>1. cmd' = Ended(Override)
      BY <1>7, <2>2 DEF StatusOverride
    <3>2. StatusAgrees
      <4> SUFFICES ASSUME success # Never, success.name = "attach",
                          cmd.input.flag = success.input.flag
                   PROVE  FALSE
        BY <2>2 DEF StatusAgrees, StatusAfterAttach
      <4>1. /\ cmd.input.flag \in Ports /\ machine.serves[cmd.input.flag] = file.endpoints.host
            /\ file.endpoints.host \in Hosts
        BY <1>6, <2>2 DEF Answers
      <4>2. file.endpoints.host # "silent" /\ cmd.input.flag # "invalid"
        BY <4>1, DiscoveryNulls
      <4>3. Override = "same"
        BY <1>1, <4>1, <4>2 DEF Override
      <4> QED
        BY <2>2, <4>3
    <3> QED
      BY <1>4, <3>1, <3>2
  <2> QED
    BY <2>1, <2>2
<1>8. CASE StatusGateway
  <2> DEFINE answer == ProbeGateway(cmd.input)
             given == cmd.input.gateway
             bound == given = [text |-> cmd.seen.endpoints.gateway, blanks |-> FALSE]
             holds == given = Unset \/ (bound /\ answer = "up" /\ world.catalog # {})
  <2>1. cmd' = IF holds THEN [cmd EXCEPT !.at = "lease"]
               ELSE Ended(IF bound /\ answer = "exit3" THEN "exit3" ELSE "exit2")
    BY <1>8 DEF StatusGateway
  <2>2. CASE holds
    BY <1>5, <2>1, <2>2
  <2>3. CASE ~holds
    <3>1. cmd' = Ended("exit3") \/ cmd' = Ended("exit2")
      BY <2>1, <2>3
    <3>2. StatusAgrees
      <4> SUFFICES ASSUME success # Never, success.name = "attach", ~given.blanks,
                          given.text \in {"", success.input.gateway.text}
                   PROVE  FALSE
        BY DEF StatusAgrees, StatusAfterAttach
      <4>1. given \in Typed /\ given = [text |-> given.text, blanks |-> FALSE]
        BY <1>1 DEF Inputs, Typed
      <4>2. given.text # "" /\ given.text = success.input.gateway.text
        BY <2>3, <4>1 DEF Unset
      <4>3. file.endpoints.gateway = given.text /\ world.catalog # {}
            /\ ProbeGateway(success.input) = "up"
        BY <1>6, <4>2 DEF Answers, Gateway, TrimSpace
      <4>4. ProbeGateway(cmd.input) = ProbeGateway(success.input)
        BY <4>2 DEF ProbeGateway, Gateway, TrimSpace
      <4> QED
        BY <1>1, <2>3, <4>1, <4>3, <4>4
    <3> QED
      BY <1>4, <3>1, <3>2
  <2> QED
    BY <2>2, <2>3
<1>9. CASE StatusLease
  <2>1. cmd' = Ended(IF world.leases[file.run] = "malformed" THEN "exit2" ELSE "exit0")
    BY <1>1, <1>9 DEF StatusLease
  <2>2. StatusAgrees
    <3> SUFFICES ASSUME success # Never, success.name = "attach" PROVE cmd'.at = "exit0"
      BY DEF StatusAgrees, StatusAfterAttach
    <3>1. cmd' = Ended("exit0")
      BY <1>6, <2>1
    <3> QED
      BY <3>1 DEF Ended
  <2> QED
    BY <1>4, <2>1, <2>2
<1> QED
  BY <1>7, <1>8, <1>9 DEF StatusStep

----------------------------------------------------------------------------
(* attach, and changes. *)

LEMMA ReadInforms ==
  ASSUME Ind, NEW p \in Procs, Informed(p), machine' = machine,
         at'[p] \in Exits \/ cmd' = cmd,
         NEW here \in Reads \ {"endpoints"},
         NEW next \in {"settings", "worktrees", "root", "status", "lease", "stat"},
         NEW codes \in {Local, Remote}, NEW check, NEW c,
         Read(p, here, next, codes, check, c), c.endpoints = m[p].endpoints,
         next = "stat" /\ check => world.leases[spec[p].run] \in {"FREE", "OWNED"}
  PROVE  /\ UNCHANGED <<world, changes, file>> /\ at'[p] # "exit0"
         /\ at'[p] \notin Exits => Informed(p)'
<1>1. ASSUME NEW code \in {"exit2", "exit3"}, Exit(p, code)
      PROVE  UNCHANGED <<world, changes, file>> /\ at'[p] = code /\ code \in Exits
  BY <1>1 DEF Exit, Goto, envVars, Exits, Ind, TypeOK
<1>2. CASE check /\ Goto(p, next) /\ Collect(p, c) /\ UNCHANGED <<envVars, file, spec, began, out>>
  <2>1. /\ UNCHANGED <<world, changes, file, spec>> /\ at'[p] = next /\ m'[p] = c
        /\ at[p] = here
    BY <1>2 DEF Goto, Collect, envVars, Ind, TypeOK, Read
  <2>2. next \notin Exits /\ next \notin {"rename", "readback", "session"} /\ here # "endpoints"
    BY DEF Exits, Reads
  <2>3. cmd' = cmd
    BY <2>1, <2>2
  <2>4. changes = cmd.began => Answers(m[p].endpoints, cmd.input)
    BY <2>1, <2>2 DEF Informed
  <2>5. changes = cmd.began => Answers(m[p].endpoints, cmd.input)'
    <3> SUFFICES ASSUME changes = cmd.began PROVE Answers(m[p].endpoints, cmd.input)'
      OBVIOUS
    <3>1. m'[p].endpoints = m[p].endpoints
      BY <2>1
    <3> QED
      BY <2>1, <2>3, <2>4, <3>1, SameMachine DEF Answers, Gateway
  <2>6. next \in Writes => next = "stat"
    BY DEF Writes
  <2>7. Informed(p)'
    BY <1>2, <2>1, <2>2, <2>3, <2>5, <2>6 DEF Informed
  <2> QED
    BY <2>1, <2>2, <2>7 DEF Exits
<1>3. \/ check /\ Goto(p, next) /\ Collect(p, c) /\ UNCHANGED <<envVars, file, spec, began, out>>
      \/ \E code \in {"exit2", "exit3"} : Exit(p, code)
  BY DEF Read, Local, Remote
<1> QED
  BY <1>1, <1>2, <1>3

LEMMA RestInforms ==
  ASSUME Ind, NEW p \in Procs, Informed(p), machine' = machine,
         at'[p] \in Exits \/ cmd' = cmd, Rest(p)
  PROVE  /\ UNCHANGED <<world, changes>> /\ (file' = file \/ file = NoFile)
         /\ at'[p] \notin Exits => Informed(p)'
         /\ at'[p] = "exit0" => at[p] = "readback" /\ file' = file
<1>1. ASSUME at[p] \in Reads PROVE m[p] \in Manifests
  BY <1>1, Holding DEF Collects
<1>2. CASE ReadSession(p)
  <2> DEFINE s == world.session[m[p].session]
             c == [m[p] EXCEPT !.branch = s.branch, !.model = s.model]
  <2>1. /\ \E check : Read(p, "session", "settings", Remote, check, c)
        /\ at[p] = "session"
    BY <1>2 DEF ReadSession, Read
  <2>2. c.endpoints = m[p].endpoints
    BY <1>1, <2>1 DEF Manifests, Reads
  <2> HIDE DEF c
  <2> QED
    BY <2>1, <2>2, ReadInforms DEF Reads
<1>3. CASE ReadSettings(p)
  <2> DEFINE c == [m[p] EXCEPT !.effort = world.settings[m[p].session].effort]
  <2>1. /\ \E check : Read(p, "settings", "worktrees", Remote, check, c)
        /\ at[p] = "settings"
    BY <1>3 DEF ReadSettings, Read
  <2>2. c.endpoints = m[p].endpoints
    BY <1>1, <2>1 DEF Manifests, Reads
  <2> HIDE DEF c
  <2> QED
    BY <2>1, <2>2, ReadInforms DEF Reads
<1>4. CASE ReadWorktrees(p)
  <2> DEFINE c == [m[p] EXCEPT !.head = world.trees["workspace"].head]
  <2>1. /\ \E check : Read(p, "worktrees", "root", Local, check, c)
        /\ at[p] = "worktrees"
    BY <1>4 DEF ReadWorktrees, Read
  <2>2. c.endpoints = m[p].endpoints
    BY <1>1, <2>1 DEF Manifests, Reads
  <2> HIDE DEF c
  <2> QED
    BY <2>1, <2>2, ReadInforms DEF Reads
<1>5. CASE CheckRoot(p)
  BY <1>5, ReadInforms DEF CheckRoot, Reads
<1>6. CASE CheckStatus(p)
  <2> DEFINE s == Porcelain(spec[p].run)
             c == [m[p] EXCEPT !.clean = (s = {}), !.porcelain = s]
  <2>1. /\ \E check : Read(p, "status", "lease", Local, check, c)
        /\ at[p] = "status"
    BY <1>6 DEF CheckStatus, Read
  <2>2. c.endpoints = m[p].endpoints
    BY <1>1, <2>1 DEF Manifests, Reads
  <2> HIDE DEF c
  <2> QED
    BY <2>1, <2>2, ReadInforms DEF Reads
<1>7. CASE InspectLease(p)
  <2> DEFINE l == world.leases[spec[p].run]
             c == [m[p] EXCEPT !.lease = l]
  <2>1. /\ Read(p, "lease", "stat", Local, l \in {"FREE", "OWNED"}, c)
        /\ at[p] = "lease"
    BY <1>7 DEF InspectLease, Read
  <2>2. c.endpoints = m[p].endpoints
    BY <1>1, <2>1 DEF Manifests, Reads
  <2> HIDE DEF c
  <2> QED
    BY <2>1, <2>2, ReadInforms DEF Reads
<1>8. ASSUME Exit(p, "exit2")
      PROVE  UNCHANGED <<world, changes, file>> /\ at'[p] = "exit2" /\ "exit2" \in Exits
  BY <1>8 DEF Exit, Goto, envVars, Ind, TypeOK, Exits
<1>9. ASSUME at[p] \in Writes, NEW label \in Writes, Goto(p, label), m' = m, spec' = spec,
             UNCHANGED <<world, changes>>,
             label = "rename" => file' = NoFile,
             label = "readback" => Bound(file, m[p])'
      PROVE  Informed(p)'
  <2>1. at'[p] = label /\ label \notin Exits /\ cmd' = cmd
    BY <1>9 DEF Goto, Ind, TypeOK, Writes, Exits
  <2>2. at[p] # "endpoints" /\ label # "session"
    BY <1>9 DEF Writes
  <2>3. changes = cmd.began => Answers(m[p].endpoints, cmd.input)'
    BY <1>9, <2>1, <2>2, SameMachine DEF Informed, Answers, Gateway
  <2> QED
    BY <1>9, <2>1, <2>2, <2>3 DEF Informed
<1>10. CASE Stat(p)
  <2>1. \/ /\ Goto(p, IF file = NoFile THEN "rename" ELSE "compare")
           /\ UNCHANGED <<world, changes, file, spec, m>>
        \/ Exit(p, "exit2")
    BY <1>10 DEF Stat, envVars
  <2>2. at[p] \in Writes
    BY <1>10 DEF Stat, Writes
  <2>3. CASE Goto(p, IF file = NoFile THEN "rename" ELSE "compare")
             /\ UNCHANGED <<world, changes, file, spec, m>>
    <3>1. at'[p] # "exit0"
      BY <2>3 DEF Goto, Ind, TypeOK
    <3> QED
      BY <1>9, <2>2, <2>3, <3>1 DEF Writes
  <2> QED
    BY <1>8, <2>1, <2>3
<1>11. CASE Compare(p)
  <2>1. \/ /\ Goto(p, "readback") /\ Bound(file, m[p])
           /\ UNCHANGED <<world, changes, file, spec, m>>
        \/ Exit(p, "exit2")
    BY <1>11 DEF Compare, envVars
  <2>2. at[p] \in Writes
    BY <1>11 DEF Compare, Writes
  <2>3. CASE /\ Goto(p, "readback") /\ Bound(file, m[p])
             /\ UNCHANGED <<world, changes, file, spec, m>>
    <3>1. at'[p] # "exit0" /\ Bound(file, m[p])'
      BY <2>3 DEF Goto, Ind, TypeOK, Bound, Readable
    <3> QED
      BY <1>9, <2>2, <2>3, <3>1 DEF Writes
  <2> QED
    BY <1>8, <2>1, <2>3
<1>12. CASE Rename(p)
  <2>1. at[p] = "rename" /\ file = NoFile
    BY <1>12 DEF Rename, Informed
  <2>2. \/ file' = m[p] /\ Goto(p, "readback") /\ UNCHANGED <<world, changes, spec, m>>
        \/ Goto(p, "compare") /\ UNCHANGED <<world, changes, file, spec, m>>
        \/ Exit(p, "exit2")
    BY <1>12 DEF Rename, envVars
  <2>3. CASE file' = m[p] /\ Goto(p, "readback") /\ UNCHANGED <<world, changes, spec, m>>
    <3>1. m[p] \in Manifests /\ Accepts(m[p])
      BY <2>1, RenameWrites DEF WrittenFor
    <3>2. at'[p] # "exit0" /\ Bound(file, m[p])'
      BY <2>3, <3>1 DEF Goto, Ind, TypeOK, Bound, Readable, Matches
    <3> QED
      BY <1>9, <2>1, <2>3, <3>2 DEF Writes
  <2>4. CASE Goto(p, "compare") /\ UNCHANGED <<world, changes, file, spec, m>>
    <3>1. at'[p] # "exit0"
      BY <2>4 DEF Goto, Ind, TypeOK
    <3> QED
      BY <1>9, <2>1, <2>4, <3>1 DEF Writes
  <2> QED
    BY <1>8, <2>1, <2>2, <2>3, <2>4
<1>13. CASE Readback(p)
  BY <1>13 DEF Readback, Goto, envVars, Ind, TypeOK, Exits
<1> QED
  BY <1>2, <1>3, <1>4, <1>5, <1>6, <1>7, <1>10, <1>11, <1>12, <1>13 DEF Rest

\* attach p goes on, or ends.
LEMMA AttachGoesAtTerminal ==
  ASSUME ControlInv, TerminalInv, NEW p \in Procs, Busy(p), OthersStay(p),
         cmd' = IF at'[p] \in Exits THEN Ended(at'[p]) ELSE cmd, Remember(at'[p]),
         UNCHANGED <<machine, world, changes>>, file' = file \/ file = NoFile,
         at'[p] \notin Exits => Informed(p)',
         look'.at = "found" => at'[p] \notin Exits /\ FoundOK',
         at'[p] = "exit0" /\ changes = cmd.began => Confirmed(cmd.input) /\ file' = file
  PROVE  TerminalInv'
<1>1. cmd.name = "attach" /\ (\A q \in Procs : Busy(q)' => q = p)
  BY DEF ControlInv, OneCommand, Busy, OthersStay
<1>2. CASE at'[p] = "exit0" /\ changes = cmd.began
  <2>1. cmd' = Ended("exit0") /\ ~Busy(p)'
    BY <1>2 DEF Exits, Busy
  <2>2. success' = [name |-> cmd.name, raw |-> cmd.raw, input |-> cmd.input]
    BY <1>2 DEF Remember
  <2>3. success'.name = "attach" /\ success'.input = cmd.input
    BY <1>1, <2>2
  <2>4. SuccessOK'
    <3>1. Confirmed(success.input)'
      BY <1>2, <2>3, SameMachine DEF Confirmed, Answers, Gateway, Readable
    <3> QED
      BY <2>3, <3>1 DEF SuccessOK
  <2> QED
    BY <1>1, <2>1, <2>4, TerminalEnds DEF Busy
<1>3. CASE ~(at'[p] = "exit0" /\ changes = cmd.began)
  <2>1. success' = success
    BY <1>3 DEF Remember
  <2>2. SuccessOK'
    BY <2>1, SuccessStands DEF TerminalInv
  <2>3. CASE at'[p] \in Exits
    BY <1>1, <2>2, <2>3, TerminalEnds DEF Busy
  <2>4. CASE at'[p] \notin Exits
    BY <1>1, <2>1, <2>2, <2>4
    DEF TerminalInv, FoundOK, DoctorOK, StatusOK, Since
  <2> QED
    BY <2>3, <2>4
<1> QED
  BY <1>2, <1>3

LEMMA AttachAtTerminal ==
  ASSUME ControlInv, LookingInv, TerminalInv, NEW p \in Procs, AttachStep(p)
  PROVE  TerminalInv'
<1>1. /\ Busy(p) /\ cmd.name = "attach" /\ Informed(p) /\ Ind /\ LookOK
      /\ cmd \in Commands /\ cmd.input \in Inputs
      /\ look.at # "idle" <=> at[p] = "endpoints"
      /\ cmd' = IF at'[p] \in Exits THEN Ended(at'[p]) ELSE cmd
      /\ Remember(at'[p]) /\ machine' = machine
  BY ControlInstance
  DEF AttachStep, Busy, ControlInv, OneCommand, CommandOK, Commands, TerminalInv
<1>2. ASSUME NEW code \in Remote, Exit(p, code)
      PROVE  /\ OthersStay(p) /\ UNCHANGED <<world, changes, file>>
             /\ at'[p] \in Exits /\ at'[p] # "exit0"
  BY <1>1, <1>2 DEF Exit, Goto, envVars, OthersStay, Ind, TypeOK, Exits, Remote
<1>3. ASSUME NEW code \in Remote, Exit(p, code), look'.at # "found" PROVE TerminalInv'
  <2>1. /\ OthersStay(p) /\ UNCHANGED <<machine, world, changes>> /\ file' = file
        /\ at'[p] \in Exits /\ at'[p] # "exit0" /\ Busy(p)
        /\ cmd' = IF at'[p] \in Exits THEN Ended(at'[p]) ELSE cmd
        /\ Remember(at'[p])
    BY <1>1, <1>2, <1>3
  <2> QED
    BY <1>3, <2>1, AttachGoesAtTerminal
<1>4. CASE AttachDiscovers(p)
  <2>1. Looks /\ at[p] = "endpoints" /\ ResolveAO(cmd.input)
    BY <1>1, <1>4, Looked DEF AttachDiscovers
  <2>2. CASE look'.at = "failed"
    BY <1>3, <1>4, <2>1, <2>2 DEF AttachDiscovers, Looks
  <2>3. CASE look'.at # "failed"
    <3>1. UNCHANGED <<world, changes, file, at, spec, m>> /\ cmd' = cmd
      BY <1>1, <1>4, <2>3 DEF AttachDiscovers, vars, envVars, procVars, Busy
    <3>2. Informed(p)' /\ OthersStay(p) /\ at'[p] \notin Exits
      BY <1>1, <2>1, <3>1, SameMachine DEF Informed, OthersStay, Writes, Exits
    <3>3. ASSUME look'.at = "found" PROVE FoundOK'
      <4>1. ASSUME changes = cmd.began PROVE FoundRight(cmd.input)'
        <5>1. OnTheWay(cmd.input)
          BY <4>1 DEF LookingInv
        <5>2. /\ Expected(cmd.input) = "found"
              /\ cmd.input.flag # "unset" =>
                   /\ cmd.input.flag \in Ports
                   /\ \A d \in look'.found : d.host = machine.serves[cmd.input.flag]
          BY <1>1, <2>1, <3>3, <5>1, FindsRight
        <5> QED
          BY <1>1, <3>1, <5>2, SameMachine DEF FoundRight
      <4> QED
        BY <1>1, <3>1, <4>1 DEF FoundOK
    <3>4. at'[p] # "exit0"
      BY <3>2 DEF Exits
    <3> QED
      BY <1>1, <3>1, <3>2, <3>3, <3>4, AttachGoesAtTerminal
  <2> QED
    BY <2>2, <2>3
<1>5. CASE AttachGateway(p)
  <2>1. at[p] = "endpoints" /\ look.at = "found" /\ look'.at = "idle"
    BY <1>1, <1>5 DEF AttachGateway, NotLooking
  <2>2. CASE ProbeGateway(cmd.input) = "up"
    <3>1. PICK d \in look.found :
            Read(p, "endpoints", "session", {}, world.catalog # {},
                 Located(p, [port |-> d.port, host |-> d.host, gateway |-> Gateway(cmd.input)],
                         look.source # "url"))
      BY <1>5, <2>2 DEF AttachGateway
    <3> DEFINE e == [port |-> d.port, host |-> d.host, gateway |-> Gateway(cmd.input)]
               c == Located(p, e, look.source # "url")
    <3>2. m[p] \in Manifests
      BY <1>1, <2>1, Holding DEF Collects, Reads
    <3>3. c.endpoints = e /\ c.catalog = world.catalog
      BY <3>2 DEF Located, Manifests
    <3>4. e.host = d.host /\ e.gateway = Gateway(cmd.input)
      OBVIOUS
    <3> HIDE DEF c, e
    <3>5. CASE world.catalog # {} /\ Goto(p, "session") /\ Collect(p, c)
               /\ UNCHANGED <<envVars, file, spec, began, out>>
      <4>1. /\ UNCHANGED <<world, changes, file, spec>> /\ at'[p] = "session" /\ m'[p] = c
            /\ OthersStay(p)
        BY <1>1, <3>5 DEF Goto, Collect, envVars, OthersStay, Ind, TypeOK
      <4>2. at'[p] \notin Exits /\ cmd' = cmd
        BY <1>1, <4>1 DEF Exits
      <4>3. changes = cmd.began => Answers(e, cmd.input)
        BY <1>1, <2>1, <2>2, <3>4, <3>5 DEF TerminalInv, FoundOK, FoundRight, Answers
      <4>4. changes = cmd.began => Answers(m[p].endpoints, cmd.input)'
        <5> SUFFICES ASSUME changes = cmd.began PROVE Answers(m[p].endpoints, cmd.input)'
          OBVIOUS
        <5>1. m'[p].endpoints = e /\ Answers(e, cmd.input)
          BY <3>3, <4>1, <4>3
        <5> QED
          BY <1>1, <4>1, <4>2, <5>1, SameMachine DEF Answers, Gateway
      <4>5. Informed(p)'
        BY <1>1, <3>3, <4>1, <4>2, <4>4 DEF Informed, Writes
      <4> QED
        BY <1>1, <2>1, <4>1, <4>2, <4>5, AttachGoesAtTerminal
    <3>6. CASE Exit(p, "exit2")
      BY <1>3, <2>1, <3>6 DEF Remote
    <3> QED
      BY <3>1, <3>5, <3>6 DEF Read, c, e
  <2>3. CASE ProbeGateway(cmd.input) # "up"
    <3>1. PICK code \in Remote : Exit(p, code)
      BY <1>1, <1>5, <2>3, GatewayIs DEF AttachGateway
    <3> QED
      BY <1>3, <2>1, <3>1
  <2> QED
    BY <2>2, <2>3
<1>6. CASE AttachGoesOn(p)
  <2>1. Rest(p) /\ look' = look
    BY <1>6 DEF AttachGoesOn, Rest
  <2>2. OthersStay(p) /\ look.at = "idle"
    BY <1>1, <2>1, RestKeepsInd
  <2>3. /\ UNCHANGED <<world, changes>> /\ (file' = file \/ file = NoFile)
        /\ at'[p] \notin Exits => Informed(p)'
        /\ at'[p] = "exit0" => at[p] = "readback" /\ file' = file
    BY <1>1, <2>1, RestInforms
  <2>4. ASSUME at'[p] = "exit0", changes = cmd.began
        PROVE  Confirmed(cmd.input) /\ file' = file
    <3>1. /\ at[p] = "readback" /\ file' = file /\ at[p] \in Writes /\ at[p] # "endpoints"
          /\ cmd.input \in Tried
      BY <1>1, <2>3, <2>4 DEF Writes, Commands
    <3>2. /\ Bound(file, m[p]) /\ Answers(m[p].endpoints, cmd.input)
          /\ world.leases[spec[p].run] \in {"FREE", "OWNED"}
      BY <1>1, <2>4, <3>1 DEF Informed
    <3>3. m[p].run = spec[p].run
      BY <1>1, <3>1, WritesWritten DEF WrittenFor, Collects
    <3>4. Readable(file) /\ file.endpoints = m[p].endpoints /\ file.run = spec[p].run
      BY <3>2, <3>3 DEF Bound, Matches
    <3> QED
      BY <3>1, <3>2, <3>4 DEF Confirmed
  <2> QED
    BY <1>1, <2>1, <2>2, <2>3, <2>4, AttachGoesAtTerminal
<1> QED
  BY <1>4, <1>5, <1>6 DEF AttachStep

LEMMA BeginAttachAtTerminal ==
  ASSUME ControlInv, TerminalInv, NEW p \in Procs, BeginAttach(p)
  PROVE  TerminalInv'
<1>1. PICK raw \in RawSpecs, input \in Tried :
        \/ /\ Begin(p) /\ spec'[p] = Parse(raw)
           /\ Enter("attach", "attach", raw, input) /\ StartLooking
        \/ cmd' = Ended("exit2") /\ UNCHANGED <<vars, look>>
  BY DEF BeginAttach
<1>2. AtPrompt /\ UNCHANGED <<machine, success>> /\ (\A q \in Procs : ~Busy(q))
  BY Idle DEF BeginAttach
<1>3. look.at # "found"
  BY <1>2 DEF TerminalInv, FoundOK, AtPrompt, Exits, ControlInv, OneCommand
<1>4. UNCHANGED <<world, file, changes>>
  BY <1>1 DEF Begin, vars, envVars
<1>5. SuccessOK'
  BY <1>2, <1>4, SuccessStands DEF TerminalInv
<1>6. CASE cmd' = Ended("exit2") /\ UNCHANGED <<vars, look>>
  <2>1. \A q \in Procs : ~Busy(q)'
    BY <1>2, <1>6 DEF Busy, vars, procVars
  <2> QED
    BY <1>3, <1>5, <1>6, <2>1, TerminalEnds
<1>7. CASE /\ Begin(p) /\ spec'[p] = Parse(raw)
           /\ Enter("attach", "attach", raw, input) /\ StartLooking
  <2>1. at'[p] = "endpoints" /\ OthersStay(p)
    BY <1>7 DEF Begin, Goto, OthersStay, ControlInv, Ind, TypeOK
  <2>2. /\ cmd'.name = "attach" /\ cmd'.raw = raw /\ cmd'.began = changes
        /\ look'.at = "choose"
    BY <1>7 DEF Enter, Ended, StartLooking, NotLooking
  <2>3. \A q \in Procs : Busy(q)' => q = p
    BY <1>2, <2>1 DEF Busy, OthersStay
  <2>4. Informed(p)'
    BY <1>7, <2>1, <2>2 DEF Informed, Writes
  <2> QED
    BY <1>4, <1>5, <2>2, <2>3, <2>4 DEF TerminalInv, FoundOK, DoctorOK, StatusOK, Since
<1> QED
  BY <1>1, <1>6, <1>7

LEMMA ChangesAtTerminal ==
  ASSUME ControlInv, LookingInv, TerminalInv, SomethingChanges
  PROVE  TerminalInv'
<1>1. /\ changes' = changes + 1 /\ UNCHANGED <<cmd, look, file, at, spec, m>> /\ success' = Never
  BY DEF SomethingChanges, WorldChanges, procVars
<1>2. changes' # cmd'.began
  <2>1. changes \in Nat /\ cmd.began \in Nat /\ cmd.began <= changes
    BY AttachSwitches DEF ControlInv, Ind, TypeOK, CommandOK, Commands, LookingInv
  <2> QED
    BY <1>1, <2>1
<1>3. \A p \in Procs : Busy(p)' => Informed(p)'
  <2> SUFFICES ASSUME NEW p \in Procs, Busy(p)' PROVE Informed(p)'
    OBVIOUS
  <2>1. Informed(p)
    BY <1>1 DEF TerminalInv, Busy
  <2> QED
    BY <1>1, <1>2, <2>1 DEF Informed, Bound, Readable
<1> QED
  BY <1>1, <1>2, <1>3
  DEF TerminalInv, FoundOK, DoctorOK, StatusOK, SuccessOK, Since, Readable

LEMMA TerminalInit == ControlInit => TerminalInv
<1> SUFFICES ASSUME ControlInit PROVE TerminalInv
  OBVIOUS
<1>1. cmd.name = "none" /\ look.at = "idle" /\ success = Never
  BY DEF ControlInit, Ended, NotLooking
<1>2. \A p \in Procs : ~Busy(p)
  BY DEF ControlInit, Init, Busy, Exits
<1> QED
  BY <1>1, <1>2 DEF TerminalInv, FoundOK, DoctorOK, StatusOK, SuccessOK, Since


LEMMA TerminalStep ==
  ASSUME ControlInv, LookingInv, TerminalInv, [ControlNext]_allVars
  PROVE  TerminalInv' /\ StatusAgrees
<1>1. CASE UNCHANGED allVars
  <2>1. UNCHANGED <<cmd, look, machine, success, world, changes, file, at, spec, m>>
    BY <1>1 DEF allVars, controlVars, vars, envVars, procVars
  <2>2. SuccessOK'
    BY <2>1, SuccessStands DEF TerminalInv
  <2>3. ASSUME NEW p \in Procs, Informed(p) PROVE Informed(p)'
    BY <2>1, <2>3, SameMachine DEF Informed, Bound, Readable, Answers, Gateway
  <2>4. FoundOK' /\ DoctorOK'
    BY <2>1, SameMachine DEF TerminalInv, FoundOK, FoundRight, DoctorOK, Porcelain
  <2>5. TerminalInv'
    BY <2>1, <2>2, <2>3, <2>4 DEF TerminalInv, StatusOK, Since, Busy, Readable
  <2>6. cmd' = cmd
    BY <2>1
  <2> QED
    BY <2>5, <2>6 DEF StatusAgrees, StatusAfterAttach
<1>2. ASSUME cmd.at \in Exits PROVE StatusAgrees
  BY <1>2 DEF StatusAgrees, StatusAfterAttach, TerminalInv, StatusOK, Exits
<1>3. CASE BeginDoctor \/ BeginStatus
  <2>1. cmd.at \in Exits
    BY <1>3 DEF BeginDoctor, BeginStatus, AtPrompt
  <2> QED
    BY <1>2, <1>3, <2>1, BeginsAtTerminal
<1>4. CASE DoctorStep
  BY <1>4, DoctorAtTerminal DEF DoctorStep, StatusAgrees, StatusAfterAttach
<1>5. CASE StatusStep
  BY <1>5, StatusAtTerminal
<1>6. CASE SomethingChanges
  <2>1. cmd' = cmd
    BY <1>6 DEF SomethingChanges
  <2> QED
    BY <1>6, <2>1, ChangesAtTerminal DEF StatusAgrees, StatusAfterAttach
<1>7. ASSUME NEW p \in Procs, BeginAttach(p) PROVE TerminalInv' /\ StatusAgrees
  BY <1>2, <1>7, BeginAttachAtTerminal DEF BeginAttach, AtPrompt
<1>8. ASSUME NEW p \in Procs, AttachStep(p) PROVE TerminalInv' /\ StatusAgrees
  BY <1>8, AttachAtTerminal DEF AttachStep, StatusAgrees, StatusAfterAttach
<1> QED
  BY <1>1, <1>3, <1>4, <1>5, <1>6, <1>7, <1>8 DEF ControlNext

----------------------------------------------------------------------------
(* Over every behaviour. *)

LEMMA TerminalAlways == ControlSpec => [](LookingInv /\ TerminalInv)
<1>1. ControlInv /\ LookingInv /\ [ControlNext]_allVars => LookingInv'
  BY LookingAlways
<1>2. ControlInv /\ LookingInv /\ TerminalInv /\ [ControlNext]_allVars => TerminalInv'
  BY TerminalStep
<1> QED
  BY <1>1, <1>2, LookingInit, TerminalInit, ControlInvAlways, PTL DEF ControlSpec

\* StatusAgreesOnPlainUrls: after an attach that succeeded, and while nothing changes, status
\* accepts the URLs that attach was given, the gateway's without the blanks around it, or
\* none (RunAttach, RunStatus).  With the blanks it need not: see the run MCControl_blanks.
THEOREM StatusConfirms == ControlSpec => StatusAgreesOnPlainUrls
<1> DEFINE Agrees ==
      /\ StatusAfterAttach
      /\ cmd.input.gateway.text \in {"", success.input.gateway.text}
      /\ ~cmd.input.gateway.blanks
      => cmd'.at = "exit0"
<1>1. ControlInv /\ LookingInv /\ TerminalInv /\ [ControlNext]_allVars => [Agrees]_allVars
  BY TerminalStep DEF StatusAgrees
<1> QED
  BY <1>1, ControlInvAlways, TerminalAlways, PTL DEF ControlSpec, StatusAgreesOnPlainUrls

----------------------------------------------------------------------------
(* doctor, and the attach after it. *)

\* DoctorPredictsAttach, of one step and one attach.
Predicted(p) ==
  /\ cmd.name = "attach"
  /\ success = [name |-> "doctor", raw |-> cmd.raw, input |-> cmd.input]
  /\ Leaves(p, "exit2") \/ Leaves(p, "exit3")
  => /\ at[p] \notin {"endpoints", "root", "status"}
     /\ at[p] = "session" =>
          LET session == world.session[m[p].session]
          IN ~session.live \/ session.model # spec[p].model

\* Only the step of the attach itself can end it.
LEMMA OnlyItsStep ==
  ASSUME ControlInv, [ControlNext]_allVars, NEW p \in Procs, Busy(p), ~Busy(p)'
  PROVE  AttachStep(p)
<1>1. /\ cmd.name = "attach" /\ cmd.at \notin Exits
      /\ \A q \in Procs : Busy(q) => q = p
  BY DEF ControlInv, OneCommand, Exits
<1>2. at' # at
  BY DEF Busy
<1>3. ~UNCHANGED allVars /\ ~SomethingChanges
  BY <1>2 DEF allVars, vars, procVars, SomethingChanges, WorldChanges
<1>4. ~BeginDoctor /\ ~BeginStatus /\ (\A q \in Procs : ~BeginAttach(q))
  BY <1>1 DEF BeginDoctor, BeginStatus, BeginAttach, AtPrompt
<1>5. ~DoctorStep /\ ~StatusStep
  BY <1>1 DEF DoctorStep, StatusStep
<1>6. \A q \in Procs : AttachStep(q) => q = p
  BY <1>1 DEF AttachStep, Busy
<1> QED
  BY <1>3, <1>4, <1>5, <1>6 DEF ControlNext

LEMMA PredictedStep ==
  ASSUME Faulty = FALSE, ControlInv, LookingInv, TerminalInv, [ControlNext]_allVars,
         NEW p \in Procs
  PROVE  Predicted(p)
<1> SUFFICES ASSUME success = [name |-> "doctor", raw |-> cmd.raw, input |-> cmd.input],
                    cmd.name = "attach", Busy(p), at'[p] \in {"exit2", "exit3"}
             PROVE  /\ at[p] \notin {"endpoints", "root", "status"}
                    /\ at[p] = "session" =>
                         LET session == world.session[m[p].session]
                         IN ~session.live \/ session.model # spec[p].model
  BY DEF Predicted, Leaves, Busy
<1>1. AttachStep(p)
  BY OnlyItsStep DEF Busy, Exits
<1>2. Ind /\ LookOK /\ cmd.raw \in RawSpecs /\ cmd.input \in Tried /\ cmd.input \in Inputs
  BY ControlInstance DEF ControlInv, CommandOK, Commands
<1>3. success # Never /\ success.name = "doctor" /\ success.raw = cmd.raw
      /\ success.input = cmd.input
  <2>1. success \in Successes
    BY <1>2 DEF Successes
  <2> QED
    BY <2>1, ControlInstance
<1>4. changes = cmd.began /\ Passed(cmd.raw, cmd.input) /\ Informed(p)
  BY <1>3 DEF TerminalInv, Since, SuccessOK
<1>5. at[p] # at'[p] /\ at[p] \notin Exits
  BY DEF Busy, Exits
<1>6. ASSUME NEW here, NEW next \in {"session", "settings", "status", "lease"}, NEW codes,
             NEW check, NEW c, Read(p, here, next, codes, check, c), check
      PROVE  FALSE
  <2>1. at'[p] = next
    BY <1>2, <1>6 DEF Read, Goto, Ind, TypeOK
  <2> QED
    BY <1>6, <2>1
<1>7. ~AttachDiscovers(p)
  <2> SUFFICES ASSUME AttachDiscovers(p) PROVE FALSE
    OBVIOUS
  <2>1. look'.at = "failed"
    BY <1>5 DEF AttachDiscovers, vars, procVars
  <2>2. ResolveAO(cmd.input) /\ OnTheWay(cmd.input) /\ machine' = machine
    BY <1>1, <1>4 DEF AttachDiscovers, AttachStep, LookingInv
  <2>3. look'.code = Expected(cmd.input)
    BY <1>2, <1>4, <2>1, <2>2, ResolveDecides DEF Passed, Decided, Over, Outcome
  <2>4. look'.code \in Remote
    BY <1>2, <2>1, <2>2, Looked DEF Looks
  <2> QED
    BY <1>4, <2>3, <2>4 DEF Passed, Remote
<1>8. ~AttachGateway(p)
  <2> SUFFICES ASSUME AttachGateway(p) PROVE FALSE
    OBVIOUS
  <2>1. ProbeGateway(cmd.input) = "up" /\ world.catalog # {}
    BY <1>4 DEF Passed
  <2>2. \E d \in look.found :
          Read(p, "endpoints", "session", {}, world.catalog # {},
               Located(p, [port |-> d.port, host |-> d.host, gateway |-> Gateway(cmd.input)],
                       look.source # "url"))
    BY <2>1 DEF AttachGateway
  <2> QED
    BY <1>6, <2>1, <2>2
<1>9. Rest(p) /\ at[p] # "endpoints"
  BY <1>1, <1>2, <1>7, <1>8, RestKeepsInd DEF AttachStep, AttachGoesOn, Rest
<1>10. at[p] # "root"
  <2> SUFFICES ASSUME at[p] = "root" PROVE FALSE
    OBVIOUS
  <2>1. Read(p, "root", "status", Local, world.rootClean, m[p])
    BY <1>9
    DEF Rest, ReadSession, ReadSettings, ReadWorktrees, CheckRoot, CheckStatus, InspectLease,
        Stat, Compare, Rename, Readback, Read
  <2> QED
    BY <1>4, <1>6, <2>1 DEF Passed
<1>11. at[p] # "status"
  <2> SUFFICES ASSUME at[p] = "status" PROVE FALSE
    OBVIOUS
  <2> DEFINE s == Porcelain(spec[p].run)
  <2>1. Read(p, "status", "lease", Local, spec[p].policy = "require_clean" => s = {},
             [m[p] EXCEPT !.clean = (s = {}), !.porcelain = s])
    BY <1>9
    DEF Rest, ReadSession, ReadSettings, ReadWorktrees, CheckRoot, CheckStatus, InspectLease,
        Stat, Compare, Rename, Readback, Read
  <2>2. spec[p].policy = DirtyPolicy(cmd.raw.policy) /\ spec[p].run = cmd.raw.run
    BY <1>4 DEF Informed, Parse
  <2>3. spec[p].policy = "require_clean" => s = {}
    BY <1>4, <2>2 DEF Passed
  <2> HIDE DEF s
  <2> QED
    BY <1>6, <2>1, <2>3
<1>12. ASSUME at[p] = "session", world.session[m[p].session].live,
              world.session[m[p].session].model = spec[p].model
       PROVE  FALSE
  <2> DEFINE s == world.session[m[p].session]
  <2>1. Read(p, "session", "settings", Remote,
             s.live /\ s.model \in m[p].catalog /\ s.model = spec[p].model,
             [m[p] EXCEPT !.branch = s.branch, !.model = s.model])
    BY <1>9, <1>12
    DEF Rest, ReadSession, ReadSettings, ReadWorktrees, CheckRoot, CheckStatus, InspectLease,
        Stat, Compare, Rename, Readback, Read
  <2>2. spec[p].model = cmd.raw.model /\ m[p].catalog = world.catalog
    BY <1>4, <1>12 DEF Informed, Parse
  <2>3. s.live /\ s.model \in m[p].catalog /\ s.model = spec[p].model
    BY <1>4, <1>12, <2>2 DEF Passed
  <2> HIDE DEF s
  <2> QED
    BY <1>6, <2>1, <2>3
<1> QED
  BY <1>9, <1>10, <1>11, <1>12

\* DoctorPredictsAttach, when no command of git and no request fails: after a doctor that
\* passed, and while nothing changes, attach with the same file and flags is not refused
\* for anything that doctor looks at (RunDoctor, RunAttach).
THEOREM DoctorIsBelieved ==
  ASSUME Faulty = FALSE
  PROVE  ControlSpec => DoctorPredictsAttach
<1> DEFINE All ==
      \A p \in Procs :
        /\ cmd.name = "attach"
        /\ success = [name |-> "doctor", raw |-> cmd.raw, input |-> cmd.input]
        /\ Leaves(p, "exit2") \/ Leaves(p, "exit3")
        => /\ at[p] \notin {"endpoints", "root", "status"}
           /\ at[p] = "session" =>
                LET session == world.session[m[p].session]
                IN ~session.live \/ session.model # spec[p].model
<1>1. ControlInv /\ LookingInv /\ TerminalInv /\ [ControlNext]_allVars => [All]_allVars
  <2> SUFFICES ASSUME ControlInv, LookingInv, TerminalInv, [ControlNext]_allVars PROVE All
    OBVIOUS
  <2>1. \A p \in Procs : Predicted(p)
    BY PredictedStep
  <2> QED
    BY <2>1 DEF Predicted
<1> QED
  BY <1>1, ControlInvAlways, TerminalAlways, PTL DEF ControlSpec, DoctorPredictsAttach

----------------------------------------------------------------------------
(* The manifest at one terminal. *)

\* What AttachStep does to the manifest file, and what it prints.
LEMMA AttachStepWrites ==
  ASSUME ControlInv, TerminalInv, NEW p \in Procs, AttachStep(p)
  PROVE  /\ file' = file \/ (file = NoFile /\ file' \in Manifests)
         /\ at'[p] = "exit0" => /\ Bound(file, m[p]) /\ m[p] \in Manifests
                               /\ out'[p] \in {file, m[p]}
<1>1. /\ Ind /\ Busy(p) /\ Informed(p) /\ machine' = machine
      /\ at'[p] \in Exits \/ cmd' = cmd
      /\ LookOK /\ cmd.input \in Inputs
  BY ControlInstance DEF AttachStep, ControlInv, TerminalInv, Busy, CommandOK, Commands
<1>2. ASSUME NEW code \in {"exit2", "exit3"}, Exit(p, code)
      PROVE  file' = file /\ at'[p] # "exit0"
  BY <1>1, <1>2 DEF Exit, Goto, Ind, TypeOK
<1>3. CASE AttachDiscovers(p)
  <2>1. Looks
    BY <1>1, <1>3, Looked DEF AttachDiscovers, ControlInv
  <2>2. UNCHANGED vars \/ \E code \in Remote : Exit(p, code)
    BY <1>3, <2>1 DEF AttachDiscovers, Looks
  <2> QED
    BY <1>1, <1>2, <2>2 DEF vars, procVars, Remote, Busy, Exits
<1>4. CASE AttachGateway(p)
  <2>1. ASSUME NEW check, NEW c, Read(p, "endpoints", "session", {}, check, c)
        PROVE  file' = file /\ at'[p] # "exit0"
    BY <1>1, <1>2, <2>1 DEF Read, Goto, Ind, TypeOK
  <2>2. ASSUME Exit(p, ProbeGateway(cmd.input)), ProbeGateway(cmd.input) # "up"
        PROVE  file' = file /\ at'[p] # "exit0"
    BY <1>1, <1>2, <2>2, GatewayIs DEF Remote
  <2> QED
    BY <1>4, <2>1, <2>2 DEF AttachGateway
<1>5. CASE Rest(p)
  <2>1. file' = file \/ (file = NoFile /\ file' \in Manifests)
    <3>1. Next
      BY <1>5 DEF Rest, Next, Attaching
    <3> QED
      BY <1>1, <1>5, <3>1, RestInforms, WrittenIsWhole
  <2>2. ASSUME at'[p] = "exit0"
        PROVE  /\ Bound(file, m[p]) /\ m[p] \in Manifests
               /\ out'[p] \in {file, m[p]}
    <3>1. at[p] = "readback"
      BY <1>1, <1>5, <2>2, RestInforms
    <3>2. Readback(p)
      BY <1>5, <3>1 DEF Rest, ReadSession, ReadSettings, ReadWorktrees, CheckRoot, CheckStatus,
         InspectLease, Read, Stat, Compare, Rename
    <3>3. Bound(file, m[p]) /\ m[p] \in Manifests
      BY <1>1, <3>1, Holding DEF Informed, Writes, Collects
    <3> QED
      BY <1>1, <3>2, <3>3 DEF Readback, Ind, TypeOK
  <2> QED
    BY <2>1, <2>2
<1> QED
  BY <1>3, <1>4, <1>5 DEF AttachStep, AttachGoesOn, Rest

\* With one command at a time, nobody writes the file between the look of an attach and
\* its rename, so what is on disk is never replaced.
LEMMA FileStands ==
  ASSUME ControlInv, TerminalInv, [ControlNext]_allVars
  PROVE  file' = file \/ (file = NoFile /\ file' \in Manifests)
<1>1. CASE UNCHANGED allVars
  BY <1>1 DEF allVars, vars
<1>2. CASE BeginDoctor \/ BeginStatus \/ DoctorStep \/ StatusStep
  BY <1>2 DEF BeginDoctor, BeginStatus, DoctorStep, StatusStep, vars
<1>3. CASE SomethingChanges
  BY <1>3 DEF SomethingChanges, WorldChanges
<1>4. ASSUME NEW p \in Procs, BeginAttach(p) PROVE file' = file
  BY <1>4 DEF BeginAttach, Begin, vars
<1> QED
  BY <1>1, <1>2, <1>3, <1>4, AttachStepWrites DEF ControlNext

\* FileIsAccepted: the file that the commands leave is one that the strict reader accepts.
THEOREM OperatorFileIsAccepted == ControlSpec => []FileIsAccepted
<1>1. ControlInv => FileIsAccepted
  BY DEF ControlInv, Ind, AttachInv, WrittenFor, FileIsAccepted
<1> QED
  BY <1>1, ControlInvAlways, PTL

\* BindingsStand: an operator who runs one command at a time never loses the bindings on
\* disk, for any specification files, sessions, policies and faults (WriteManifestAtomic);
\* it takes two attaches at once to overwrite them (MCAttach_overwrite).
THEOREM OperatorBindingsStand == ControlSpec => BindingsStand
<1>1. ControlInv /\ TerminalInv /\ [ControlNext]_allVars => [KeepsBindings]_vars
  BY FileStands DEF KeepsBindings
<1> QED
  BY <1>1, ControlInvAlways, TerminalAlways, PTL DEF ControlSpec, BindingsStand

\* AttachedIsOnDisk: with one command at a time, an attach that succeeds leaves on disk, and
\* prints, the bindings that it has verified, for any specification files (the readback of
\* RunAttach).
THEOREM OperatorManifestIsOnDisk == ControlSpec => AttachedIsOnDisk
<1> DEFINE OnDisk == \A p \in Procs : Leaves(p, "exit0") =>
             /\ file \in Manifests /\ Accepts(file) /\ Matches(file, m[p])
             /\ Matches(out'[p], m[p])
<1>1. ControlInv /\ TerminalInv /\ [ControlNext]_allVars => [OnDisk]_vars
  <2> SUFFICES ASSUME ControlInv, TerminalInv, [ControlNext]_allVars,
                      NEW p \in Procs, Leaves(p, "exit0")
               PROVE  /\ file \in Manifests /\ Accepts(file) /\ Matches(file, m[p])
                      /\ Matches(out'[p], m[p])
    OBVIOUS
  <2>1. Busy(p) /\ ~Busy(p)' /\ at'[p] = "exit0"
    BY DEF Leaves, Busy, Exits
  <2>2. AttachStep(p)
    BY <2>1, OnlyItsStep
  <2>3. Bound(file, m[p]) /\ m[p] \in Manifests /\ out'[p] \in {file, m[p]}
    BY <2>1, <2>2, AttachStepWrites
  <2>4. file \in Manifests /\ Accepts(file) /\ Matches(file, m[p])
    BY <2>3 DEF Bound, Readable
  <2>5. Matches(m[p], m[p])
    BY DEF Matches
  <2> QED
    BY <2>3, <2>4, <2>5
<1> QED
  BY <1>1, ControlInvAlways, TerminalAlways, PTL DEF ControlSpec, AttachedIsOnDisk
=============================================================================
