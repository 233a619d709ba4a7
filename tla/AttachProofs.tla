------------------------------ MODULE AttachProofs ------------------------------
(* Theorems about Attach, for any number of attaches, specifications and      *)
(* sessions, and any changes of the world.                                    *)
EXTENDS AttachProperties, TLAPS

Ind == TypeOK /\ AttachInv

\* Attach p goes on to a label with manifest c, or gives up.
Moves(p, label, c) ==
  Goto(p, label) /\ Collect(p, c) /\ UNCHANGED <<envVars, file, spec, began, out>>
GivesUp(p) == \E code \in Exits : Exit(p, code)

----------------------------------------------------------------------------
(* The two ways to leave a label. *)

\* Getting to a label with what that label stands for preserves the invariant.
LEMMA MoveKeepsInd ==
  ASSUME Ind, NEW p \in Procs, NEW label \in Reads \cup Writes, NEW c \in Manifests,
         Moves(p, label, c), Established(label, c, spec[p]),
         label = "rename" => file # Corrupt
  PROVE  Ind'
<1>1. /\ at' = [at EXCEPT ![p] = label] /\ m' = [m EXCEPT ![p] = c]
      /\ UNCHANGED <<world, changes, file, spec, began, out>>
  BY DEF Moves, Goto, Collect, envVars
<1>2. TypeOK'
  BY <1>1 DEF Ind, TypeOK
<1>3. ASSUME NEW q \in Procs
      PROVE  Established(at[q], m[q], spec[q])' /\ (at[q] = "rename" => file # Corrupt)'
  <2>1. CASE q = p
    <3>1. at'[q] = label /\ m'[q] = c /\ spec'[q] = spec[p]
      BY <1>1, <2>1 DEF Ind, TypeOK
    <3> QED
      BY <1>1, <3>1 DEF Established, Collects
  <2>2. CASE q # p
    <3>1. at'[q] = at[q] /\ m'[q] = m[q] /\ spec'[q] = spec[q]
      BY <1>1, <2>2 DEF Ind, TypeOK
    <3> QED
      BY <1>1, <3>1 DEF Ind, AttachInv, Established, Collects
  <2> QED
    BY <2>1, <2>2
<1>4. (file \in Manifests => \E s \in Specs : WrittenFor(file, s))'
  BY <1>1 DEF Ind, AttachInv, WrittenFor, Collects
<1> QED
  BY <1>2, <1>3, <1>4 DEF Ind, AttachInv

\* Giving up preserves the invariant: nothing is claimed of an exit.
LEMMA ExitKeepsInd ==
  ASSUME Ind, NEW p \in Procs, GivesUp(p)
  PROVE  Ind'
<1>1. PICK code \in Exits : Exit(p, code)
  BY DEF GivesUp
<1>2. /\ at' = [at EXCEPT ![p] = code] /\ m' = [m EXCEPT ![p] = NoManifest]
      /\ UNCHANGED <<world, changes, file, spec, began, out>>
  BY <1>1 DEF Exit, Goto, Collect, envVars
<1>3. TypeOK'
  BY <1>2 DEF Ind, TypeOK
<1>4. ASSUME NEW q \in Procs
      PROVE  Established(at[q], m[q], spec[q])' /\ (at[q] = "rename" => file # Corrupt)'
  <2>1. CASE q = p
    <3>1. at'[q] = code
      BY <1>2, <2>1 DEF Ind, TypeOK
    <3> QED
      BY <3>1 DEF Established, Exits, Reads, Writes, After
  <2>2. CASE q # p
    <3>1. at'[q] = at[q] /\ m'[q] = m[q] /\ spec'[q] = spec[q]
      BY <1>2, <2>2 DEF Ind, TypeOK
    <3> QED
      BY <1>2, <3>1 DEF Ind, AttachInv, Established, Collects
  <2> QED
    BY <2>1, <2>2
<1>5. (file \in Manifests => \E s \in Specs : WrittenFor(file, s))'
  BY <1>2 DEF Ind, AttachInv, WrittenFor, Collects
<1> QED
  BY <1>3, <1>4, <1>5 DEF Ind, AttachInv

----------------------------------------------------------------------------
(* The reads. *)

\* The shape of a read: what it learns is passed on, or the attach gives up.
LEMMA ReadCases ==
  ASSUME NEW p \in Procs, NEW here, NEW next, NEW codes \in {Local, Remote}, NEW check, NEW c,
         Read(p, here, next, codes, check, c)
  PROVE  at[p] = here /\ ((check /\ Moves(p, next, c)) \/ GivesUp(p))
BY DEF Read, Moves, GivesUp, Local, Remote, Exits

\* At a read or a write, an attach holds a manifest for its specification.
LEMMA Holding ==
  ASSUME Ind, NEW p \in Procs, at[p] \in Reads \cup Writes
  PROVE  /\ spec[p] \in Specs /\ spec[p] \in SpecFiles
         /\ Collects(m[p], spec[p]) /\ Established(at[p], m[p], spec[p])
BY SpecsAssumption DEF Ind, TypeOK, AttachInv, Established

LEMMA EndpointsKeepsInd ==
  ASSUME Ind, NEW p \in Procs, ResolveEndpoints(p)
  PROVE  Ind'
<1>1. PICK e \in Endpoints, viaFile \in BOOLEAN :
        Read(p, "endpoints", "session", Remote, world.catalog # {}, Located(p, e, viaFile))
  BY DEF ResolveEndpoints
<1> DEFINE c == Located(p, e, viaFile)
<1>2. at[p] = "endpoints" /\ (Moves(p, "session", c) \/ GivesUp(p))
  BY <1>1, ReadCases
<1>3. Collects(m[p], spec[p])
  BY <1>2, Holding DEF Reads
<1>4. world.catalog \in SUBSET Models
  BY DEF Ind, TypeOK, Worlds
<1>5. c \in Manifests /\ Collects(c, spec[p])
  BY <1>3, <1>4 DEF Manifests, Collects, Located
<1>6. Established("session", c, spec[p])
  BY <1>5 DEF Established, After, Reads, Writes
<1> QED
  BY <1>2, <1>5, <1>6, MoveKeepsInd, ExitKeepsInd DEF Reads

LEMMA ReadSessionKeepsInd ==
  ASSUME Ind, NEW p \in Procs, ReadSession(p)
  PROVE  Ind'
<1> DEFINE s == world.session[m[p].session]
           c == [m[p] EXCEPT !.branch = s.branch, !.model = s.model]
           check == s.live /\ s.model \in m[p].catalog /\ s.model = spec[p].model
<1>1. Read(p, "session", "settings", Remote, check, c)
  BY DEF ReadSession
<1>2. at[p] = "session" /\ ((check /\ Moves(p, "settings", c)) \/ GivesUp(p))
  BY <1>1 DEF Read, Moves, GivesUp, Local, Remote, Exits
<1>3. Collects(m[p], spec[p])
  BY <1>2, Holding DEF Reads
<1>4. s \in [branch: Branches, model: Models, live: BOOLEAN]
  BY <1>3 DEF Ind, TypeOK, Worlds, Collects, Manifests
<1>5. c \in Manifests /\ Collects(c, spec[p])
  BY <1>3, <1>4 DEF Manifests, Collects
<1>6. check => Established("settings", c, spec[p])
  BY <1>3, <1>5 DEF Established, After, Reads, Writes, Collects, Manifests
<1> QED
  BY <1>2, <1>5, <1>6, MoveKeepsInd, ExitKeepsInd DEF Reads

LEMMA ReadSettingsKeepsInd ==
  ASSUME Ind, NEW p \in Procs, ReadSettings(p)
  PROVE  Ind'
<1> DEFINE s == world.settings[m[p].session]
           c == [m[p] EXCEPT !.effort = s.effort]
           check == s.model = m[p].model /\ s.effort = spec[p].effort
<1>1. Read(p, "settings", "worktrees", Remote, check, c)
  BY DEF ReadSettings
<1>2. at[p] = "settings" /\ ((check /\ Moves(p, "worktrees", c)) \/ GivesUp(p))
  BY <1>1 DEF Read, Moves, GivesUp, Local, Remote, Exits
<1>3. Collects(m[p], spec[p]) /\ Established("settings", m[p], spec[p])
  BY <1>2, Holding DEF Reads
<1>4. s \in [model: Models, effort: Efforts]
  BY <1>3 DEF Ind, TypeOK, Worlds, Collects, Manifests
<1>5. c \in Manifests /\ Collects(c, spec[p])
  BY <1>3, <1>4 DEF Manifests, Collects
<1>6. check => Established("worktrees", c, spec[p])
  BY <1>3, <1>5 DEF Established, After, Reads, Writes, Collects, Manifests
<1> QED
  BY <1>2, <1>5, <1>6, MoveKeepsInd, ExitKeepsInd DEF Reads

LEMMA ReadWorktreesKeepsInd ==
  ASSUME Ind, NEW p \in Procs, ReadWorktrees(p)
  PROVE  Ind'
<1> DEFINE t == world.trees["workspace"]
           c == [m[p] EXCEPT !.head = t.head]
           check == On(m[p].branch) = {"workspace"} /\ t.head = spec[p].baseline
                      /\ spec[p].branch = m[p].branch
<1>1. Read(p, "worktrees", "root", Local, check, c)
  BY DEF ReadWorktrees
<1>2. at[p] = "worktrees" /\ ((check /\ Moves(p, "root", c)) \/ GivesUp(p))
  BY <1>1, ReadCases
<1>3. Collects(m[p], spec[p]) /\ Established("worktrees", m[p], spec[p])
  BY <1>2, Holding DEF Reads
<1>4. t.head \in Heads
  BY DEF Ind, TypeOK, Worlds, Places
<1>5. c \in Manifests /\ Collects(c, spec[p])
  BY <1>3, <1>4 DEF Manifests, Collects
<1>6. check => Established("root", c, spec[p])
  BY <1>3, <1>5 DEF Established, After, Reads, Writes, Collects, Manifests
<1> QED
  BY <1>2, <1>5, <1>6, MoveKeepsInd, ExitKeepsInd DEF Reads

LEMMA CheckRootKeepsInd ==
  ASSUME Ind, NEW p \in Procs, CheckRoot(p)
  PROVE  Ind'
<1>1. at[p] = "root" /\ (Moves(p, "status", m[p]) \/ GivesUp(p))
  BY ReadCases DEF CheckRoot
<1>2. Collects(m[p], spec[p]) /\ Established("root", m[p], spec[p])
  BY <1>1, Holding DEF Reads
<1>3. Established("status", m[p], spec[p])
  BY <1>2 DEF Established, After, Reads, Writes
<1> QED
  BY <1>1, <1>2, <1>3, MoveKeepsInd, ExitKeepsInd DEF Reads, Collects

LEMMA CheckStatusKeepsInd ==
  ASSUME Ind, NEW p \in Procs, CheckStatus(p)
  PROVE  Ind'
<1> DEFINE s == Porcelain(spec[p].run)
           c == [m[p] EXCEPT !.clean = (s = {}), !.porcelain = s]
           check == spec[p].policy = "require_clean" => s = {}
<1>1. Read(p, "status", "lease", Local, check, c)
  BY DEF CheckStatus
<1>2. at[p] = "status" /\ ((check /\ Moves(p, "lease", c)) \/ GivesUp(p))
  BY <1>1, ReadCases
<1>3. Collects(m[p], spec[p]) /\ Established("status", m[p], spec[p])
  BY <1>2, Holding DEF Reads
<1>4. s \in Porcelains
  BY DEF Ind, TypeOK, Worlds, Porcelain, Porcelains
<1> HIDE DEF s
<1>5. c \in Manifests /\ Collects(c, spec[p])
  BY <1>3, <1>4 DEF Manifests, Collects
<1>6. c.clean = (s = {}) /\ c.porcelain = s /\ c.model = m[p].model /\ c.catalog = m[p].catalog
      /\ c.effort = m[p].effort /\ c.head = m[p].head /\ c.branch = m[p].branch
  BY <1>3 DEF Manifests, Collects
<1> HIDE DEF c
<1>7. check => Established("lease", c, spec[p])
  BY <1>3, <1>5, <1>6 DEF Established, After, Reads, Writes
<1> QED
  BY <1>2, <1>5, <1>7, MoveKeepsInd, ExitKeepsInd DEF Reads

LEMMA InspectLeaseKeepsInd ==
  ASSUME Ind, NEW p \in Procs, InspectLease(p)
  PROVE  Ind'
<1> DEFINE l == world.leases[spec[p].run]
           c == [m[p] EXCEPT !.lease = l]
<1>1. Read(p, "lease", "stat", Local, l \in {"FREE", "OWNED"}, c)
  BY DEF InspectLease
<1>2. at[p] = "lease" /\ ((l \in {"FREE", "OWNED"} /\ Moves(p, "stat", c)) \/ GivesUp(p))
  BY <1>1 DEF Read, Moves, GivesUp, Local, Remote, Exits
<1>3. /\ Collects(m[p], spec[p]) /\ Established("lease", m[p], spec[p])
      /\ spec[p] \in SpecFiles
  BY <1>2, Holding DEF Reads
<1>4. l \in {"FREE", "OWNED"} => l \in LeaseStates
  BY DEF LeaseStates
<1>5. l \in {"FREE", "OWNED"} => c \in Manifests /\ Collects(c, spec[p])
  BY <1>3, <1>4 DEF Manifests, Collects
<1>6. l \in {"FREE", "OWNED"} => Established("stat", c, spec[p])
  BY <1>3, <1>5 DEF Established, After, Reads, Writes, Collects, Manifests
<1> QED
  BY <1>2, <1>5, <1>6, MoveKeepsInd, ExitKeepsInd DEF Reads, Writes

----------------------------------------------------------------------------
(* The write, the environment, and the invariant. *)

\* The order of the writes keeps what the last read has established.
LEMMA StatKeepsInd ==
  ASSUME Ind, NEW p \in Procs, Stat(p)
  PROVE  Ind'
<1> DEFINE label == IF file = NoFile THEN "rename" ELSE "compare"
<1>1. at[p] = "stat" /\ (Moves(p, label, m[p]) \/ GivesUp(p))
  BY DEF Stat, Moves, GivesUp, Exits, Goto, Collect, Ind, TypeOK
<1>2. Collects(m[p], spec[p]) /\ Established("stat", m[p], spec[p])
  BY <1>1, Holding DEF Writes
<1>3. Established(label, m[p], spec[p])
  BY <1>2 DEF Established, After, Reads, Writes
<1>4. label = "rename" => file # Corrupt
  BY AttachNulls
<1> QED
  BY <1>1, <1>2, <1>3, <1>4, MoveKeepsInd, ExitKeepsInd DEF Writes, Collects

LEMMA CompareKeepsInd ==
  ASSUME Ind, NEW p \in Procs, Compare(p)
  PROVE  Ind'
<1>1. at[p] = "compare" /\ (Moves(p, "readback", m[p]) \/ GivesUp(p))
  BY DEF Compare, Moves, GivesUp, Exits, Goto, Collect, Ind, TypeOK
<1>2. Collects(m[p], spec[p]) /\ Established("compare", m[p], spec[p])
  BY <1>1, Holding DEF Writes
<1>3. Established("readback", m[p], spec[p])
  BY <1>2 DEF Established, After, Reads, Writes
<1> QED
  BY <1>1, <1>2, <1>3, MoveKeepsInd, ExitKeepsInd DEF Writes, Collects

\* What stands at the rename is a manifest that the strict reader accepts.
LEMMA WritesWritten ==
  ASSUME Ind, NEW p \in Procs, at[p] \in Writes
  PROVE  WrittenFor(m[p], spec[p]) /\ spec[p] \in Specs /\ m[p] \in Manifests
<1>1. /\ Collects(m[p], spec[p]) /\ Established(at[p], m[p], spec[p])
      /\ spec[p] \in Specs
  BY Holding DEF Ind, AttachInv
<1>2. /\ m[p].model \in m[p].catalog /\ m[p].model = spec[p].model
      /\ m[p].effort = spec[p].effort
      /\ m[p].head = spec[p].baseline /\ m[p].branch = spec[p].branch
      /\ m[p].clean <=> m[p].porcelain = {}
      /\ spec[p].policy = "require_clean" => m[p].clean
      /\ m[p].lease # "LOCKED"
  BY <1>1 DEF Established, After
<1> QED
  BY <1>1, <1>2 DEF WrittenFor, Accepts, Collects

LEMMA RenameWrites ==
  ASSUME Ind, NEW p \in Procs, at[p] = "rename"
  PROVE  /\ WrittenFor(m[p], spec[p]) /\ spec[p] \in Specs /\ m[p] \in Manifests
         /\ file # Corrupt
BY WritesWritten DEF Writes, Ind, AttachInv

LEMMA RenameKeepsInd ==
  ASSUME Ind, NEW p \in Procs, Rename(p)
  PROVE  Ind'
<1>1. at[p] = "rename"
  BY DEF Rename
<1>2. /\ WrittenFor(m[p], spec[p]) /\ spec[p] \in Specs /\ m[p] \in Manifests
      /\ Collects(m[p], spec[p]) /\ Established("rename", m[p], spec[p])
  BY <1>1, RenameWrites, Holding DEF Writes
<1>3. CASE file' = m[p] /\ Goto(p, "readback") /\ UNCHANGED <<envVars, spec, m, began, out>>
  <2>1. /\ at' = [at EXCEPT ![p] = "readback"]
        /\ UNCHANGED <<world, changes, spec, m, began, out>>
    BY <1>3 DEF Goto, envVars
  <2>2. TypeOK'
    BY <1>2, <1>3, <2>1 DEF Ind, TypeOK, Writes
  <2>3. ASSUME NEW q \in Procs
        PROVE  Established(at[q], m[q], spec[q])' /\ (at[q] = "rename" => file # Corrupt)'
    <3>1. CASE q = p
      <4>1. at'[q] = "readback" /\ m'[q] = m[p] /\ spec'[q] = spec[p]
        BY <2>1, <3>1 DEF Ind, TypeOK
      <4> QED
        BY <1>2, <4>1 DEF Established, After, Reads, Writes, Collects
    <3>2. CASE q # p
      <4>1. at'[q] = at[q] /\ m'[q] = m[q] /\ spec'[q] = spec[q]
        BY <2>1, <3>2 DEF Ind, TypeOK
      <4>2. file' # Corrupt
        BY <1>2, <1>3, AttachNulls
      <4> QED
        BY <4>1, <4>2 DEF Ind, AttachInv, Established, Collects
    <3> QED
      BY <3>1, <3>2
  <2>4. \E s \in Specs : WrittenFor(file, s)'
    BY <1>2, <1>3, <2>1 DEF WrittenFor, Collects, Accepts
  <2> QED
    BY <2>2, <2>3, <2>4 DEF Ind, AttachInv
<1>4. CASE Goto(p, "compare") /\ UNCHANGED <<envVars, file, spec, m, began, out>>
  <2>1. Moves(p, "compare", m[p])
    BY <1>4 DEF Moves, Collect, Ind, TypeOK
  <2>2. Established("compare", m[p], spec[p])
    BY <1>2 DEF Established, After, Reads, Writes
  <2> QED
    BY <1>2, <2>1, <2>2, MoveKeepsInd DEF Writes
<1>5. CASE Exit(p, "exit2")
  BY <1>5, ExitKeepsInd DEF GivesUp, Exits
<1> QED
  BY <1>3, <1>4, <1>5 DEF Rename

LEMMA BeginKeepsInd ==
  ASSUME Ind, NEW p \in Procs, Begin(p)
  PROVE  Ind'
<1>e. PICK e \in Endpoints : e = CHOOSE d \in Endpoints : TRUE
  BY EndpointsAssumption
<1>1. PICK s \in Specs, x \in Sessions :
        /\ spec' = [spec EXCEPT ![p] = s]
        /\ Collect(p, [run |-> s.run, sha |-> s.sha, session |-> x, branch |-> s.branch,
                       baseline |-> s.baseline, head |-> s.baseline,
                       policy |-> s.policy, clean |-> TRUE, porcelain |-> {},
                       model |-> s.model, effort |-> s.effort, catalog |-> {},
                       lease |-> "FREE", endpoints |-> e, fromRunFile |-> FALSE])
  BY <1>e DEF Begin
<1> DEFINE c == [run |-> s.run, sha |-> s.sha, session |-> x, branch |-> s.branch,
                 baseline |-> s.baseline, head |-> s.baseline,
                 policy |-> s.policy, clean |-> TRUE, porcelain |-> {},
                 model |-> s.model, effort |-> s.effort, catalog |-> {},
                 lease |-> "FREE", endpoints |-> e, fromRunFile |-> FALSE]
<1>2. s \in SpecFiles
  BY SpecsAssumption
<1>3. c \in Manifests /\ Collects(c, s)
  BY <1>2 DEF SpecFiles, Manifests, Porcelains, LeaseStates, Collects
<1>4. m' = [m EXCEPT ![p] = c]
  BY <1>1 DEF Collect
<1> HIDE DEF c
<1>5. /\ at' = [at EXCEPT ![p] = "endpoints"] /\ began' = [began EXCEPT ![p] = changes]
      /\ out' = [out EXCEPT ![p] = NoManifest] /\ UNCHANGED <<world, changes, file>>
  BY DEF Begin, Goto, envVars
<1>6. TypeOK'
  BY <1>1, <1>3, <1>4, <1>5 DEF Ind, TypeOK, Reads
<1>7. ASSUME NEW q \in Procs
      PROVE  Established(at[q], m[q], spec[q])' /\ (at[q] = "rename" => file # Corrupt)'
  <2>1. CASE q = p
    <3>1. at'[q] = "endpoints" /\ m'[q] = c /\ spec'[q] = s
      BY <1>1, <1>4, <1>5, <2>1 DEF Ind, TypeOK
    <3> QED
      BY <1>3, <3>1 DEF Established, After, Reads, Writes, Collects
  <2>2. CASE q # p
    <3>1. at'[q] = at[q] /\ m'[q] = m[q] /\ spec'[q] = spec[q]
      BY <1>1, <1>4, <1>5, <2>2 DEF Ind, TypeOK
    <3> QED
      BY <1>5, <3>1 DEF Ind, AttachInv, Established, Collects
  <2> QED
    BY <2>1, <2>2
<1>8. (file \in Manifests => \E t \in Specs : WrittenFor(file, t))'
  BY <1>5 DEF Ind, AttachInv, WrittenFor, Collects
<1> QED
  BY <1>6, <1>7, <1>8 DEF Ind, AttachInv

LEMMA ReadbackKeepsInd ==
  ASSUME Ind, NEW p \in Procs, Readback(p)
  PROVE  Ind'
<1>1. /\ at' = [at EXCEPT ![p] = "exit0"]
      /\ UNCHANGED <<world, changes, file, spec, m, began>>
      /\ at[p] = "readback"
  BY DEF Readback, Goto, envVars
<1>2. m[p] \in Manifests
  BY <1>1, Holding DEF Writes, Collects
<1>3. TypeOK'
  BY <1>1, <1>2 DEF Readback, Readable, Ind, TypeOK, Exits
<1>4. ASSUME NEW q \in Procs
      PROVE  Established(at[q], m[q], spec[q])' /\ (at[q] = "rename" => file # Corrupt)'
  <2>1. CASE q = p
    <3>1. at'[q] = "exit0"
      BY <1>1, <2>1 DEF Ind, TypeOK
    <3> QED
      BY <3>1 DEF Established, Exits, Reads, Writes, After
  <2>2. CASE q # p
    <3>1. at'[q] = at[q] /\ m'[q] = m[q] /\ spec'[q] = spec[q]
      BY <1>1, <2>2 DEF Ind, TypeOK
    <3> QED
      BY <1>1, <3>1 DEF Ind, AttachInv, Established, Collects
  <2> QED
    BY <2>1, <2>2
<1>5. (file \in Manifests => \E s \in Specs : WrittenFor(file, s))'
  BY <1>1 DEF Ind, AttachInv, WrittenFor, Collects
<1> QED
  BY <1>3, <1>4, <1>5 DEF Ind, AttachInv

\* No claim of the invariant reads the world: it may change at any time.
LEMMA WorldChangesKeepsInd ==
  ASSUME Ind, WorldChanges
  PROVE  Ind'
<1>1. world \in Worlds /\ changes \in 0..MaxChanges /\ MaxChanges \in Nat
  BY AttachSwitches DEF Ind, TypeOK
<1>2. world' \in Worlds
  <2>1. CASE \E x \in Sessions, v \in [branch: Branches, model: Models, live: BOOLEAN] :
               world' = [world EXCEPT !.session[x] = v]
    <3>1. PICK x \in Sessions, v \in [branch: Branches, model: Models, live: BOOLEAN] :
            world' = [world EXCEPT !.session[x] = v]
      BY <2>1
    <3>2. [world.session EXCEPT ![x] = v]
            \in [Sessions -> [branch: Branches, model: Models, live: BOOLEAN]]
      BY <1>1 DEF Worlds
    <3> QED
      BY <1>1, <3>1, <3>2 DEF Worlds
  <2>2. CASE \E x \in Sessions, v \in [model: Models, effort: Efforts] :
               world' = [world EXCEPT !.settings[x] = v]
    <3>1. PICK x \in Sessions, v \in [model: Models, effort: Efforts] :
            world' = [world EXCEPT !.settings[x] = v]
      BY <2>2
    <3>2. [world.settings EXCEPT ![x] = v] \in [Sessions -> [model: Models, effort: Efforts]]
      BY <1>1 DEF Worlds
    <3> QED
      BY <1>1, <3>1, <3>2 DEF Worlds
  <2>3. CASE \E v \in SUBSET Models : world' = [world EXCEPT !.catalog = v]
    BY <1>1, <2>3 DEF Worlds
  <2>4. CASE \E t \in Places, v \in [branch: Branches \cup {NoBranch}, head: Heads] :
               world' = [world EXCEPT !.trees[t] = v]
    <3>1. PICK t \in Places, v \in [branch: Branches \cup {NoBranch}, head: Heads] :
            world' = [world EXCEPT !.trees[t] = v]
      BY <2>4
    <3>2. [world.trees EXCEPT ![t] = v]
            \in [Places -> [branch: Branches \cup {NoBranch}, head: Heads]]
      BY <1>1 DEF Worlds
    <3> QED
      BY <1>1, <3>1, <3>2 DEF Worlds
  <2>5. CASE world' = [world EXCEPT !.rootClean = ~@]
    BY <1>1, <2>5 DEF Worlds
  <2>6. CASE \E v \in SUBSET Edits : world' = [world EXCEPT !.edits = v]
    BY <1>1, <2>6 DEF Worlds
  <2>7. CASE \E r \in Runs, v \in Inspections : world' = [world EXCEPT !.leases[r] = v]
    <3>1. PICK r \in Runs, v \in Inspections :
            world' = [world EXCEPT !.leases[r] = v]
      BY <2>7
    <3>2. [world.leases EXCEPT ![r] = v] \in [Runs -> Inspections]
      BY <1>1 DEF Worlds
    <3> QED
      BY <1>1, <3>1, <3>2 DEF Worlds
  <2> QED
    BY <2>1, <2>2, <2>3, <2>4, <2>5, <2>6, <2>7 DEF WorldChanges, Changed
<1>3. changes' \in 0..MaxChanges
  BY <1>1 DEF WorldChanges
<1>4. UNCHANGED <<file, at, spec, m, began, out>>
  BY DEF WorldChanges, procVars
<1>5. TypeOK'
  BY <1>2, <1>3, <1>4 DEF Ind, TypeOK
<1> QED
  BY <1>4, <1>5 DEF Ind, AttachInv, Established, WrittenFor, Collects

LEMMA StepKeepsInd ==
  ASSUME Ind, [Next]_vars
  PROVE  Ind'
<1>1. CASE \E p \in Procs : Attaching(p)
  <2>1. PICK p \in Procs : Attaching(p)
    BY <1>1
  <2> QED
    BY <2>1, BeginKeepsInd, EndpointsKeepsInd, ReadSessionKeepsInd, ReadSettingsKeepsInd,
       ReadWorktreesKeepsInd, CheckRootKeepsInd, CheckStatusKeepsInd, InspectLeaseKeepsInd,
       StatKeepsInd, CompareKeepsInd, RenameKeepsInd, ReadbackKeepsInd
    DEF Attaching
<1>2. CASE \E p \in Procs : Crash(p)
  BY <1>2, ExitKeepsInd DEF Crash, GivesUp, Exits
<1>3. CASE WorldChanges
  BY <1>3, WorldChangesKeepsInd
<1>4. CASE UNCHANGED vars
  BY <1>4 DEF vars, envVars, procVars, Ind, TypeOK, AttachInv, Established, WrittenFor, Collects
<1> QED
  BY <1>1, <1>2, <1>3, <1>4 DEF Next

LEMMA InitInd == Init => Ind
<1> SUFFICES ASSUME Init PROVE Ind
  OBVIOUS
<1>1. TypeOK
  BY StartsAssumption, AttachSwitches DEF Init, TypeOK, Exits
<1>2. \A p \in Procs : at[p] = "down"
  BY DEF Init
<1>3. file \notin Manifests
  BY AttachNulls DEF Init
<1> QED
  BY <1>1, <1>2, <1>3 DEF Ind, AttachInv, Established, Reads, Writes, After

----------------------------------------------------------------------------
(* The theorems. *)

THEOREM IndAlways == Spec => []Ind
<1>1. Ind /\ [Next]_vars => Ind'
  BY StepKeepsInd
<1> QED
  BY <1>1, InitInd, PTL DEF Spec

\* Every reachable state is well typed: in particular no attach ever passes on
\* a manifest with a field that one of its reads could not deliver.
THEOREM AttachTypeCorrect == Spec => []TypeOK
<1>1. Ind => TypeOK
  BY DEF Ind
<1> QED
  BY <1>1, IndAlways, PTL

\* What attach has checked when it gets to a label holds of what it has
\* collected, whatever the world has done since (RunAttach).
THEOREM ChecksOutliveTheWorld == Spec => []AttachInv
<1>1. Ind => AttachInv
  BY DEF Ind
<1> QED
  BY <1>1, IndAlways, PTL

\* A manifest that attach has written is one that ReadManifest accepts.
THEOREM WritesAcceptedManifests == Spec => []FileIsAccepted
<1>1. Ind => FileIsAccepted
  BY DEF Ind, AttachInv, FileIsAccepted, WrittenFor
<1> QED
  BY <1>1, IndAlways, PTL

\* Two manifests written for the same specification, session and endpoints, with
\* the policy of a clean worktree, bind the same.
LEMMA SameSpecificationMatches ==
  ASSUME NEW s \in Specs, s.policy = "require_clean",
         NEW f, NEW g, WrittenFor(f, s), WrittenFor(g, s), f.session = g.session,
         f.endpoints = g.endpoints
  PROVE  Matches(f, g)
<1>1. f.clean /\ f.porcelain = {} /\ g.clean /\ g.porcelain = {}
  BY DEF WrittenFor, Accepts, Collects
<1>2. f.clean = g.clean
  BY <1>1 DEF WrittenFor, Collects, Manifests
<1>3. f.head = f.baseline /\ g.head = g.baseline
  BY DEF WrittenFor, Accepts
<1> QED
  BY <1>1, <1>2, <1>3 DEF WrittenFor, Collects, Matches

\* How an attach gets to the readback: it finds its bindings, or it writes them.
Arrives(p) ==
  \/ Bound(file, m[p]) /\ file' = file
  \/ at[p] = "rename" /\ file' = m[p]

\* Who changes the file, and how an attach gets to the rename and to the readback.
LEMMA FileStep ==
  ASSUME Ind, [Next]_vars
  PROVE  /\ file' = file \/ \E p \in Procs : at[p] = "rename" /\ file' = m[p]
         /\ \A p \in Procs : at'[p] = "rename" => at[p] = "rename" \/ file = NoFile
         /\ \A p \in Procs : at'[p] = "readback" => at[p] = "readback" \/ Arrives(p)
<1> DEFINE Stays(label) == \A p \in Procs : at'[p] = label => at[p] = label
           Quiet == file' = file /\ Stays("rename") /\ Stays("readback")
<1>1. ASSUME NEW p \in Procs, NEW label, label \notin {"rename", "readback"},
             Goto(p, label), file' = file
      PROVE  Quiet
  BY <1>1 DEF Goto, Ind, TypeOK
<1>2. ASSUME NEW p \in Procs, NEW code \in {"down", "exit2", "exit3"}, Exit(p, code) PROVE Quiet
  BY <1>1, <1>2 DEF Exit
<1>3. ASSUME NEW p \in Procs, NEW here, NEW next, next \notin {"rename", "readback"},
             NEW codes \in {Local, Remote}, NEW check, NEW c, Read(p, here, next, codes, check, c)
      PROVE  Quiet
  BY <1>1, <1>2, <1>3 DEF Read, Local, Remote
<1>4. ASSUME UNCHANGED vars \/ WorldChanges PROVE Quiet
  BY <1>4 DEF vars, procVars, WorldChanges
<1>5. ASSUME NEW p \in Procs,
             \/ Begin(p) \/ ResolveEndpoints(p) \/ ReadSession(p) \/ ReadSettings(p)
             \/ ReadWorktrees(p) \/ CheckRoot(p) \/ CheckStatus(p) \/ InspectLease(p)
             \/ Readback(p) \/ Crash(p)
      PROVE  Quiet
  <2>1. CASE Begin(p) \/ Readback(p)
    BY <1>1, <2>1 DEF Begin, Readback
  <2>2. CASE Crash(p)
    BY <1>2, <2>2 DEF Crash
  <2> QED
    BY <1>3, <1>5, <2>1, <2>2
    DEF ResolveEndpoints, ReadSession, ReadSettings, ReadWorktrees, CheckRoot, CheckStatus,
        InspectLease
<1>6. ASSUME NEW p \in Procs, Stat(p)
      PROVE  Quiet \/ (file = NoFile /\ file' = file /\ Stays("readback"))
  <2>1. CASE Exit(p, "exit2")
    BY <1>2, <2>1
  <2>2. CASE file # NoFile /\ Goto(p, "compare") /\ file' = file
    BY <1>1, <2>2
  <2>3. CASE file = NoFile /\ Goto(p, "rename") /\ file' = file
    BY <2>3 DEF Goto, Ind, TypeOK
  <2> HIDE DEF Quiet, Stays
  <2> QED
    BY <1>6, <2>1, <2>2, <2>3 DEF Stat
<1>7. ASSUME NEW p \in Procs, Compare(p) \/ Rename(p)
      PROVE  \/ Quiet
             \/ /\ Arrives(p) /\ (file' = file \/ (at[p] = "rename" /\ file' = m[p]))
                /\ Stays("rename")
                /\ \A q \in Procs : at'[q] = "readback" => at[q] = "readback" \/ q = p
  <2>1. CASE Exit(p, "exit2")
    BY <1>2, <2>1
  <2>2. CASE Goto(p, "compare") /\ file' = file
    BY <1>1, <2>2
  <2>3. CASE Goto(p, "readback") /\ Arrives(p)
    <3>1. Stays("rename") /\ \A q \in Procs : at'[q] = "readback" => at[q] = "readback" \/ q = p
      BY <2>3 DEF Goto, Ind, TypeOK
    <3> QED
      BY <2>3, <3>1 DEF Arrives
  <2> HIDE DEF Quiet, Stays
  <2>4. CASE Compare(p)
    BY <2>1, <2>3, <2>4 DEF Compare, Arrives
  <2>5. CASE Rename(p)
    BY <2>1, <2>2, <2>3, <2>5 DEF Rename, Arrives
  <2> QED
    BY <1>7, <2>4, <2>5
<1> HIDE DEF Quiet
<1>8. \/ Quiet
      \/ file = NoFile /\ file' = file /\ Stays("readback")
      \/ \E p \in Procs :
           /\ Arrives(p) /\ (file' = file \/ (at[p] = "rename" /\ file' = m[p]))
           /\ Stays("rename")
           /\ \A q \in Procs : at'[q] = "readback" => at[q] = "readback" \/ q = p
  BY <1>4, <1>5, <1>6, <1>7 DEF Next, Attaching
<1> QED
  BY <1>8 DEF Quiet

\* What is written is a manifest with the bindings verified, and never over a corrupt one.
LEMMA WrittenIsWhole ==
  ASSUME Ind, [Next]_vars, file' # file
  PROVE  file' \in Manifests /\ file # Corrupt /\ \E s \in Specs : WrittenFor(file', s)
<1>1. PICK p \in Procs : at[p] = "rename" /\ file' = m[p]
  BY FileStep
<1> QED
  BY <1>1, RenameWrites

\* Any number of attaches, of different runs, sessions and endpoints, may race for one
\* manifest file: none tears it, and those of the same request, with the policy of a clean
\* worktree, never take bindings back, though each looks for the file before it renames
\* (WriteManifestAtomic).  Those of different requests do: see the run MCAttach_overwrite.
THEOREM OneRequestIsStable == Spec => SameRequestStands
<1> DEFINE Stands ==
      file' # file =>
        /\ file' \in Manifests
        /\ file # NoFile =>
             file \in Manifests /\ (SameRequest(file, file') => Matches(file, file'))
<1>1. Ind /\ [Next]_vars => [Stands]_vars
  <2> SUFFICES ASSUME Ind, [Next]_vars, file' # file PROVE Stands
    OBVIOUS
  <2>1. PICK s \in Specs : file' \in Manifests /\ file # Corrupt /\ WrittenFor(file', s)
    BY WrittenIsWhole
  <2>2. ASSUME file # NoFile PROVE file \in Manifests
    BY <2>1, <2>2 DEF Ind, TypeOK
  <2>3. ASSUME file # NoFile, SameRequest(file, file') PROVE Matches(file, file')
    <3>1. PICK t \in Specs : WrittenFor(file, t)
      BY <2>2, <2>3 DEF Ind, AttachInv
    <3>2. s = t /\ s.policy = "require_clean"
      BY <2>1, <2>3, <3>1, SpecsAssumption DEF SameRequest, WrittenFor, Collects
    <3> QED
      BY <2>1, <2>3, <3>1, <3>2, SameSpecificationMatches DEF SameRequest
  <2> QED
    BY <2>1, <2>2, <2>3
<1> QED
  BY <1>1, IndAlways, PTL DEF Spec, SameRequestStands

\* Attaches of any number of specifications, sessions and endpoints may name one manifest
\* file: what is there when nobody is about to rename stands from then on, since only an
\* attach that found nothing renames (WriteManifestAtomic).
THEOREM SettledStands == Spec => SettledBindingsStand
<1>1. Ind /\ [Next]_vars => [Settled => KeepsBindings /\ Settled']_vars
  <2> SUFFICES ASSUME Ind, [Next]_vars, Settled PROVE KeepsBindings /\ Settled'
    OBVIOUS
  <2>1. file' = file
    BY FileStep DEF Settled
  <2>2. \A p \in Procs : at'[p] # "rename"
    BY FileStep DEF Settled
  <2> QED
    BY <2>1, <2>2 DEF Settled, KeepsBindings
<1> QED
  BY <1>1, IndAlways, PTL DEF Spec, SettledBindingsStand

\* When an attach is through with the write, the manifest on disk has the bindings that it
\* has verified, though any number of attaches write others and renames fail beside them
\* (WriteManifestAtomic).
THEOREM WrittenIsOnDisk == Spec => SuccessIsOnDisk
<1> DEFINE OnDisk == \A p \in Procs : at[p] # "readback" /\ at'[p] = "readback" =>
             file' \in Manifests /\ Accepts(file') /\ Matches(file', m[p])
<1>1. Ind /\ [Next]_vars => [OnDisk]_vars
  <2> SUFFICES ASSUME Ind, [Next]_vars,
                      NEW p \in Procs, at[p] # "readback", at'[p] = "readback"
               PROVE  file' \in Manifests /\ Accepts(file') /\ Matches(file', m[p])
    OBVIOUS
  <2>1. CASE Bound(file, m[p]) /\ file' = file
    BY <2>1 DEF Bound, Readable
  <2>2. CASE at[p] = "rename" /\ file' = m[p]
    BY <2>2, RenameWrites DEF WrittenFor, Matches
  <2> QED
    BY <2>1, <2>2, FileStep DEF Arrives
<1> QED
  BY <1>1, IndAlways, PTL DEF Spec, SuccessIsOnDisk
=============================================================================
