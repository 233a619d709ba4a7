# agents-coworkers: formal model

TLA+ modules, TLC configurations and TLAPS proofs for the Go programs of this
repository: `cmd/recovery` (deliver a task to an AO session at most once, across
crashes and lost replies) and `cmd/coworkers` (attach a run to a session and a
worktree). Every definition is translated from the source; `PROJECT.json` maps it to
its lines.

## 1. Inventory

### 1.1 Recovery (`internal/recovery`, `cmd/recovery`)

| part | state | operations | interacts with |
|---|---|---|---|
| Dispatcher, `dispatcher.go` | none of its own but a mutex; works on a copy of the checkpoint | `Step`, `Cancel` | lease, store, artifact reader, AO |
| Checkpoint store, `checkpoint.go` | the checkpoint file | `Load`, `Save` (temp file, sync, rename), `Validate`, `Terminal` | file system |
| Artifact reader, `checkpoint.go` | none | `Observe`: hash of a file, git HEAD, branch | git |
| Lease, `lease.go` | one file per (run owner, task) | `Acquire` (O_EXCL), release, `InspectLease` | file system, operator |
| AO adapter, `ao_http.go` | none; AO keeps sessions, turns, delivery ids | `Observe`, `Preflight`, `Send`, `RecoverOnly`, `Stop` | AO over loopback HTTP |
| CLI loop, `cmd/recovery/main.go` | timeout, signal, exit code | `recovery run`, `recovery status` | dispatcher |
| Runner, `runner.go` | last checkpoint | the same loop, in process | dispatcher |
| Status view, `status.go` | none | formatting and redaction | checkpoint |

What is hard: a POST whose reply is lost may or may not have reached AO and may still
reach it later; a process can die, or its context can be cancelled, between any two
requests or file operations; several processes may be started for one checkpoint; the
lease file outlives a crashed holder; AO steers a text into a running turn of somebody
else; a `Cancel` meets a delivery in any of these states.

The files themselves are written in several operations: a lease record may be torn, a
release reads and then removes, a rename is not yet on the disk. A conversation is read page by
page while it grows, and the interrupt is session-wide.

What makes it correct: the text is delivered at most once; nothing is sent unless the
file says that it may have been; the budget bounds what is sent; decisions stand;
CANCELLED, COMPLETED and DELIVERED are only claimed when they are so; every task is
decided in the end, and finished work is not lost; the lease file is a lock; no torn
checkpoint is read; a turn is judged by its own receipt; a stop spares the turns of others.

### 1.2 Workforce control (`internal/workforce/control`, `cmd/coworkers`)

| part | state | operations | interacts with |
|---|---|---|---|
| Attach, `attach.go` | none of its own | a sequence of reads (spec, endpoints, session, settings, worktrees, cleanliness, lease), then one write | AO, gateway, git, lease, manifest store |
| Manifest store, `manifest.go`, `types.go` | the manifest file | `ReadManifest`, `IsExactBindingMatch`, `WriteManifestAtomic` | file system |
| Discovery, `discovery.go` | none | `ResolveAOEndpoint`, `ResolveGatewayEndpoint` | environment, run files, HTTP |
| Doctor, `doctor.go` | none | the checks of attach and more, read-only | git, discovery, PATH |
| Status, `status.go` | none | reads the manifest, checks overrides, inspects the lease | manifest, lease, AO, gateway |
| Run spec, `run_spec.go` | none | `ParseAndValidateRunSpec` | doctor, attach |
| CLI, `cmd/coworkers/main.go` | exit code | `doctor`, `attach`, `status` | all of the above |

What is hard: each fact is read at another moment, and the session, the worktree and
the lease change in between; several `coworkers attach` may write one manifest path; a run file may
outlive its daemon, and there may be two; three commands check the same things in code of their own.

What makes it correct: what attach writes, the reader accepts; the parts of a manifest
agree; a manifest that exists is not replaced by one with other bindings; discovery finds the daemon
that is asked for or none; what doctor passes, attach does not refuse, and what attach has bound, status
confirms.

### 1.3 The rest

`scripts/*.ps1` (smoke tests and audits run by hand), `patches/`, `config/`,
`evidence/`, `docs/` and `tests/` hold no long-lived state of a program of this
repository. They are used as documents: section 5 quotes them.

## 2. Modules

    DeliveryTypes   observations and receipts                       dispatcher.go
      Checkpoint    durable state of a task, its pure updates       checkpoint.go, dispatcher.go
      AOAdapter     AO as seen through the HTTP adapter             ao_http.go
        Dispatcher  processes, lease, file, Step, Cancel, loops     dispatcher.go, lease.go, main.go, runner.go
          DispatcherProperties   properties, IInv, fairness, refinement mappings
            MCDispatcher         instances for TLC
            DispatcherProofs     theorems and proofs: types, one delivery, the lease, decisions
              OutcomeProofs      the file against AO; attempts, kept work, the budget
                RefinementProofs   TaskDelivery and RunLock are implemented
                ExitProofs         what the exit codes say of the file and of AO
    TaskDelivery    what recovery promises, abstractly

    IOFaults        what may go wrong with a process or a file
      FileLease     the lease file, one file operation at a time    lease.go
      FileStore     the checkpoint file, with power loss            checkpoint.go
        RunFiles    the file operations of a Step over both         dispatcher.go
          RunFilesProperties   properties, refinement mapping
            MCRunFiles         instance for TLC
            RunFilesProofs     theorems and proofs
    RunLock         what the lease promises, abstractly

    Conversation    Observe and Stop, page by page; properties      ao_http.go
      MCConversation       instance for TLC
      ConversationProofs   theorems and proofs

    Manifest        fields, strict reader, comparison of bindings   manifest.go, types.go
      Attach        the reads, the write, the changing world        attach.go, manifest.go, doctor.go
        AttachProperties   properties, AttachInv
          MCAttach         instances for TLC
          AttachProofs     theorems and proofs
    Discovery       AO and the gateway, step by step                discovery.go
      Control       doctor, attach and status at one terminal       doctor.go, status.go, run_spec.go, main.go
        ControlProperties  properties, refinement of Attach
          MCControl        instance for TLC
          ControlProofs    theorems and proofs, over those of AttachProofs

**Dispatcher.** The state is the checkpoint file `disk`, the lease file `lease`, AO
(`posts`, `session`, `foreign`), and for each process slot where it is (`pc`), what it was
started for (`op`), the checkpoint in its memory (`cp`) and whether its context is done
(`ctxDone`). An action is one I/O call together with the code up to the next one, so that
everything the code does between two calls is atomic and nothing else is:

| code | actions |
|---|---|
| `runRecovery` loop | `Start`, `Loop`, `Return` (with `ExitCode`) |
| `Runner.Run` loop | the same, with `op = "runner"` and `RunnerResult` |
| `acquire`, `FileLease` | `Acquire`, `Release`, `RemoveStaleLease` (the operator) |
| `stepLocked` | `Load`, `Artifact`, `Observe` (with `Dispatch`), `Recover`, `Preflight`, `WriteAhead`, `Send`, `Save` |
| `Cancel` | `CancelLoad`, `CancelSave`, `CancelRecover`, `CancelObserve`, `CancelCheck`, `CancelInterrupt`, `Save` |
| environment | `Crash`, `ContextDone`, `DeadlinePasses`, the actions of `AONext` |

`Finish` is "one Save, then return" (`return d.block(...)` and its like), `Leave` is a return
without a Save. `cp[p] = NoCp` is Go's zero `Checkpoint{}` that comes back with an error.

**AOAdapter.** Each POST of the text is an element of `Turns` and `posts[t]` is its fate: never
made, void, on the wire, steered, live, odd (a state the adapter does not map), or ended in one of
five ways. A reply is drawn from the set that AO's state allows. AO is modelled *without* the
deduplication by `clientMessageId` that it offers, so that at-most-once has to follow from the
recovery code alone. `Contract` says what else may be answered: "adapter" is the HTTP adapter;
"truthful" adds what the Go interface `AO` has names for, HumanStopped and RESERVED, when it is true,
states that are not known, and a recover-only without a turn; "any" lets it say so at any time.

**TaskDelivery** has a phase and the copies of the text, nothing else. `Task` in
DispatcherProperties is the refinement mapping. **RunLock** has the processes inside and whether a stale
lease keeps everybody out; both `Dispatcher` (with its one-step lease) and `RunFiles` (with the file
operations) are shown to implement it, so that the one-step lease stands for the operations.

**RunFiles** looks below `Dispatcher`: it keeps of a Step only what is done to the two files and the POST,
and takes the file operations apart.

| code | actions |
|---|---|
| `FileLease.Acquire` | `Create`, `WriteRecord` (Write, Sync, Close), `RemoveRecord` after a failure |
| its release closure | `ReadRecord` (with the owner check), `RemoveRecord` |
| `FileStore.Save` | `WriteTemp`, `SyncTemp`, `RenameTemp`, `SaveFails` |
| `InspectLease` | the operator `Inspection` |
| operator | `Look`, `RemoveStale`: the check that the process is gone and the removal are two steps |
| host | `Crash`, `PowerLoss`, `WriteBack` |

All processes of a checkpoint have the same owner id (`cp.RunOwner`), therefore the owner check of a release
tells a whole record from a torn one and nothing else. `onDisk` holds what may be found under the
checkpoint's path after a power loss: a rename adds to it, `WriteBack` reduces it to what readers see. `unlinked` is the
same for the lease: neither is its removal synced, so a lease that was given back or cleared may be there again after a power loss,
and keeps everybody out until the operator clears it (`Appear` of `RunLock`).
The checkpoint is reduced to what it says of the text: not sent, perhaps sent, sent.

**Conversation** has the items of a conversation in their order, the state of each turn, and one call of
`Observe` or `Stop` in progress. One action is one request with what is done with its answer
(`ReadSession`, `ReadPage`, `ReadLivePage`, `Interrupt`, `RequestFails`). AO is not in this repository, and two things
about it are not known from the code: on which page a turn is listed (with its first item, or with
every item), and whether the cursor is honoured. Both are open in the model (`ao`).

Abstractions of data: `lastErrorKind` and `lastObservedUtc` are dropped, no branch reads them;
`nextRetryAt` is none, in the future, or due; an error is one value; the identity fields of a
checkpoint are fixed. `sessionExclusive` is taken as true: Preflight refuses a checkpoint without it,
so that no text of it is ever sent. A failed lease create and a failed load are one fault kind
(`"load"`). In `Dispatcher` a torn lease record is not told from a stale one, and an answer of `Observe` is one
value; `RunFiles` and `Conversation` have the difference.

**Attach.** `world` is what the reads read: AO's session and its settings, the gateway's catalog, the
worktrees, the cleanliness of the product root, the edits of the workspace, the run leases (of which a
record may be malformed). `file` is the manifest. Each process has a label `at`, the specification it was
given, and the manifest `m` that it collects field by field; `began` only remembers when it began. Every
read of `RunAttach` is one action with the checks that follow it, in the order of the code:

| code | actions |
|---|---|
| `RunAttach` up to discovery | `Begin` |
| `ResolveAOEndpoint`, `ResolveGatewayEndpoint` | `ResolveEndpoints`, in `Control` the steps of `Discovery` |
| session, conversation settings | `ReadSession`, `ReadSettings` |
| `listGitWorktrees` and the binding checks | `ReadWorktrees` |
| `checkRepoClean`, `checkWorktreeDirtyPolicy` | `CheckRoot`, `CheckStatus` (with `Porcelain`) |
| `InspectLease` | `InspectLease` |
| `WriteManifestAtomic` | `Stat`, `Compare`, `Rename` |
| readback | `Readback` |
| environment | `WorldChanges`, `Crash` |

A manifest keeps the fields that are filled from different sources; schema version, constants, the syntax
of paths, hashes and URLs, and the identity of the repository are left out. `porcelain` is the set
of filtered `git status` records whose hash the code stores; task leases of recovery and records of
tracked or renamed files are ordinary edits, because the filter only drops the untracked `__run__` lease
of the run itself.

**Discovery** and **Control.** `machine` is what discovery looks at: which daemon answers at which port, the run
files, which processes live, the gateways. `look` is a resolution in progress and `cmd` the command at the
terminal with what it has collected. The other programs of the host and the world of `Attach` change between
any two steps.

`--gateway-url` is what was typed: a text, and whether there are blanks around it (`Typed`). Discovery trims them before anything
is made of the URL (`TrimSpace`, `Gateway`), attach stores what is left, and `StatusGateway` compares what was typed. Nobody trims the
URL of AO; with blanks no request can be made to it, so it counts as "invalid".

| code | actions |
|---|---|
| `ResolveAOEndpoint` | `Choose`, `StatCandidate`, with `AfterCandidate` and `Conclude` |
| `resolveRunFile` | `ReadRunFile`, `CheckProcessAlive`, `ProbeAOIdentity` |
| `ResolveGatewayEndpoint` | `ProbeGateway`, in `AttachGateway`, `DoctorGateway`, `StatusGateway` |
| `ParseAndValidateRunSpec` | `Accepted`, `Parse`, `DirtyPolicy` |
| `RunDoctor` | `BeginDoctor`, `DoctorDiscovers`, `DoctorGateway`, `DoctorRoot`, `DoctorStatus`, `DoctorCommit`, `DoctorTools` |
| `RunAttach` | `BeginAttach`, `AttachDiscovers`, `AttachGateway`, `AttachGoesOn` (the actions of `Attach`) |
| `RunStatus` | `BeginStatus`, `StatusOverride`, `StatusGateway`, `StatusLease` |

One step is merged: the tools and the models of doctor, which read PATH and what was read before. Commands
of git and reads of files that exist do not fail in `Control`; in `Attach` they do.

Names ending in an underscore part, such as `AfterSend_ErrorIsRefusal`, are the plausible bugs that
`PROJECT.json` lists under "mutants"; no specification uses them.

## 3. Runs

The first five use `MCDispatcher`, the last two `MCAttach`; the module of the others is named.

| run | instance | what it shows |
|---|---|---|
| `safety` | 2 processes, 3 POSTs, run and cancel, all kinds of faults, foreign AO client, "truthful" interface | type invariant, at most once, durable barrier, budget, what CANCELLED, COMPLETED, DELIVERED and steered text mean, decisions stand; every step is a step of `TaskDelivery`, or none; the lease implements `RunLock`, so that two processes never work at once |
| `loop` | 2 processes, run, runner and cancel, 2 POSTs, `FairSpec`, no Save fails | every task is decided; exit codes 0 and 2, and the checkpoint that Runner returns without an error, tell the file |
| `verified` | `FairSpec`, no failing requests | finished, matching work is accepted |
| `nolease`, `reports` | small | disagreements of section 5 |
| `files` (`MCRunFiles`) | 2 processes, 5 faults of any kind | lease file is a lock, inspections tell the truth, no lost update, no torn checkpoint; only a power loss undoes the write-ahead, and costs one duplicate at most |
| `conversation` (`MCConversation`) | 2 turns, pages of 2 items, 2 pages, 5 items | NOT_FOUND means that the turn was not there; a turn that has the session to itself is judged by its last receipt; Stop interrupts only when no other turn was running all the while, and refuses only for a reason |
| `control` (`MCControl`) | 4 specification files, 5 inputs, 2 machines to start from, 1 change | discovery finds a daemon exactly if it should; doctor predicts attach; a dirty binding is explicit; attach decides exactly, its own lease does not matter; attach with discovery implements `Attach`; status accepts the URLs that attach was given, typed plainly |
| `blanks`, `unavailable` (`MCControl`) | as `control`; in `blanks` with 5 inputs that type the gateway URL in different ways | disagreements of section 5 |
| `race` | 2 attaches of two runs and both policies, 1 change, failing I/O and crashes | the strict reader accepts what is written, and it is whole; a write that succeeds has its bindings on disk at that moment, also after a failed rename; attaches of one request never take bindings back; a file stands once nobody is about to rename |
| `overwrite` | 2 attaches of two runs | disagreement of section 5 |

Bounds of the recovery runs. `RetryBudget` is 3 where a task may pass through several attempts that do not
send (observations, reconciliations); it is 2, the least with an attempt that is neither the first
nor beyond the last, in `safety`, whose state space is the largest, and in the runs of section 5. `Turns` has one more
POST than the budget allows in `safety`, so that one too many would be seen, and never fewer than can be made. Two process slots are reused after a
crash, so any number of processes may come after one another, two at a time. `MaxFaults` (in each cfg)
counts crashes, failed file operations and cancelled contexts; lost, refused, late and failed requests are
not counted, they may happen every time. Faults of no interest to a run's question are left out of its
`FaultKinds`. Symmetry permutes processes and turns in the runs that check only safety.

Bounds of `files`. The worst cases of two processes need a torn or stale record, a second holder and a power
loss, and a failing operation of each: five faults have room for them. Contents are the three that the POST tells apart.

Bounds of `conversation`. Pages of two items, two pages before a call gives up and five items give a
conversation that is one page, two, or longer than is read; a turn can lie on one page, on two, or start on a page that
is not read. One turn besides the target is enough to be mistaken for it, or to be hit instead of it.

Bounds of the attach and control runs. Two values of each kind of data that a check compares, so that each can
match or not; two runs, so that a lease can be the run's own or another's, and so that what another attach writes can have
other bindings; two attaches in `race`, because only the pair of Stat and rename is shared. Of its three specifications
two are of one run with different policies, and each may be asked for twice: that is the one request of `SameRequestStands`, whose manifests
agree but for what the world changes in them. `MaxChanges` bounds the changes of the world: one is
enough to invalidate any single read and to come between any two; the theorems of section 4 have no bound. In `control` the five inputs put each source in front of
the next one, valid and invalid; in `blanks` the gateway URL is typed plainly, with blanks, as nothing but blanks, or not at all; the
machines have one daemon or two. `Faulty` says
whether reads and writes fail and processes crash; it is off in `control`, where a refusal has
to be explained by the state. Processes and commands never stop beginning anew, so a file written by one
attach is met by later ones.

Fairness (`FairSpec`), for the two liveness runs only: a process slot that can go on does (the loop polls,
and `recovery run` is restarted by its operator after a crash or an exit); the operator removes a lease file
whose holder is gone (docs/06-OPERATIONS.md asks for it); time passes; a live AO turn ends. No
fairness for late requests, for AO losing a session, or for a fault not to happen beyond `MaxFaults`.
`VerifiedWorkIsAccepted` is checked without failing requests: with them the code may give up (BLOCKED) on
purpose. Attach, the file operations and the adapter's calls have no liveness property of their own: a failing read or request
ends them, and whether they begin again is the loop's matter, or nobody's.

## 4. Proofs

`DispatcherProofs` proves, for every finite or infinite set of processes and turns, any budget and any
faults:

- `TypeCorrect`: `Spec => []TypeOK`, with or without leases, and whatever the AO interface may say (`Contract`).
- Under `Exclusive`: `InductiveInvariant` (`IInv`), and from it `AtMostOnceDelivery`, `MutualExclusion`,
  `DurableBarrier`, `WriteAheadPrecedesSend`, `DecisionsStand` and `ExclusiveSend` (`PreflightAndPostAreExclusive`).

`Exclusive` says `UseLease`, or that there is only one process (slot): a program that runs a `Runner` for a task without
a run owner is as safe as many processes with one, however it crashes and begins again. Two processes without a lease are not
(run `nolease`).

The argument. None of the properties is inductive alone: that no second POST is made depends on what a
process remembers between two I/O steps while others run. `IInv` says four things: no two processes are
between Acquire and release (`LeaseExcludes`); with leases, a process that is there has the lease; while it works it has a
checkpoint; and `Fits(pc, cp)`, what its
memory may claim at that point. `Fits` says that a checkpoint in memory from which a send could follow
implies that nothing was sent; that between Preflight and Send nothing was sent and, at Send, that the file
says so; and that no Save still to come takes back a decision in the file. Exclusion makes the steps of the
other processes harmless: only the holder changes `disk` or makes a POST (`DeadlinePasses` moves a retry
time only), and AO's own steps never make a void or unsent POST possible. So there is one lemma
for each kind of step: of the holder that saves, of the holder that sends, of the holder that changes only
its memory, of a process that does not hold the lease, and of AO.

`OutcomeProofs` adds to `IInv` and `TypeOK` (together `SafetyInv`) what the checkpoints claim, under `Exclusive`:

- `ConfirmedStop` (`CancelledIsQuiet`) and `Quarantine` (`SteeredIsQuarantined`), with `Contract # "any"`, that is, an AO that does not report
  what is not so. `OutcomeInv` says `Truth(c)` of the file and of the checkpoint of every process that works: its turn exists,
  DELIVERED has one, CANCELLED means that AO is quiet, COMPLETED that its turn is good. It has to be
  said of the memories too, as they are what the next Save writes. Where a reply of AO becomes a claim (Dispatch,
  Send, the settling of a cancellation), one lemma each shows that the reply was so; AO's own steps never undo
  a claim, because a turn that has ended stays as it ended, and a CANCELLED task has nothing left that could become live.
- `HandleIsKept`: once the file names a turn, it names that turn for ever. `HandleInv` says that whoever works on the task
  after that has a turn in memory, too; by `Truth` and `AtMostOnce` it is the same one. Without a lease a second process that
  loaded before the first one saved would write the turn away; with `"any"`, recover-only may answer without a turn.
- `BudgetKept` (`PostsWithinBudget`), whatever AO says. `BudgetInv` relates the number of POSTs made to the attempts in
  the file and in memory: a process at `send` has counted the POST that it is about to make.
- `AttemptsAreKept`: no step lowers the counter in the file; and `SpentMeansDecided`: the counter is at most one above the budget,
  and at most the budget as long as the task is open, so that no retry loop goes on for ever on the file.
  `AttemptsInv` says of a process that works that its counter is not behind the file's (`Ahead`), and that a failure which is
  counted at the limit blocks.
- `WorkIsNotLost`: under `FaultKinds \subseteq OwnFaults` and `Contract = "adapter"`, a turn that AO has finished with a matching
  receipt is never given up (BLOCKED or CANCELLED); it is the safety half of `VerifiedWorkIsAccepted`. `KeptInv` says of
  the file and of every checkpoint that is still to be saved that it gives up only when no POST is on its way, live or good
  (`NothingToLose`). The hypothesis cannot be weakened by one kind of fault: with failing or late requests, an unknown turn state,
  a lost session, a cancelled context, a changed artifact, or an interface that answers UNKNOWN, TLC finds
  finished work that is given up.

`RefinementProofs`:

- `RecoveryIsTaskDelivery`: `Spec => ImplementsTaskDelivery`, with `Exclusive` and `Contract # "any"`. The mapping takes the file's
  state to a phase and the state of each POST to that of a text. `TaskInv` is `OutcomeInv` with the condition under which
  each Save is a step of the task; an action that changes neither the state in the file nor a text is a
  stutter, and there are few others: the Saves, Send, AO's steps.
- `LeaseImplementsRunLock`: `Spec => LeaseIsALock`, with `UseLease`, for any processes and whatever AO says.
- What the abstract specifications are good for: `TaskDeliveryPromises` (`TaskPromise`, inductive as it stands: one text, nothing at work while open
  or after a confirmed cancellation, a completed task has a text that ended; decisions stand), `RunLockPromises` (one holder; none while stale),
  and, through the refinement, `RecoveryKeepsPromises`.

`ExitProofs`:

- `ExitsAreReports`: `Spec => ExitsTellTheFile`, with `Exclusive` and `"save" \notin FaultKinds`; with a failed
  Save it is false (run `reports`, section 5). `ReportInv` says of a process that has released the lease and not yet exited that a
  terminal checkpoint in its memory is still what the file says, or has become what an unconfirmed
  cancellation is settled to: decisions stand, so what others do between release and exit does not matter.
- Without any exclusion: `VerifiedCompletion` (`CompletedIsVerified`), for every `Contract`; `RealDelivery` (`DeliveredIsReal`), for
  `Contract # "any"`, under which AO may report a delivery without its turn; and `ExitZeroIsTrue`: exit code 0 is given only
  when AO has finished the task with a matching receipt, whichever Saves fail. `HonestInv` says of the file and of every
  checkpoint in any memory that its turn exists and that COMPLETED has a good one. A process adds to a checkpoint only what AO has
  told it about the turn in that checkpoint, and AO never takes back a turn or a result (`ResultsAreKept`), so it does not matter whose
  checkpoint overwrites whose.

Only model-checked, of the whole project: liveness (`EventuallyDecided`, `VerifiedWorkIsAccepted`), which is out of the
prover's reach. Their safety halves are `SpentMeansDecided` and `WorkIsNotLost`.
Proved, and not checked by a passing run: `ReceiptIsOwn`, `BindingsStand` and `AttachedIsOnDisk` (the last two of one command at a time), next to those named with their theorem only.

`AttachProofs` proves, for any number of attaches, specifications, sessions, models and so on, any changes
of the world and any faults:

- `AttachTypeCorrect`, `ChecksOutliveTheWorld` (`AttachInv`) and `WritesAcceptedManifests`
  (`FileIsAccepted`), from the assumptions named in `Attach` alone;
- `WrittenIsOnDisk` (`SuccessIsOnDisk`) and `SettledStands` (`SettledBindingsStand`), for any specifications, sessions and
  endpoints, from the same assumptions alone: what two attaches of different runs can still rely on;
- `OneRequestIsStable` (`SameRequestStands`), from the same assumptions alone: nobody tears the file, and the attaches of one
  specification with require_clean, one session and one pair of endpoints never take bindings back, whatever others race with
  them. Those of different requests do, and `AttachedIsOnDisk` does not hold of attaches that race (run `overwrite`); of one
  command at a time `BindingsStand` and `AttachedIsOnDisk` are proved in `ControlProofs`.

The argument. `TypeOK /\ AttachInv` is inductive. `Established(label, c, s)` says which checks the manifest `c`
has passed at a label; it does not mention `world`, therefore no change of the world can disturb it, and
each read adds one conjunct. At the rename all of them together give `Accepts`. A second rename over the
first one's file writes, when both are of one request, a manifest for the same specification (a hash determines it), and
`SameSpecificationMatches` says that such a manifest binds the same. `Corrupt` is never renamed over: nothing in the
program removes a manifest, and the model has no operator who does, so an attach that gets to the rename
has seen no file, and what has come since came by a rename.

`FileStep` says who changes the file (an attach at the rename, by its own manifest), who gets to the rename (one that has found
no file), and who gets to the readback: one that has found its bindings, or has just written them. The first two give
`SettledBindingsStand`, and the last one with `Accepts` at the rename gives `SuccessIsOnDisk`.

`ControlProofs` proves, for any specification files, flags, daemons, gateways, run files and changes:

- `ControlTypeCorrect`, and `DirtyIsOnPurpose` (`DirtyIsExplicit`);
- `AttachIsImplemented`: `ControlSpec => ImplementsAttach`, so that the theorems of `AttachProofs` that assume nothing of
  `Faulty` or of the specifications hold of the command, too;
- `DiscoveryIsExact` (`DiscoveryDecides`): a daemon is found exactly if one state says so, and the exit code is that of what is wrong; for a
  default run file that leads nowhere it only says that nothing is found, because there the documents disagree with the code
  (`NoDaemonIsExit3`, run `unavailable`);
- `StatusConfirms` (`StatusAgreesOnPlainUrls`); run `blanks` refutes it for URLs with blanks (`StatusAgreesWithAttach`);
- under `Faulty = FALSE`: `AttachIsExact` (`AttachDecides`), `OwnLeaseIsIgnored` (`OwnLeaseDoesNotMatter`) and
  `DoctorIsBelieved` (`DoctorPredictsAttach`). A read that fails, or a file that cannot be written, refuses for a
  reason that is not in the state, so without the assumption they are false.
- What one command at a time is enough for, with any faults, specifications and inputs: `OperatorFileIsAccepted`
  (`FileIsAccepted`), `OperatorBindingsStand` (`BindingsStand`) and `OperatorManifestIsOnDisk` (`AttachedIsOnDisk`). The
  disagreement `overwrite` needs two attaches that run at once.
- What is left for attaches that race (module `Attach` alone): `SuccessIsJustified`, with any faults and crashes, says that an attach
  that succeeds while nothing changes found all that it must find; `RacingAttachesAreExact` (`AttachDecides`), under `Faulty = FALSE`,
  says so of refusals, too. A failing read can refuse what should pass, but never pass what should be refused.

The argument. `ControlInv` is the invariant of `Attach` and says that one command runs at a time: an attach that is not at
its end is the command at the terminal, and it resolves its endpoints exactly as long as `look` is not idle. With
that each step of `Control` is one action of `Attach` or leaves its variables alone. What the commands decide depends
on the state at several moments; every invariant for it says that what has been read so far agrees with the
state *provided that nothing has changed since the command began* (`changes = began`), a condition that
a change makes false for good. `FreshInv` says so of the manifest that attach collects,
`LookingInv` (with `OnTheWay`) of the candidates that discovery has stat'ed, read and probed, `TerminalInv` of
doctor's checks, of the endpoints and the catalog of attach, and of what a success leaves behind: a readable
manifest whose endpoints answer as asked for (`Confirmed`), or what doctor has passed (`Passed`). The
last of these survives the following commands, because they change the file only when there is none.
`NotAnEdit` says that a run is never among the edits in the file (`EditsAssumption`), so that leaving out its
own lease changes nothing else.

`ConversationProofs` proves, for any page size, limit of pages and length of the conversation, any number of turns, and
whatever AO lists on a page and does with a cursor: `TypeCorrect`, `StopIsSelective` (`StopSparesRunningTurns`),
`NotFoundIsTrue` (`NotFoundIsHistory`), `ReceiptsAreOwn` (`ReceiptIsOwn`), `RefusalsAreJustified` (`RefusalIsJustified`) and
`LastReceiptCounts` (`ExclusiveReceiptIsSeen`).

The argument. A turn that has been born begins with one item, the least index at which it is found (`TurnInv`), and items
are only appended, so a turn that lies before the cursor stays there. `CursorInv` says that a target that was
known when the call began is still ahead of the cursor as long as it was not found; a call that reaches the end of
the history has nothing ahead of it. `ListInv` says of the listing of live turns that whoever was live all the time
is listed or ahead; and whoever is listed was live meanwhile, and lies behind the cursor. When the listing is
the target alone, no other turn was live all the time. `PassedInv` says that a page that was passed without the
target has an item of another turn, so that a target that has the session to itself is found on the newest page. Least and greatest elements come from the well-foundedness of `<` (`Least`, `Greatest`), as
induction is out of the prover's reach.

`RunFilesProofs` proves, for any number of processes, faults, crashes and power losses:

- `TypeCorrect`, `Inspections` (`InspectionTellsTheTruth`), `Torns` (`NeverTorn`), `Barrier`
  (`BarrierHoldsWithPower`), `Duplicates` (`OneDuplicatePerPowerLoss`), `NoLostUpdate` (`SavesBuildOnTheFile`);
- `LeaseFileIsALock`: `RunFiles` implements `RunLock`.

The argument. The invariant `RInv` says in `LeaseInv` that whoever has got past the create is the one whom
the record names (therefore there is at most one), that its record is whole once it works, and that an
operator who is sure is sure of a stale record: nobody can create a file while one exists, so it stays stale
until it is removed. `StageInv` ties the place in the Step to the place with the lease. `SaveInv` says that a process that saves
builds on the content that it saw, and that only it has a temporary file. `BarrierInv` counts: wherever a
POST may still come, or come again, there have been no more POSTs than power losses, so that the next one
makes at most one more. For the refinement every action is either one that leaves the holders alone (a stutter), or one of create,
the end of a hold with or without the file, the operator's removal, and the return of a removed record by a power loss; each is one
step of the lock.

## 5. Disagreements between code and documents

- `nolease`: docs/06-OPERATIONS.md:228 asks for an exclusive lease throughout preflight and POST;
  a checkpoint without `runOwner` gets none.
- `reports`: cmd/recovery/main.go:21 says exit 3 leaves a waiting or uncertain task; a timeout in
  the artifact check or in Preflight blocks it for good. This is the shortest counterexample to `EndsTellTheTask`. With
  `FaultKinds = {"save"}` the failed final Save is the shortest: main.go:18 says exit 0 means COMPLETED, and
  internal/recovery/runner.go:69 that `Run` goes on until the task reaches a terminal state or its context is
  done; both go by the checkpoint in memory, exit 0 and return without an error, and the file is not terminal.
- `overwrite`: internal/workforce/control/attach.go:494 says that the manifest which existed and matched is loaded and printed; whatever is
  at the path by then is, unchecked, so that an attach whose manifest was replaced by another's exits 0 with the other's bindings.
  It was replaced although manifest.go:369 and docs/03-DECISIONS.md:156 say that a manifest with
  other bindings is never overwritten: the file is looked for once, before the temporary file is
  written, and the rename replaces what has come since.
- `blanks`: internal/workforce/control/status.go:102 says that the gateway override has to match the bound endpoint and to answer; attach
  has trimmed the blanks of the URL it bound (discovery.go:314), status has not, and refuses the flag that attach has accepted.
- `unavailable`: docs/06-OPERATIONS.md:255, docs/02-ARCHITECTURE.md:17, docs/05-VERIFICATION.md:118 and docs/03-DECISIONS.md:138, 140 say that no valid daemon, or a
  valid endpoint that does not answer, is exit 3, as it is with `AO_RUN_FILE`; for a default run file discovery.go:232 makes it
  exit 2. That a candidate is refused is common ground, and checked (`DiscoveryDecides`).

Modelled, but no run's question: evidence/run-20260925-phase7d-recovery-hardening/summary.md:12 says that a stopped turn makes
the task CANCELLED; when it is found by recover-only (dispatcher.go:270) the task is reconciled until it is BLOCKED.

## 6. Not modelled, and the plan

Left out, because no branch of a program depends on it and it changes no state: the formatting and redaction of
`internal/recovery/status.go`, printing and flag parsing of both programs. Left out as data: the syntax checks of paths, hashes,
names and URLs (a specification is well formed or not, a URL valid or not), `Checkpoint.Validate`, two default run files that
are one through a symbolic link, the comparison of the fields of a session in Preflight (one answer). `COWORKERS_GATEWAY_URL` and the
built-in URL are one constant, `DefaultGateway`, which may be invalid. What status does about a trailing "/" is not told apart, as
both sides strip it.

Known and not covered by a property, each listed as a hazard with the reason: the lease is per run owner and task
and not per session; attach inspects the `__run__` lease only, and acquires none; a receipt on an older page than its turn is
reported as missing; the process id of a run file is called VERIFIED although
only its life and the identity at the port are checked; the identity of a daemon is probed before the session is read.

Planned, in this order:

1. Two checkpoints of one session: two instances of `Dispatcher` over one `AOAdapter`.
2. Failing git commands and reads in `Control`, with the properties that remain.

Out of scope: the PowerShell scripts, patches, configuration and evidence files. They change no state that the
programs read.
