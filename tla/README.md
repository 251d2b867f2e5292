# Verification of the agentic engineering harness

The harness turns a request into reviewed code changes: it accepts an
*operation*, spawns a detached controller process for it, has agents author a
specification and work in Git worktrees, asks humans where a decision is
theirs, and ends with a validated candidate.  Everything it knows about an
operation is on disk, and several processes - the launcher, the controller, a
rival controller after a crash, the Control Center server, monitors and
watchdogs, remote workers - read and write those files at once.  No database
and no server arbitrates between them.  This project models how they agree.

Paths below are relative to the repository (`operations/state.ts` is
`src/operations/state.ts`).

- [Inventory](#inventory)
- [The modules and the code](#the-modules-and-the-code)
- [The runs](#the-runs)
- [Fairness](#fairness)
- [The proofs](#the-proofs)
- [Where code and documentation disagree](#where-code-and-documentation-disagree)
- [What is only model-checked, and what is not modelled](#what-is-only-model-checked-and-what-is-not-modelled)
- [Plan](#plan)

## Inventory

| Component | State it keeps | Operations | Hard behaviour | Correct when |
| --- | --- | --- | --- | --- |
| **Operation lock** (`operations/state.ts` 2171-2196, 2425-2458) | a lock file with a pid | `withOperationLock`, `canRecoverLock` | processes die holding it; waiters judge a file they read earlier | holders exclude each other; a dead holder does not block for ever |
| **Operation store** (`operations/state.ts` 393-, 1824-1950, 2098-2170) | the record with an outbox event; `events.ndjson` | `saveOperation`, `mutateOperation`, `loadOperation` | a crash between record, append and record; torn lines | each commit's event is logged once, in order, before the caller is told |
| **Operation identity** (`operations/state.ts`, `operations/controller.ts`) | controller epoch and token, candidate, execution revision, semantics digest, policy, participant bindings | claim, spawn, cancel, bind candidate / policy / semantics / participant, terminal transitions, watchdog | displaced controllers go on with what they read; takeover, deadline and completion race | authority in the record is always current; a terminal record is final |
| **Product choice** (`operations/change.ts`, `operations/state.ts`, `security/humanDecision.ts`, `control-center/decision.ts`) | request and continuation in the record; reservation, decision and consumption files in the ledger | suspend, submit, poll, consume, mark, resume, apply, reconfirm, complete | answers race with crashes, takeovers, expiry and other answers; four files written by two processes | an answer is used at most once, under the binding it was given for, and is not lost |
| **Distributed queue** (`distributed/`) | files in `pending/ leased/ prepared/ released/ completed/` | submit, claim, reclaim, publish, release, run, complete, wait | no lock; leases expire under a running agent; reclaimers race | an agent runs once, under the session that was bound; jobs do not vanish |
| **Pause and resume** (`operations/control.ts`, `operations/state.ts` 1360-1574, the checkpoints of `operations/change.ts`) | pause in the record, PAUSE and RESUME decisions in the ledger | request pause/resume, drain, checkpoint, wait | decision consumed and record committed are two writes; sessions outlive their controller | nothing writes while PAUSED; a resume restores exactly what was paused |
| **Provider leases** (`runtime/providerLifecycle.ts`, `runtime/managed.ts`, `operations/supervisorV2.ts`, `workers/agentPrompt.ts`) | write leases in the runtime snapshot, participants in the record | begin a turn, take over, acquire, observe, release | a session that cannot be observed; a lease of a dead controller | one session writes at a time |
| **Cancellation** (`operations/controller.ts` 798-1163) | cancellation in the record, process handles | `cancelOperation`, `terminalizeOperation`, hard-deadline watchdog | numbers are reused while it signals them; authority travels through the environment of the server | everything is stopped before CANCELLED is recorded; no failure forgets a live child |
| **Terminal resource reconciliation** (`runtime/operationResources.ts`, `operations/controller.ts` `ensureOperationWorkspace`) | workspace intent, record, resource registry, receipt, process handles | create and register a workspace, terminal hook, reconcile, sweep | the controller dies between any two of four files; reconciliations without a lock | what was created is archived, and nobody else's process is signalled |
| **Stall retry budget** (`operations/stallRetryBudget.ts`, the loops of `operations/change.ts` and `operations/supervisor.ts`) | ledger of counted attempts with tombstones; pending markers, graves | load, claim, record, clear, reconcile orphans | drives die anywhere; an orphan is met by several | an attempt is not free, an orphan is counted once, the total is bounded |
| **Terminal evidence, completion** (`operations/completion.ts`, `operations/evidence.ts`, `operations/state.ts` 1609-1741, 2198-2369) | receipts, delivery outbox | record receipt, gate a terminal transition | receipts of older revisions | success only on evidence for the current candidate |
| **Supervision and liveness** (`operations/executionLiveness.ts`, `operations/livenessV2.ts`, `operations/supervisor.ts`) | deadlines, wake budget, supervisor generations | wake, stall, replace a supervisor | timers race with late answers | bounded wakes; one live supervisor generation |
| **Wave execution** (`agents/waveExecutor.ts`, `architecture/workGraph.ts`) | work graph, units' results | plan, run a wave, assemble, retry | a unit of a wave fails late | a wave starts on assembled results only |
| **Candidates** (`candidates/`) | worktrees, ChangeSets, assembly receipts | capture, assemble, repair | concurrent ChangeSets overlap | assembled candidate contains exactly the accepted ChangeSets |
| **Decision ledger and tool action gate** (`security/`) | decision files, action reservations | authorise, reserve, reconcile | an action is done and its record lost | an action is done at most once per authorisation |
| **Managed runtime** (the rest of `runtime/`) | Serena pool, wave slots | acquire, release, health | shared processes with reference counts | no process is stopped while in use |
| **Workers and result sink** (`workers/`) | staged and committed results | launch, submit, commit | duplicate or late submissions | one committed result per attempt |
| **Paseo, Control Center, delivery** (`paseo/`, `control-center/`, `delivery/`) | sessions of an external daemon, HTTP sessions, PR state | spawn, inspect, serve, finalize | external systems | - |
| **Compilers and pipelines** (`architecture/`, `core/`, `context/`, `semantic/`, `spec/`, `audit/`, `informational/`, `issues/`, `validation/`, `capabilities/`, `knowledge/`, `participants/`, ...) | none shared | pure compilation, prompt construction, external commands | - | - |

How they meet: every writer of a record goes through the lock and the store;
every mutation is checked against the identity; pause, choice, cancellation,
receipts and completion are parts of the record that the identity fences.  The
decision ledger is outside the lock - files created with flag `wx` between the
Control Center and the waiting controller.  The distributed queue is a world of
its own, joined to an operation by the dispatcher that prepares and releases a
participant binding.  A cancellation hands over to the reconciliation through
the record (status, phase, cleanup flag) and the process handles; a pause and a
cancellation meet in the owner field and in the leases.  `PROJECT.json` lists each component with its files, and
the hazards at the lines where they bite.

## The modules and the code

Granularity: what the code does under the operation lock without giving it up
is one action in the modules above the store (`OperationIdentity`,
`ProductChoice`, `OperationControl`, `OperationCancellation`); `OperationStore` opens that action up into its writes, and
`OperationLock` into the file operations of the lock; `LockedStore` puts the two together.  A file created or
renamed by one call is one step.  Where a process reads, awaits and acts, the
read value is a variable of its own.

**OperationLock** - `path` is the file at the lock path (creator, whether the
pid is written, whether its mtime is older than `STALE_LOCK_MS`), `step`, `read`
and `stat` the state of each caller; a caller is one asynchronous context, and
several may share a process.  `Open`, `WritePid`, `ActionReturns`,
`ActionThrows`, `Release`, `Rethrow` are the holder's path, `ReadPid`, `Stat`
(started together, ended in any order), `Judge` and `Recover` the waiter's.
`robbed` is a history variable: the holders whose file somebody else removed.
Timestamps are reduced to "older than the limit"; the waiter's own timeout may
strike whenever it has found the lock taken.

**OperationStore** - `file` is the record (number of commits, revision, outbox
event), `log` the complete lines of `events.ndjson`, `tail` what follows its
last newline.  `StageRecord`, `PublishEvent`, `SettleRecord` are the three
writes of `commitOperationRecord`, `ReadStored`, `RecoverEvent`,
`RecoverRecord` those of `recoverPendingOperationEvent`; `Fail` and `Crash` may
come between any two of them, and inside the append leave nothing, a part of
the line, or the line without its newline.  **OperationLog** is the promise: a
commit advances the record and appends its event in one step.

**LockedStore** - the two together, as `saveOperation`, `mutateOperation` and
`loadOperation` put them: the work on the record is the action that
`withOperationLock` runs.  It `Enters` when the pid is written, `Works` while
the lock file stands, `Returns` or `Throws` with its last step, and
`ProcessDies` takes the callers of a process out of both.  `OperationStore`
alone assumes that a caller is alone between `Enter` and `Leave`; here nothing
is assumed, and the store's variable `lock` only records who it believes to be
the holder.  `harmed` is a history variable, TRUE once a live holder's file has
been removed by somebody else.  From then on two callers can be inside with
records read at different times, which the steps of `OperationStore` do not
describe: only the lock is followed further.

**OperationIdentity** - one action for each `mutateOperation` call that touches
the identity.  `IdentityTransition` is the check `mutateOperation` makes of
whatever record a callback returns (`assertExecutionIdentityTransition` with the
revision and policy transitions it calls); every action commits through it.
`view` is what a process read outside the lock and compiles its policy,
candidate or binding from.  `mutateOperation`'s checks of the candidate, the
controller and the terminal fields (`operations/state.ts:1925-1936`) are left
out: the records its callers build satisfy them, and without them the model only
allows more.  `held` is the pair of environment variables that
authorises a process (a token is known by its epoch, since a claim mints both);
`parent` links a detached controller to the launcher that gave it its token.
CANCELLED is counted as FAILED here: endings are told apart only so that one
replacing another shows.

**ProductChoice** - one operation with its controllers, the humans who answer
and the ledger between them.  `pc` walks a controller through
`runChangeOperation`: bootstrap policy, author, wait, poll, consume, mark,
resume, compile, apply, rebind, plan, complete.  `cont` is the continuation
with its checkpoint; `reserved`, `decided`, `consumed` are the ledger's files.
Simplifications: candidate 1 stands for the candidate of the provisioned
workspace; a policy is known by the identity it was compiled for; a takeover
always claims a new epoch; an answer is a value nobody looks into; pause
checkpoints and cancellation are left to their own modules.

**DistributedQueue** - the five directories as variables, one step per file
operation of a worker (`ReadPending`, `RenamePending`, `WriteEnvelope`,
`CheckPublish`, `Publish`, `SeeRelease`, `CheckComplete`, `RecordResult`,
`DropLease`; `FindExpired`, `ReturnJob`, `DropExpired` of a reclaim) and of a
dispatcher (`Submit`, `SeeReady`, `CheckRelease`, `Release`, `SeeResult`).
`executed` is a history variable: the runs of an agent.  The write of a single
file is atomic.  The HTTP provider calls the same functions inside the queue
server and adds no state.

**OperationControl** - pause and resume with what a pause must drain.  `rec` is
the record, `dec` the requests and the decisions they leave in the ledger,
`leases` the runtime snapshot, `part` the participants, `sess` the provider
sessions, which go on when their controller dies.  `ctl` walks a controller
through a stage: `BeginTurn`, `TakeOver`, `Revoke`, `Acquire`, `Act`,
`ActEnds`, `Observe`, `Release`, `EndTurn`, then the checkpoint: `Drain`,
`Check`, `ConsumePause`, `CommitPause`, `Await`, `ConsumeResume`,
`CommitResume`.  `Execute`, `Bind`, `RebindPause` are how a controller takes an
operation over, a paused one included.  `excused` is a history variable of the
three things no later drain can see: a controller that survived its
cancellation, the launcher's late patch over a pause, and a lease snapshot that
could not be read.  A cancellation is two steps here, its claim
(`CancelClaims`) and its end (`CancelEnds`), or it dies between them
(`CancelServerExits`); `OperationCancellation` opens it up.  `launcher` is dropped
with the first epoch, since the launcher's token is stale from then on.  Read leases fence
nobody on these paths and are left out.

**OperationCancellation** - `proc` says what runs under each process number
(nothing, the controller, a child not yet registered or registered, a process of
a sibling operation), `handles` and `siblingFiles` what the files say.  `can`
walks a cancellation from `Request` over `ClaimEpoch`, `RebindPolicy`, `Survey`,
`VerifyAndSignal` and `Kill` for one number after the other, `StopAgents`,
`SettleLease`, `Decide`, `Terminalize`, to `ClearHandles` and `SetFlag`.  `env`
is the epoch in the environment of a server, which two cancellations may share.
`fuse` is the hard-deadline watchdog: `Expire`, `WatchdogSignals`,
`WatchdogKills`; `Finish` is the controller's own ending.  A termination is two
signals, 250 ms apart.  `VerifyAndSignal` is the fence, the fresh sibling scan
and the SIGTERM: the code documents the microseconds between those as beyond
pid-based signalling.  `Kill` is the SIGKILL when the grace is over, to whatever
has the number by then, and the proof that the group is gone; processes end, and
numbers go to siblings, between the two.

**TerminalReconciliation** - the workspace from its creation to its archive, and
the managed processes a cancellation leaves.  `intent`, `rec.ws`, `registry` and
`receipt` are the four places that name a workspace, `world` what the Paseo
daemon has (external).  `WriteIntent`, `Authorize`, `CreateWorkspace`,
`UpgradeIntent`, `PatchRecord`, `ClearIntent`, `RegisterWorkspace` are the
controller's steps; the operation may be executed again after a crash.  `gate`
is the action intent of the create, which authorises once.  A refused create is
an exception in a change and a warning in an audit; which kind the operation is
is not tracked, both continuations are allowed (`WithoutWorkspace`).  `Load`,
`Collect`, `Archive`, `Signal`, `FencedClear`, `ClearTerminal`,
`WriteRegistry`, `WriteReceipt` are a reconciliation; `TerminalHook` and
`DirectCall` start one, `Sweep` retries one.  Status FINISHED stands for
SUCCEEDED and FAILED.  `Signal` is a whole termination, both signals and the grace
between them, in one step: `FencedRecovery` is about numbers that get no signal
at all, which the grace does not touch.

**StallRetryBudget** - one phase's ledger (`stalls`, `consumed`), its marker
files (`pending`, `graves`, `quarantine`) and the drives that spend it.  `Start`,
`StatMarker`, `SnapshotMarker`, `EnterReconcile`, `VerifyGrave`,
`DestroyOrphan` are the load with its reconciliation of
orphans, `ReadCount` and `Claim` the claim; `StallKill`, `AmbiguousEnd`,
`CleanEnd`, `UncertainEnd` are the ends of an attempt, `RecordCount` and
`RemoveOwnMarker` what is written of it; `Abandon` is a death anywhere.  Age is
reduced to "older than any attempt can live", which `Age` grants only to a
marker whose drive is gone.  Sections under the lock are one at a time: the
lock is the one of `OperationLock`, and its loss is not repeated here.
`spent`, `recorded`, `reconciled`, `recounted` are history.

`MC_*` modules hold the instances for TLC, `*Proofs` modules the theorems.

## The runs

`tlc -workers 2 -config X.cfg M` for each; state counts are distinct states.

| Run | Configuration | Shows |
| --- | --- | --- |
| `lock` | 3 callers in 2 processes (140,544) | a holder that nobody robbed owns the file (`ExclusionUnlessRobbed`), a dead holder's file goes (`OrphanLockRecovered`) |
| `store` | 3 processes, 4 commits, 4 faults (307,823) | `LogExact`, `TailIsPending`; `CommitsAtomically`: the store implements OperationLog; the outbox empties (`OutboxDrains`) |
| `locked_store` | 2 callers in 2 processes, 2 commits, a fault (2,267,703) | `LockGivesStore`: until a live holder is robbed, what callers do to the record through the lock file are steps of OperationStore |
| `identity` | 2 processes, a participant, a supervisor session, 2 digests, 2 epochs, 3 revisions, a hard deadline (2,106,820) | `TokenLineage`, `PolicyCurrent`, `BindingsCurrent`, `TerminalFinal`, `IdentityAdvances` |
| `choice` | 2 controllers, 2 humans, 3 requests (656,837) | `ReceiptBacked`, `WorkUsesCurrentChoice`, `AcceptedStands`, `FreshConsent` |
| `choice_liveness` | 2 controllers, 1 human, 3 requests (116,709) | an answer is taken even if its submitter died half-way (`AnswerTaken`) |
| `queue` | 1 job, 2 workers, 3 claims (1,499,727) | `RunsBoundOnce`, `AcceptedWasRun`, `JobVisible` |
| `control` | 2 controllers, 2 sessions, 2 requests, 3 epochs, 2 execution revisions, 1 fault (2,797,868) | `PauseDrained`, `OneWriter`, `PausedCanResume`, `AppliedAsDecided` |
| `cancel` | 2 process numbers, 2 cancellations, 2 servers, a lease, 3 epochs, a spawn, a fault (2,482,838) | `WritersStopped`, `EvidenceKept`, `DisplacedStops`, and `StaysCancellable`: whatever makes a cancellation give up, another one can take the operation up, unless the server dies between claim and rebinding |
| `reconcile` | a workspace, a process number, 2 reconciliations, 2 executions, a fault, a reuse (588,191) | `WorkspaceTraced`, `CompleteMeansGone`, `FencedRecovery`, and `CleanupCompletes` under fairness |
| `stall` | 2 drives, cap 2, a stall retry, a hinted retry, 2 deaths, a clean attempt (1,488,908) | `OrphanCountedOnce`, `OneLiveAttempt`, `NoFreeAttempt`, `OvershootBounded`; `TypeOK` with the bounds the ledger asserts of itself |
| `workspace_recoverable` | that of `reconcile` | ends with a counterexample to `WorkspaceRecoverable` |

`choice`, `control`, `reconcile` and `stall` also check `TypeOK`, which says more than types there.
Every safety property of the table is proved for all constants as well.  The last run checks
what a comment states and ends with a counterexample; see
[below](#where-code-and-documentation-disagree).

**Bounds, and why they are enough to see the cases.**
*Lock*: the bad interleavings need a holder, a waiter that judged an older file,
and a third caller whose file is hit; two contexts of one process matter because
they share a pid.  *Store*: after two faults in a row a recovery is itself
interrupted; four leave room for a torn line, a failed repair, a crashed repair
and another commit.  *Locked store*: two
callers suffice for a waiter that takes over from a dead or a failed holder and
for both kinds of robbery by a single waiter; the second commit is a mutation
behind the other caller's save, and the fault is a death or a failed operation
inside either.  *Identity*: displacement needs two epochs; either process may
launch, be the detached child, die and come back as the rival, so two play all
the roles a claim tells apart; the second revision invalidates the first, and
the third is needed for a semantics binding after a candidate.  *Choice*: the first request,
its reissue or reconfirmation after a takeover, and one more (`Spare` keeps a
request for each process that may still take over, so that no behaviour is cut
short by the bound just after a takeover); two humans for racing answers.
*Queue*: two workers race to reclaim one lease, and the third claim is the one
made between their two returns.  Jobs share nothing but the directories, so one
job shows the races; the proofs hold for any number of each.  *Control*: a
displaced controller and its successor, each with a session that may survive
it; a pause, its resume, and the epoch of a cancellation between.  *Cancel*:
the controller's number and one that passes from a child to a sibling or back;
two cancellations with one server or two; the third epoch is the second
cancellation's.  *Reconcile*: two reconciliations with stale copies of the
registry; the second execution is the one the gate refuses.  *Stall*: two drives
race for one orphan while the cap is one attempt away; the first death leaves
the orphan, the second strikes its reconciliation.

**Deadlock.** Checked where the system can always go on (lock, store, locked
store, queue, stall: callers call again, workers poll, drives start anew).
The other modules describe one operation, which ends: their configurations say
`CHECK_DEADLOCK FALSE`.

**Symmetry** is over processes, humans, digests, jobs, workers, drives,
cancellations and servers, which no definition names, and only in runs without liveness properties.

Every property that holds is one that a small change of the code would break:
the operators commented "Mutant" stand beside the definitions they
replace (a lock opened with `w`, an epoch not advanced, an append without a look
at the log, a reservation overwritten, a run without a release ...), and TLC
finds the property violated with each of them.

## Fairness

- `OperationLock!LockFairSpec`: weak fairness of each caller's next step.  A pending
  promise of a live process is resolved by the event loop; a file operation
  returns or fails.  Calling, ageing and crashing are not fair.
- `OperationStore!FairSpec`: weak fairness of each holder's next step, as above,
  and of somebody loading an operation whose outbox is full: the Control Center
  and the operation monitor poll every operation (`loadOperation` recovers what
  it finds).  Crashes are bounded by `MaxFaults`: the property speaks of what
  happens once they stop.
- `ProductChoice!FairSpec`: weak fairness of each live controller, which polls
  the ledger in a loop with a sleep.  Humans, expiry, takeovers and crashes are
  not fair: `AnswerTaken` allows the waiting controller to be dead.
- `TerminalReconciliation!FairSpec`: weak fairness of *some* sweep or step of a
  reconciliation.  Every start of an operation sweeps the terminal operations
  whose cleanup is not complete (`reconcileTerminalOperationResources`), so the
  property speaks of a root where operations go on being started; any one
  reconciliation may hang for ever.  Faults are bounded.

The queue has no liveness property: a job can be stuck for ever ("Stuck
jobs" below), and what does hold is that it stays visible.

## The proofs

Checked by `tlapm` for every value of the constants that the `ASSUME`s of the
modules allow (bounds are natural numbers, the epochs, revisions, requests and
the cap positive ones; `None`, `Torn`, `NoFile` are not confused with the values
they stand beside, nor a workspace with a process number; a caller runs in one
of the processes; the drives of a phase and the controllers of a choice are
finitely many).

**OperationStoreProofs** - `StoreInv`: whoever is not idle holds the lock
(`Exclusive`), an outbox event is that of the last commit (`OutboxOwn`), the log
is exact (`LogExact`) and ends with the outbox event once published
(`LastLogged`), each phase says whether outbox and log agree (`PhaseOK`), and a
tail belongs to an unpublished outbox event (`TailOK`).  `LogExact` alone is not
inductive: that the next append keeps it needs to know what the outbox holds and
who may act.  Theorems: `EventLogIsExact` (with `AckedPublished`),
`TornLineIsRecoverable`, and `StoreImplementsLog`, the refinement of
`OperationLog` under the mapping that counts the outbox event as published
(`Promised`): only `StageRecord` is a step of the abstract log, all recoveries,
retries and crashes stutter.

The lock is in the same module.  `LockInv` is `LockTypeOK` and
`ExclusionUnlessRobbed`, inductive together.  `LockExclusion`: an unrobbed
holder owns the file at the path.  `MutexWhileNobodyRobbed`: while no live
holder has been robbed, two live callers are never inside together, so that
exclusion is lost only by the removal of a live holder's file.
`RobberyStartsInRecoveryOrRethrow`: the first such removal is a waiter's
recovery or the second `rm` of an action that threw; the release of a holder
nobody robbed takes only its own file.

Then the composition.  `LockedInv` joins `LockInv` and, until a robbery,
`StoreInv` with two links between the components: whoever is at work on the
record is alive and inside (`Admitted`), and the caller the store takes for the
holder is at work (`HolderInside`).  Neither component has them: they are what
makes the file at the lock path mean something for the record.  The one step
that needs an argument is `Enters` (`NobodyInside`): the caller that has written
its pid owns the file, a caller still at work would own it too, so there is
none, and the store's `lock` is free.  Theorems: `LockRunsUnderStore` (the lock
half implements `OperationLock`), `LockProvidesExclusion` (the property
`LockGivesStore`), `LockedLogIsExact` (the store's invariants in every state
before a robbery) and `LockedStoreCommitsAtomically`: a behaviour in which
nobody is robbed implements `OperationLog`, from the lock file up.  The
hypothesis is as weak as the code allows: the finding about the lock below is a
behaviour in which a live holder is robbed.

**OperationIdentityProofs** - `IdentityInv` joins `TypeOK`, `PolicyCurrent`,
`BindingsCurrent` and `TokenLineage`.  The bindings need the policy (a binding
is current because the policy it names is the frozen one and is current), and
the lineage needs that nobody holds an epoch later than the record's.  One lemma
per kind of commit says what `IdentityTransition` lets through.  Theorems:
`AuthorityIsCurrent`, `PolicyIsCurrent`, `TokensStayInLineage`, and the action
properties `TerminalIsFinal` and `IdentityOnlyAdvances`.

**DistributedQueueProofs** - `QueueInv`: the dispatcher's phase fixes what
`released/` holds (`OneRelease`), runs are of released sessions
(`RunsReleased`), a PASS - in a worker's memory or in `completed/` - was run
(`PassesRan`), a worker's memory fits its phase (`MemoryOK`), a lease id handed
out is used by one claim (`FreshLeases`), a worker and the lease file it works
on agree on the job (`LeaseJobs`), and a submitted job always has an anchor: a
pending file, a result, or a lease that no reclaimer or finished worker is
about to remove (`Anchored`).  The last is what `JobVisible` needs: two
reclaimers may be about to remove a lease, so the lease alone is no promise.
Theorems: `AgentRunsOnce`, `AcceptedResultWasRun`, `JobStaysVisible`.

**ProductChoiceProofs** - `ChoiceInv`: nothing is known of a request that was not
issued (`Known`), what a controller read of a request stays true although the
record has moved on (`Reads`: behind the lookup the decision, then its receipt,
are in the ledger under the binding it read), a submitter past its reservation
holds it (`Answers`), and an owner that works has a choice of its own epoch
(`Works`).  `ReceiptBacked` alone is not inductive: the controller marks the
record several steps after it has consumed, from what it read before.  Theorems:
`ChoiceTypes`, `ConsumedHasReceipt`, `ChoiceIsCurrent`, `AcceptedAnswerStands`,
and the action property `ConsentIsFresh`.

**StallRetryBudgetProofs** - `StallInv`: the orphans counted are the tombstones
(`Tombstones`), generations are drawn once and a claim in a grave is not at the
marker path (`Dated`), attempts in flight have different claims (`OwnClaims`),
and for each drive what it may rely on: its own attempt is not settled by
another (`Attempt`), the orphan it decided on before the lock is still the one
it disposes of inside (`Decided`), and while no claim was swept an attempt in
flight is the marked one (`Marked`).  A step of one drive keeps the parts of the
others by a rely condition (`Kept`).  Theorems: `StallTypes`, `OrphansCountOnce`,
`OneAttemptAtATime`, `AttemptsArePaid`, and `OvershootIsBounded`, which adds a
count of the drives past the gate for any number of drives.

**OperationControlProofs** - `ControlInv` has three layers.  What the owner of the
record relies on holds whatever happened (`Claimed`, `Owner`, `Deciding`: between
the consumed decision and its commit nothing moves the identity).  The fence of
the lease table holds unless a controller survived its own cancellation
(`Lone`, `Covered`, `InTurn`: the one lease names the running session, or no
session, and is then taken over by nobody).  The silence of a pause needs both,
and that no drain was blind and no pause patched over (`Silent`, `Drained`).
Theorems: `ControlTypes`, `OneSessionWrites`, `PauseIsSilent`, `PauseCanEnd`, and
the action property `DecisionsApplyOnce`.

**OperationCancellationProofs** - `CancelInv`: per call, the environment of a
server that it has for itself carries the epoch it claimed (`EnvOwn`), every
process of the operation is unlisted, still to be signalled or warned of
(`Tracked`), likewise every lease (`LeasesTracked`), and the call that ended the
operation has nothing left but its hook (`Ended`, `Stops`).  `WritersStopped`
speaks only of the end; the loop that gets there is `Tracked`.  Theorems:
`CancellationTypes`, `CancelledMeansStopped`, `RetryFindsTheProcesses`,
`DisplacedCallsStop`, and the action property `RetryStaysPossible`: a running
operation is cancellable, or a call that still holds the current epoch is about to
rebind the policy, and only the crash or failed write of that very call ends this.

**TerminalReconciliationProofs** - `ReconcileInv`.  The gate lets one create
through, so that there is one workspace at most, and only a created one is named
anywhere (`Single`, `Stepping`); before the terminal transition nothing is
released (`Early`).  After it, whatever the controller, the hook or another
reconciliation does is a step of `Later`: no workspace becomes the operation's
own any more, none comes back to life, and an intent that names a live one is
not lost unless the record names it.  That is what lets a
reconciliation with an old copy of the registry (`Copy`) keep its knowledge of a
live workspace (`Tracked`) through to its unlocked write, and a sweep without
failure (`Swept`) leave a true receipt (`Complete`).  A cancelled operation has
no controller and no handle once the flag is set (`Shut`), so that a call
without the guard has no number to signal (`Spared`).  Theorems:
`ReconciliationTypes`, `WorkspaceStaysTraced`, `CompleteReceiptIsTrue` (which the
proof shows without the restriction to a controller that is gone), and
`SiblingsUnharmed`.

## Where code and documentation disagree

`workspace_recoverable` - "Full registration supersedes the create-started
intent: the record now durably proves ownership, so the intent is removed"
(`operations/controller.ts:588-589`).  The registry is written only after that
removal.  If the controller dies in between and an audit is executed again, the
action intent of the first create is still there and the gate refuses a second
one; `ensureOperationWorkspace` returns a warning, and the patch at
`operations/controller.ts:582` writes `workspaceId: undefined` over the identity
in the record.  The live workspace is then in no file a reconciliation reads.
`WorkspaceTraced` says that this, and a controller that goes on after the
deadline, are the only ways.

Other behaviours that the models contain and that a maintainer should know of.
Lock, identity, choice and queue:

- *The lock excludes only while nobody is robbed* (`operations/state.ts:2180`).
  It is removed by name: a failed action removes it twice, and a waiter removes
  a file it judged before somebody else created the present one.  Two callers can
  be inside together.
- *A live controller can be displaced* (`operations/state.ts:562`).  A launcher
  that dies between the spawn and `bindControllerProcess` leaves its own pid in
  the record, and the live child is displaced by an ordinary claim.
- *Retrying the bind of an assembled candidate is refused*
  (`operations/state.ts:729`): the retry keeps the revision, and its event type
  demands an advance.
- *A consumed choice is not reopened after a takeover*
  (`docs/ENGINEERING_LEDGER.md:193`): one that was consumed and not yet applied is
  refused and the operation fails.
- *Two unexpired leases of one job* (`docs/V0.5.md:38`).  Two reclaimers of an
  expired lease return its job twice, the second time after it was claimed again.
  `RunsBoundOnce` still holds: the dispatcher binds one.
- *A PASS can be lost.*  `completed/` is overwritten (`distributed/queue.ts:38`): the
  FAIL of a second claim may replace the PASS of the first before the dispatcher
  polls.  `AcceptedWasRun` is about what is accepted and does not notice.

- *A provisional policy after a takeover.*  The semantics digest survives the
  takeover and the bootstrap policy is provisional again.  Binding the same
  digest then returns a record with the next execution revision
  (`operations/state.ts:1603`), while the check wants an advance only for a new
  digest (2043), and refuses it.  `BindOperationExecutionSemantics` is disabled
  there.
- *A choice on the first path.*  Authoring binds a changed worktree as a new
  candidate (`operations/change.ts:424`) before the checkpoint of a consumed
  choice is loaded (437), which is then stale: `ApplyRefused` ends the operation.
- *A work graph after an applied choice.*  `executePlannerWaves` opens a second
  execution revision while the continuation is kept, and the policy of the
  blueprint is refused (`operations/state.ts:835`): `BlueprintRefused`.
- *A conflict that is none.*  A controller that polls between a submitter's two
  ledger writes materialises the decision itself; the submitter is told of a
  conflict although its answer stands (`RecordDecision`).
- *Stuck jobs.*  A worker that dies between renaming a job and writing its
  envelope leaves a lease that never expires (`distributed/queue.ts:28`); the
  session file of a dead worker refuses everyone who claims its job later
  (`distributed/queue.ts:60`).

Pause, cancellation, reconciliation and the stall ledger:

- *An unreadable snapshot is an empty one.*  The drain of a pause counts a lease
  snapshot it cannot read as no leases (`operations/control.ts:15`).
- *The launcher's last patch* (phase "dispatched", `operations/controller.ts:397`)
  may come after a pause; the wait then ends without a RESUME.
- *A displaced controller acquires leases*: `acquireProviderLease` does not look
  at the epoch of the record.
- *A decision consumed and not applied.*  A crash between `consumeExact` and the
  commit (`operations/state.ts:1495`) loses the request; somebody has to ask
  again.  Two live decisions of one command, or one that expires between its
  reading and its consumption, fail the operation.  A PAUSE recorded while
  the operation is already paused pauses it again after the resume.
- *A participant left RUNNING* (`workers/agentPrompt.ts:1698`) or a lease left
  UNCERTAIN without a session makes every later drain, and every later turn,
  wait for somebody who is gone.
- *CANCELLED is not quiet* (`docs/CORE_ARCHITECTURE_V2.md:672`).  The kill set
  drops a number that a stale file of a sibling names, and a child forked after
  the survey is in no set.  `WritersStopped` says exactly this much: what was
  surveyed is gone.
- *Two cancellations in one server* share the environment: a displaced one may
  terminalise with its successor's token, and the refused one wipes the other's
  when it leaves.  `DisplacedStops` is about servers of their own.
- *A sibling inside the grace of a termination.*  Each target is "re-proven
  immediately before signaling" (`operations/controller.ts:901`), which leaves
  "microseconds per pid" (2287).  That is so for the SIGTERM;
  `terminateManagedProcessGroup` then waits 250 ms and sends SIGKILL to the same
  number without another scan (`utils/process.ts:836-838`).  A sibling that takes
  and registers the number in between is killed, and the number counts as
  signalled.  The same holds for the watchdog (`operations/controller.ts:1646`) and
  for the reconciliation (`runtime/operationResources.ts:1803`).
  `OperationCancellation!SiblingsSpared` states the promise; it is not checked in
  a run, because TLC refutes it (a cancellation surveys and signals, the process
  ends, a sibling starts under the number and registers, `Kill`).
- *A server that dies between the claim and the policy rebind*, or whose rebinding
  write fails, leaves an operation that no cancellation can take up again, only the
  deadline: the one exception of `StaysCancellable`.  An unresolved
  action intent has the same effect: reconciling it needs an authorisation under
  the epoch the claim has just replaced (`operations/controller.ts:1118`).
- *An UNCERTAIN ending past the deadline* gets phase HUMAN_REQUIRED, and the
  reconciliation then signals the recorded numbers without the guard of a
  cancelled operation.  A failed fenced clear leaves a process OWNED in the
  registry.  The monitor's number is signalled without a look at siblings
  (`operations/monitorProcess.ts:53`).
- *No second workspace.*  After a crash past the gate the operation never gets a
  workspace again; for a change every further execution fails.
- *Registry and receipt are last-writer-wins.*  A stale listing clears an intent
  that was upgraded meanwhile (`runtime/operationResources.ts:588`), an intent
  upgraded after a complete receipt is not swept, an incomplete receipt
  overwrites a complete one.  An intent without identity leaks its workspace
  (documented there).
- *A third attempt.*  A claim that finds no marker does not look at the count
  again (`operations/stallRetryBudget.ts:774`), so that a drive that passed the
  gate launches an attempt although another has exhausted the budget meanwhile:
  `OvershootBounded` says that this happens once per extra drive at most.
- *What a sweep breaks.*  Two drives that decide on one legacy marker race for its
  TAKE, and the slower one may rename the claim the faster has written since
  (`operations/stallRetryBudget.ts:1728`); a drive that lost its marker so may then
  remove another drive's, which is compared by attempt number only (1114).
  `OneLiveAttempt`, `NoFreeAttempt` and `OvershootBounded` say nothing after
  such a sweep (`NothingSwept`): the model reaches states in which they fail.
- *An uncounted legacy orphan.*  A drive that dies after it has taken a legacy marker
  (`operations/stallRetryBudget.ts:1733`) and before it has counted it (1817) loses
  that attempt.  `NoFreeAttempt` is about the attempts of the drives modelled,
  and the one behind the legacy marker is none of them.

## What is only model-checked, and what is not modelled

Only model-checked: the liveness properties (`OrphanLockRecovered`,
`OutboxDrains`, `AnswerTaken`, `CleanupCompletes`), because fairness is outside
what the proof system handles, and the counterexample above.

Left out of the modelled parts: the JSON of records and events, digests
(identified with what they are digests of), clock values (an expiry may pass at
any time), the text of requests and answers, signatures and grants of delegated
decisions, chains of several choices in one operation, and equality of two
events by time stamp (events have identities here).

Left out of the reconciliation: agents, provider sessions, staging roots and wave
slots, which are collected and released by the same loop as workspaces and
processes but named by one file only.

Not modelled at all, in this version: receipts and terminal gates, supervision
timers, wave execution, candidate assembly, the other gated tool actions and the
result sink (in the plan); and, because they keep no shared state or are I/O
with an external system: compilers and prompt pipelines, validators, adapters,
the Paseo daemon, HTTP plumbing, Git and GitHub.  The modelled files are a small
part of the repository's 130,000 lines: most of those compile, validate, hash
and render documents sequentially, or talk to external programs, and have
no state that two steps could disagree about.

## Plan

Modules, in order of what an operation depends on most:

1. **TerminalGate** - receipts by revision and what a success requires, delivery
   of completion.  Properties: a success rests on receipts of its own candidate;
   a completion is delivered at least once and recorded once.
2. **WaveExecution** and **CandidateAssembly** - the barrier between waves, retries
   of units, assembly of ChangeSets; an abstract "all results of a wave become
   one candidate or none do" with the detailed module refining it.
3. **Supervision** - deadlines, wake budget, generations of the supervisor.
4. **ToolActionGate**, **ResultCommit** - reservations and reconciliation of the
   other actions, one result per attempt.

Theorems: for LockedStore, what survives a robbery (each caller with its own
copy of record and log); for each new module its inductive invariant.  What a recursive definition
computes for every input stays with TLC.
