# A TLA+ model of agent-systems-benchmark

This directory specifies the parts of the benchmark that decide whether a run
may have an effect, what is remembered of it, and what a restart makes of that
memory: the durable store (`crates/asb-store`), the orchestrator
(`crates/asb-orchestrator`) and the control backend above it
(`crates/asb-cli/src/control.rs`); the capacity scheduler, the contained
processes and CPU leases (`crates/asb-runtime`); the container-suite runner
(`crates/asb-csb-runner`); and strict replay (`crates/asb-replay`). The
specifications are written from the Rust source; `PROJECT.json` maps each
definition to the lines it stands for. TLC checks small instances; TLAPS proves
the safety properties of all of these for every instance.

    tlc -config AtomicStore.cfg MCAtomicStore
    tlc -config Orchestrator.cfg MCOrchestrator
    tlc -config Sandbox.cfg MCSandbox
    tlapm OrchestratorProofs.tla

## 1. Inventory

The workspace is about 150 000 lines of Rust in fifteen crates, plus Python
tooling. What follows is every part that keeps state, in the order in which
the plan takes them up.

| Part | State | Operations | What is hard | What makes it correct |
| --- | --- | --- | --- | --- |
| Durable store, `asb-store/src/lib.rs` | one directory per run: manifest, journal, artifacts; a file lock | `create_run`, `append`, `put_artifact`, `run_ids`, `load_*`, `recovery_decision` | several processes; death or power loss between staging, rename and directory sync; a sync that fails after its rename | acknowledged data survives, journals decode, no second start |
| Orchestrator, `asb-orchestrator/src/lib.rs` | records (status, capability, events, barrier), key bindings, next number | `open`, `admit`, `start`, `execute`, `cancel`, `complete`, `reconcile`, fan-out | a journal write or a cleanup fails half-way; restart from any state; retries with the same key | one execution per attempt, intent before effect, status agrees with journal, one execution per key |
| Authority source, `asb-cli/src/control.rs` | cancelled flags per run, plans | `prepare`, `execute_until`, `cancel` | a timer thread races with the execution it limits | authority is revoked exactly when the orchestrator says so |
| Control backend, `asb-cli/src/control.rs` | a catalog file: plans, runs, events, mutation records; a worker thread per launch | create plan, launch, status, cancel, repeat, retry by key, restart | a failed commit on either side of its rename; a death between intent and commit; two mutexes and a gate; deadlines in every call | one execution per committed launch, what is reported as ended is journaled, the catalog loads |
| Recording campaigns, `asb-cli/src/control.rs` | campaign records of the catalog, cassette files | select, execute, reconcile, retry, seal, remove | captured files are bound and unlinked after the commit | a sealed cassette exists and covers what it says |
| Scheduler, `asb-runtime/src/scheduler.rs` | arrivals, queue, active workers, records, stop reasons | closed and open loop admission, worker events | events of worker threads arrive between clock samples; limits on queue, failures, duration; clock faults | every planned attempt ends in one record; the first reason to stop is kept |
| Budget ledger, `asb-core/src/budget.rs` | remaining amounts, active reservations | `reserve`, `settle` | a settlement above its reservation is refused half-way | remaining plus reserved plus consumed is constant |
| Control session, `asb-control/src/state.rs` | in-flight requests, idempotency index, event window | `admit`, `finish`, `check`, `append`, `page` | full index, evicted events, stale cursors | retries are answered, gaps are reported |
| Control endpoint and broker, `asb-control/src/{endpoint,handoff}.rs` | shared permits, generations | `acquire`, `try_acquire`, handshake | two listeners share one counter | never more than the ceiling, no lost permit |
| Strict replay, `asb-replay/src/service.rs` | cursor and reservation per route | `reserve`, `finish_reservation` | connections of one route interleave | each recorded interaction is delivered at most once, in order |
| Processes and leases, `asb-runtime/src/{lib,sandbox}.rs` | process groups, systemd scopes, CPU lease files | `spawn`, `cancel`, `wait`, `drop`, `acquire`, quarantine | exit races with cancellation; a tool fails half-way; a death leaves leases | no CPU is freed under a live process, no foreign process is signalled |
| Container-suite runner, `asb-csb-runner/src/lib.rs` | operations of a session, the run's journal | `start_with`, `cancel`, `wait` | retry and race of one run; a cleanup that fails after the program ended | one process per run, an outcome only of a scope that is gone |

Interaction: a frontend calls the control endpoint; its backend owns one
`Orchestrator` and calls it with `&mut self`, so orchestrator calls never
overlap. The orchestrator writes through `AtomicStore` and asks the authority
source to prepare, execute and revoke. The authority source runs the scheduler,
whose workers start processes and write results to a second store root. After
a restart `open` rebuilds everything from the store and the catalog. The
container-suite runner is a second client of sandbox and store.

`PROJECT.json` lists all components, the ones without a model with the reason,
and under `hazards` the places in this code that are hard to test.

## 2. Modules

| Module | Models | Uses |
| --- | --- | --- |
| `Lifecycle` | the two state vocabularies, `validate_transition`, `decode_journal`, `to_state`, `from_state`, `recovery_decision` | - |
| `JournalSpec` | what a caller of the store may rely on: runs and events are first visible, then promised; a power loss keeps the promised runs and their promised events | `Lifecycle` |
| `AtomicStore` | the store itself, per process, split at every staged write, rename and directory sync | `Lifecycle`, instance of `JournalSpec` |
| `Orchestrator` | the service, on a store that behaves as `JournalSpec` | `Lifecycle`, instance of `JournalSpec` |
| `RunnerBackend` | the control backend: client threads, worker threads, timer threads, catalog, and the orchestrator reduced to a status and a last journaled state per run | `Lifecycle` |
| `Scheduler` | one capacity point: scheduler thread, workers, channel, clock | - |
| `Replay` | the strict replay service with its paced writer | - |
| `Sandbox` | leases, process groups and scopes of competing launches | - |
| `CsbRunner` | the container-suite runner | extends `Sandbox`; instance of `JournalSpec` |
| `MC...` | plans, cassettes, CPU sets and symmetry for TLC | |
| `LifecycleProofs`, `AtomicStoreProofs`, `OrchestratorProofs`, `RunnerBackendProofs`, `SchedulerProofs`, `ReplayProofs`, `SandboxProofs`, `CsbRunnerProofs` | lemmas and theorems, each module on the one it is named after; `CsbRunnerProofs` extends `SandboxProofs` | |

`AtomicStore` implements `JournalSpec` (checked and proved). `Orchestrator`
implements it too when only its disk is looked at, and every step of
`CsbRunner` is to the store a step of `JournalSpec` or none (both proved), so
what holds of them on the abstract journal holds of them on the real store. One
simplification of that composition: the orchestrator is the only writer of its
root, as in the program, where `FrontendOrchestration::open` gives it a
directory of its own.

### AtomicStore

| State | Code |
| --- | --- |
| `lock` | the lock on `store.lock` |
| `pc`, `req` | how far each process is in its call, and the staged content |
| `manifest`, `journal`, `blobs`, `debris` | what the file system shows now; `debris` are stage directories left in `runs/` |
| `diskRuns`, `diskJournal`, `diskBlobs`, `diskStages` | the directory entries a power loss cannot take back |
| `ackedRuns`, `acked`, `ackedBlobs` | what callers were told (history variables; no loss changes them) |

Every call that passes its checks has a stage step (checks under the lock and
the synced temporary file), a rename step (visible to everyone) and a sync step
(durable, and Ok). `CallFails` and `CreateFails` are the error paths at each
point, `Crash` a process death, `PowerLoss` the loss of any unsynced entries.
Contents of files are synced before they are renamed, so a torn file is never
visible under its final name; checksums are therefore not modelled.

`AckedSurvive` promises two things: a run whose `create_run` returned Ok is never
lost, and as long as a run is there it shows every event that was acknowledged
on it. Together they protect every event of an acknowledged run. They do not
protect the events of a run whose `create_run` failed: section 5.

### Orchestrator

A run is its number `n` (`run-n`). `admit` takes two numbers, one for the run
and one for the attempt, hence `nextId + 2`. A request is a key and a digest; a
handle is a run number with the request it was fenced with. `call` is the
handler in progress: every store write, every call into the authority source
and every point at which one of them can fail is a step of its own, with its
guard taken from the code. `Persisted` and `Fence` are the two ways out of
`persist_for`. `holds` (authority outside the process), `execs` (entries into
`execute_until`) and `issued` (handles returned) are what the world sees; they
survive a process death, while a power loss ends every process and thereby
clears `holds`.

Calls that return an error without changing anything (stale handle, wrong
status, key conflict, too many active runs, invalid request) are stuttering
steps. Deadlines and limits of an execution only choose between the outcomes of
`ExecuteReturns`.

After a failed admission a run may be on disk whose key is bound to nothing. A
retry admits a second run under the key, and a restart binds the key to one of
the two, by the order of their names. `OneExecutionPerKey` says that this never
repeats work: of all runs of a key at most one is executed. `OneHandlePerKey`,
that the key always names the same run, is what the documentation says and what
the program does not do (section 5).

### RunnerBackend

`catalog` is the file and the copy in memory, which `commit_staged_catalog`
reads back after an error; a fault may leave the old or the new content (the
rename succeeded, the sync did not). A failure of that read itself is not
modelled, nor is power loss. `call[c]` is where a client's handler is: the
places in `Holding` own the catalog mutex, `worker[r]` in `Executing` owns the
orchestrator mutex. Launch is looked up, admitted, recorded as intent, started,
handed to a worker that waits at its gate, committed and let go, with the
deadline checks and `quarantine_launch` in between. `flag`, `source` and
`asked` are the authority source's maps, `TimerFires` its timer thread. `ran`
and `answers` are history. `ran` also stands for the journal of the execution in
the result store, by which a restart judges a launch whose commit is missing.
`Open` is the whole of `open_backend`, including
`reconcile_catalog` and its commit, which unlike all others is not validated.

### Scheduler

One step per event drained, per clock sample and per attempt admitted; workers
sample the clock and send their event in one step. `CheckedClock` may fail at
any sample; the watchdog is `SampleWatchdog`. A failure of the very first
sample rejects the point like one at the start of a phase (`BeginRejected`).
"Failed" stands for the outcomes TimedOut and Cancelled as well. The shuffle of
the attempts and the queue delays are left out: an attempt is its place in the
shuffled order.

### Replay

`reserve` and `finish_reservation` are single steps under the service's mutex;
between them the response is written segment by segment: wait for the recorded
offset, write, flush, check lateness, backpressure and the cancellation token,
each of which may end the delivery. A request either equals a recorded one or
does not; `Malformed` is whatever the HTTP reader or the dialect refuse.
`delivered` and `unflushed` are history.

### Sandbox and CsbRunner

Each launch has a thread that is split at every system call and `systemctl`
command. The host moves by itself: the leader enters its scope, exits, dies of
a signal; other processes of the scope live in sessions of their own, so a
signal to the group does not reach them; systemd ends an empty scope, and any
scope after RuntimeMaxSec. `taken` is a launch whose unit name belongs to a
stranger. `harmed` and `touched` are history. The owner may cancel, wait and
drop in any order. A program that fails before its scope is proven to be owned
keeps its CPUs quarantined; this is what the crate's README says it does.

`stuck` are lease files whose removal failed. `rollback` and `acquire` ignore
that error (sandbox.rs:194 and 246), so the file stays without an owner and the
CPU is refused to every later lease, which is safe but lasts until somebody
removes the file. `CleanupReleases` excepts exactly these files.

`CsbRunner` drives a `Sandbox` launch: `start_with` admits, journals Running,
spawns; `wait` reaps, journals Collecting, stores artifacts, journals the
outcome, releases the operation. If the journal cannot be read between admission
and intent (`IntentUnread`), the operation stays active although nothing was
started, as in the code. The store is `JournalSpec` without power loss,
so each append is a visible step and an acknowledged one. Two launches of one
run are a retry in one process or a race of two.

## 3. Runs

`MaxJournal = 5` is the longest lifecycle. Deadlock is checked for the store,
where an idle process can always call again. It is not checked elsewhere, where
the program really stops: run numbers, calls and launches are bounded, a point
ends, a connection is served once, and a leftover stage directory makes every
later `open` of the orchestrator fail.

| Run | Bounds | States | Shows |
| --- | --- | --- | --- |
| `store` | 2 processes, 1 run, 2 attempts, 1 artifact, full lifecycle | 34 392 | `AckedSurvive`, `JournalsDecode`, `NoSecondStart`, `TerminalIsFinal`, refinement of `JournalSpec` |
| `store_listing` | 1 process, 1 run | violation | `ListedRunsLoad` fails |
| `orchestrator` | 2 keys, runs 9 to 11, 1 active, 5 events, 3 faults, power losses, reconciling operator | 105 460 | `AtMostOneExecution`, `IntentBeforeEffect`, `StatusMatchesJournal`, `ExecutedRunsAreSettled`, `TerminalHoldsNothing`, `OneExecutionPerKey`, `ExecutedRunsConclude` |
| `orchestrator_keys` | 1 key, runs 9 to 11, 2 faults, no power loss | violation | `OneHandlePerKey` fails |
| `orchestrator_fenced` | 1 key, 1 run, no fault | violation | `FencedRunsConclude` fails |
| `backend_safety` | 2 clients, 2 keys, 2 plans, 3 calls, 2 faults | 2 007 958 | `CatalogLoads`, `ExecutesCommittedOnce`, `CancelIsDurable`, `OneRequestPerKey`, `ReportedEndIsJournaled`, `RunsAreAdmitted` |
| `backend_liveness` | 2 clients, 2 keys, 1 plan, 2 calls, 1 fault | 22 877 | `CallsReturn`, `ExecutedRunsAreReported` |
| `scheduler` | 5 points of 2 or 3 attempts, clock up to 1 past the deadline | 784 205 | `EveryAttemptAccounted`, `BoundedWork`, `FailureBudget`, `ReasonsAreFinal`, `PointEnds` |
| `replay` | 3 connections, 2 routes of 3 and 1 interactions, 2 segments | 414 014 | `ReservationsAreOwned`, `NothingSkipped`, `RepeatedOnlyUnflushed`, `RoutesAreReleased` |
| `replay_written` | the same | violation | `WrittenOnce` fails |
| `sandbox` | 2 launches that share one of two CPUs, 2 faults | 645 679 | `FreeCpusAreIdle`, `StrangersAreSafe`, `CleanupReleases`, `CallsReturn` |
| `csb` | 2 launches, 1 run, 2 sessions, 1 in flight, 2 faults | 416 589 | `SpawnedOnce`, `IntentBeforeSpawn`, `OutcomeMeansGone`, `CompletedIsEarned`, `ReleasedWithEvidence` |

`CatalogLoads`, `BoundedWork`, `ReservationsAreOwned`, `FreeCpusAreIdle` and
`ReleasedWithEvidence` include the type invariant of their module.

Why these bounds: the store's checks compare one journal with one staged copy,
and two processes already race in every order the lock allows. Two attempts are
needed for a stale one. In the orchestrator two runs compete for keys,
numbers and the one active slot, and three faults allow a failed write, a failed
cleanup and a crash in one history. A run reports at most four events, and five after a restart, which
reports Planned as well; `MaxEvents = 5` is therefore room for all of them, and
the runs do not see a list that fills up (section 5). Run numbers are used only
for their order and, after a restart, for the lexical order of their names;
`LexRank` is exact for one and two digits. The instances begin at run 9 because
run-11 comes before run-9 by name: a restart then prefers the older run.
Such a service has spent the smaller numbers on admissions that left no trace.

In the backend three calls are a create or launch, a second launch or a retry
under a reused key, and a cancel; polls are not counted. Two
faults allow a failed commit and a process death in one history. The five
capacity points are the smallest that refill a worker, fill a queue, share a
failure budget between warmups and attempts, and miss a deadline in open loop.
Three connections are needed for one that holds a route, one that is refused
meanwhile and one that retries; two segments for an incomplete response. Two
launches contend for a CPU, and two faults make a cleanup fail and the attempt
to repeat it fail as well.

### Fairness

`FairSpec` of the orchestrator: a live process goes on with the call it is in
(the authority source is bound by a deadline), and a dead one is restarted.
`ReconcilingSpec` adds that `reconcile` is called again and again for a run
that stays fenced; the operator is expected to do so, since nothing else leads
out of that state.

`RunnerBackend`: a thread that waits for a mutex which is free again and again
gets it in the end (strong fairness; the standard library promises no order,
but does not starve a thread for ever), a thread inside a critical section goes
on, deadlines pass, not every refresh misses its deadline, a dead process is
reopened, and a frontend keeps polling the status of a run, as the terminal
frontend does. `Scheduler`: every thread runs and an executor returns; the
clock advances or is found stalled, which `CheckedClock` guarantees by its
stall limit (scheduler.rs:142-145). `Replay`: a connection's thread goes on;
writes have a timeout. `Sandbox`: a thread goes on, a scope is ended by
RuntimeMaxSec at the latest, killed processes die, and systemd notices an empty
scope.

`MaxFaults` bounds the
number of failures, so liveness is claimed for histories in which failures
stop.

## 4. Proofs

All proofs are for arbitrary sets of processes, clients, runs, attempts, keys,
digests, connections, launches, CPUs and sessions, arbitrary plans and cassettes and
arbitrary limits. The assumptions are the named ones of the modules, which TLC
evaluates in every run: `None` is not one of the values it stands beside, bounds
are natural numbers, plans and cassettes have their types, run numbers have at
most two digits. Two theorems of the orchestrator have a hypothesis of their
own, room for the five events of a run, given in the table; it is necessary, and
the control backend asks for room for 1024 (control.rs:1446).

| Theorem | Statement |
| --- | --- |
| `AtomicStoreProofs!Invariant`, `TypeCorrect` | the inductive invariant; `TypeOK` |
| `AckedDataSurvives` | `Spec => []AckedSurvive` |
| `JournalsAlwaysDecode` | `Spec => []JournalsDecode` |
| `NeverStartedTwice` | `Spec => []NoSecondStart` |
| `TerminalJournalsAreFinal` | `Spec => TerminalIsFinal`, a property of steps |
| `Refinement` | `Spec => Promises!Spec`: the store implements `JournalSpec` |
| `PromisesAreKept` | `JournalSpec` by itself loses no promised run and no promised event of a run that is there, and holds lifecycles |
| `OrchestratorProofs!Invariant`, `TypeCorrect` | the inductive invariant; `TypeOK` |
| `ExecutedAtMostOnce` | `Spec => []AtMostOneExecution` |
| `IntentFirst` | `Spec => []IntentBeforeEffect` |
| `TerminalRunsHoldNothing` | `Spec => []TerminalHoldsNothing` |
| `StatusIsJournaled` | `Spec => []StatusMatchesJournal` if `MaxEvents >= 5` |
| `ExecutedRunsSettle` | `Spec => []ExecutedRunsAreSettled` if `MaxEvents >= 5` |
| `KeysExecuteOnce` | `Spec => []OneExecutionPerKey` |
| `ServiceImplementsStore` | `Spec => Store!Spec`: on the disk the service implements `JournalSpec` |
| `OutcomesAreFinal` | `Spec => SettledRunsRest`, a property of steps |
| `RunnerBackendProofs!BackendInvariant` | the inductive invariant |
| `CatalogAlwaysLoads` | `Spec => []CatalogLoads` |
| `LaunchesExecuteOnce` | `Spec => []ExecutesCommittedOnce` |
| `LaunchedPlanExecutes` | `Spec => []ExecutesOwnPlan`: a run executes a plan created with its run id, and the recorded one unless two such plans were created |
| `CancelsAreDurable` | `Spec => []CancelIsDurable` |
| `KeysAnswerOneRequest` | `Spec => []OneRequestPerKey` |
| `EndsAreJournaled` | `Spec => []ReportedEndIsJournaled` |
| `CatalogRunsAreAdmitted` | `Spec => []RunsAreAdmitted` |
| `ReportedEndsStand` | `Spec => EndsStand`, a property of steps |
| `SchedulerProofs!SchedulerInvariant` | the inductive invariant |
| `AllAccounted` | `Spec => []EveryAttemptAccounted` |
| `WorkIsBounded` | `Spec => []BoundedWork` |
| `BudgetHolds` | `Spec => []FailureBudget` |
| `SettledStays` | `Spec => ReasonsAreFinal`, a property of steps |
| `ReplayProofs!ReplayInvariant` | the inductive invariant |
| `ReservationsOwned` | `Spec => []ReservationsAreOwned` |
| `NothingIsSkipped` | `Spec => []NothingSkipped` |
| `RepeatsAreUnflushed` | `Spec => []RepeatedOnlyUnflushed` |
| `SandboxProofs!SandboxInvariant` | the inductive invariant |
| `IdleWhenFree` | `Spec => []FreeCpusAreIdle` |
| `StrangersSafe` | `Spec => []StrangersAreSafe` |
| `ReleasedByCleanup` | `Spec => []CleanupReleases` |
| `CsbRunnerProofs!CsbInvariant` | the inductive invariant |
| `AtMostOneSpawn` | `CsbSpec => []SpawnedOnce` |
| `IntentIsDurable` | `CsbSpec => []IntentBeforeSpawn` |
| `NothingOutlivesOutcome` | `CsbSpec => []OutcomeMeansGone` |
| `CompletionIsEarned` | `CsbSpec => []CompletedIsEarned` |
| `SlotsFreedWithEvidence` | `CsbSpec => []ReleasedWithEvidence` |
| `ContainmentSurvives` | `FreeCpusAreIdle`, `StrangersAreSafe` and `CleanupReleases` under `CsbSpec` |
| `RunnerKeepsContract` | `CsbSpec => [][Store!Next]_Store!vars` |
| `SpawnsFollowIntent` | `CsbSpec => SpawnsUnderIntent`, a property of steps |

**Store.** The invariant says that at most the lock holder is inside a call,
that what it has staged extends the visible journal by one valid event
(`Staged`), and that acknowledged is a prefix of durable and durable a prefix of
visible (`Durable`). None of the promised properties is inductive without these:
the sync step acknowledges what it staged two steps earlier, and only the lock
guarantees that nobody wrote in between. `TerminalIsFinal` follows step by step:
no transition leads out of a terminal state, so a process that has staged an
event for a run whose terminal event was acknowledged cannot exist.

**Orchestrator.** The journal is a lifecycle, and in a lifecycle Planned,
Prepared and Running are the first, second and third event
(`LifecyclePositions`), so the length of a journal says how far a run came. The
invariant counts with it: `Intent` (the creation is promised before the first
event, Planned before the second, Running before the execution), `Admitting`,
`Journaling`, `Executing` (what the call in progress has established so far),
`Records` (a Prepared record belongs to a journal of length two, unless the call
in progress is about to write it) and `Revoked` (no held authority for a
finished run). A second execution would need a Prepared record, hence a journal
of length two, whereas the first one left three promised events.

Two invariants are proved on top of it. `StatusInv` compares every record with
its journal (`Reported`) and the call in progress with its record (`InCall`).
It also counts events: a run that is not finished has at most three, so with
room for five the two events of a conclusion always fit and no handler stops
between a pushed status and its journal entry. With room for four the theorem
is false. `KeyInv` is about runs that have begun, that is, whose journal goes
beyond Planned: a key has at most one (`OneBegun`), a live service has a binding
for the key of each (`BegunAreBound`), and an admission in progress found its
key unbound, so that it makes the first (`Holding`). A restart may bind the key
to another run of the key, one that was abandoned before it began; that run
stays Admitted and never executes, and the key is still bound, so nothing new is
admitted under it. Only a run that has begun executes, and what an execution
left behind was acknowledged, so no power loss takes it back.

`ServiceImplementsStore` maps the four disk variables to themselves: `Store` is
the contract, and each handler's write, acknowledgement or power loss is one of
its actions, every other step a stutter (`StoreStep`). `OutcomesAreFinal` uses
it: once a terminal event was acknowledged, the store adds nothing to the
journal and a power loss takes nothing (`SettledDisk`), a new execution would
need Running as the last event (`Entered`), and authority is refused by
`Revoked`. So a settled run rests, in every call, failure and restart.

**Control backend.** `Asked` and `Called` say what each point of a call has
established: a launch at its commitment has an intent under its key, a run that
has not executed and a source that holds a plan; a cancellation owns its intent
until it settles. Two calls never hold the catalog (`Mutex`), and a key in use
belongs to one call (`OwnKey`: two cancellations never share one, and a launch's
record cannot be taken for a cancellation's). So a commit changes the record of
its own key only (`CallCommits`), and what was answered stays committed
(`Answered`). Every commit satisfies `GrowsTo`: no run is lost, a run that is
added is known to the orchestrator, and an end that is written is the journaled
one. `Journaled` relates orchestrator, journal and catalog of a run; `Threaded`
says that a worker past its gate has a committed launch (`Evidence`); `Executed`
that an execution left Running or more in the journal, so that the orchestrator
never has the run Prepared again. `quarantine_launch` may overwrite a committed
launch, but only while the worker waits at its gate and nothing was answered.
Validity of the catalog is part of the invariant because the commit of a restart
is not validated: a committed cancellation stays valid since its run is
Cancelled in the catalog, hence in the journal, hence in what reconciliation
observes.

The theorems, unlike the run, allow plans that share a run id, which
`create_plan` does not refuse. `ExecutesOwnPlan` says what is left then: the
executed plan was created, with the run's id, and it is the recorded one unless
the catalog holds a second plan of that id (section 5 has the case where it is
not). It needs `CreatedOnly` (the source, the launches at their admission and
the executions know created plans only) and that no step removes a plan
(`PlansStay`).

`EndsStand` says that an end, once in the catalog, is not rewritten by any
refresh, report, launch, quarantine, failed commit or restart, nor is its run
executed or its journal extended. It needs `EndsInv` beside the invariant: only
an execution ends a run (so the run of a launch under way, which has not
executed, has not ended, and `quarantine_launch` may overwrite its record), and
the orchestrator of a live process says of an ended run what the catalog says
(so a later `refresh` or `report` finds nothing new). It cannot be said of
commitments in the same way, because `quarantine_launch` takes a launch back
before it is answered; of those that were answered, `Answered` says it.

**Scheduler.** The invariant follows an attempt from its arrival: queued, in a
worker, its last event in the channel, settled (`Tracked`). A worker sends
Started before its one last event (`Channelled`), and `active` is the number of
live workers plus the number of last events nobody has drained (`Counted`),
which is what makes the exit of the drain loop sound. For the failure budget
the inductive form is that `failures + active` stays within
`max_failures - 1 + in_flight` from the start, not only when the budget is
exhausted.

**Replay.** A connection between reserve and finish holds the reservation of its
route at the route's cursor (`Owns`), and is the only one (`Exclusive`). The
count of deliveries needs two bounds (`Budgeted`): always at most one more than
the failed flushes, and no more than those at the cursor while nobody has an
answer that will be committed; otherwise a retry could not be told from a
second delivery.

**Sandbox.** For each launch the invariant relates the place of its thread to the
handle (`Threaded`), the scope to its processes (`Scoped`), the lease files to
the CPUs it took (`Leased`), and a signal to the way the leader ends
(`Signalled`). A step of one launch leaves the facts of every other one alone.
The argument for `FreeCpusAreIdle` is that lease files are removed in a
rollback only, that a rollback begins before anything was spawned or after the
handle was dropped with `release_on_drop`, and that a handle being dropped with
that flag has a scope that is gone. A file that could not be removed is still
the launch's (`Held`), but no longer among its lease's files.

**Container-suite runner.** `CsbInv` contains the sandbox's invariant. `Unique`
says that only one launch of a run can have appended Running (the journal
accepts it once), so only one can spawn; `Staged` and `Journaled` carry the
facts that `wait` learned (scope gone, artifacts stored, nobody signalled) to
the append that depends on them. `CsbSpec` is not a behaviour of `Sandbox` (the
death of a process ends several launches in one step, and a refused or failed
step of the runner gives a lease or a handle back where the sandbox alone would
not), so `ContainmentSurvives` is proved from `CsbInv` and not inherited.
`SpawnsUnderIntent` is stronger than `IntentBeforeSpawn`: at the step that
spawns, Running is still the last event, so nothing is spawned under an outcome.

Each inductive invariant was checked by TLC on the instance of its run, and so
were `SettledRunsRest`, `EndsStand` (with two calls), `ExecutesOwnPlan` (with
distinct and with shared run ids) and `SpawnsUnderIntent`, which are defined beside their proofs and have no run of their own.
Proving found one class of mistakes in the models: `CASE` with guards that
overlap chooses any of them, where TLC takes the first and the code is an
if-else chain (`WaitReturns` and `Wait` of `Sandbox`, `Refreshed` and
`ReconcileMutation` of `RunnerBackend`); these are written with `IF` now.

Only model-checked: all liveness properties (`ExecutedRunsConclude`,
`PointEnds`, `RoutesAreReleased`, `CallsReturn`, `ExecutedRunsAreReported`),
since the prover has no rules for fairness, and the four violations of
section 5.

## 5. Where the program and its documents disagree

Reproduced by a run, with an entry under `findings`:

- `run_ids` lists stage directories; one that a crash leaves behind makes every
  later `open` fail (`store_listing`). This is why `ExecutedRunsConclude`
  excepts a root with such a directory.
- A run fenced before Running can never be reconciled, because the store
  refuses Failed from Planned and Prepared; cancelling a Prepared run fences it
  for the same reason (`orchestrator_fenced`).
- From `run-10` on, the order of run names is not that of their numbers, and
  `open` binds a key to the last run that carries it. If the admission of run-9
  failed half-way and its retry was answered with run-11, a restart answers the
  same key with run-9, and run-11 is only reached by its handle
  (`orchestrator_keys`). `OneExecutionPerKey` shows that no work is repeated. A
  second way to two handles is a power loss that takes back a run which a
  restarted service had found and given out; the run excludes it.
- Replay writes a response again that was written completely, if the deadline
  of its last segment has passed when it is flushed (`replay_written`).
  `RepeatedOnlyUnflushed` shows that this is the only way.

Met while modelling, possible in the models, but outside the runs above:

- `put_artifact` acknowledges an artifact it finds in place without syncing the
  directory, also when the call that put it there failed before its own sync
  (`PutExisting`).
- `create_run` can fail in its last `sync_dir` (asb-store/src/lib.rs:209) with the
  run already visible. `append` then returns Ok for its events, having synced
  only the directory of the run, and a power loss takes run and acknowledged
  events together. So "every acknowledged event survives" is false; `AckedSurvive`
  says what is true. The orchestrator never appends to such a run
  (`EventsAreKept` in `OrchestratorProofs`), since a failed `create_run` ends the
  admission.
- With `max_events` below 5 an executed run can be left Collecting
  (`ExecutedRunsAreSettled` fails with `MaxEvents = 4`).
- The timer of `execute_until` can set the flag after the deadline was checked
  and before the flag is (`TimerFires`), so an execution that ended in time is
  journaled as Cancelled although nobody cancelled it. Journal and catalog agree
  on it; no document says which end it should have.
- `admit_plan` replaces the plan of a run id before `admit` refuses the
  request; if another plan with that run id was launched and its worker has not
  started to execute, it executes the replacement (control.rs:1304). The runs
  give each plan a run id of its own; `LaunchedPlanExecutes` does not.
- `refresh` waits for the orchestrator mutex with the catalog mutex held, so a
  status call makes a cancel wait for the execution it is to stop, although the
  comment at control.rs:3875 says a cancel never does.
- `refresh` reports a quarantined launch as Prepared again when the
  orchestrator has it so, although docs/FRONTEND_CONTROL_API.md:68 says it
  remains `needs_reconciliation`.

## 6. Plan

1. Done: `Lifecycle`, `JournalSpec`, `AtomicStore`, `Orchestrator`,
   `RunnerBackend`, `Scheduler`, `Replay`, `Sandbox`, `CsbRunner`, their runs,
   the refinement of the store.
2. Done: the safety properties of all modules, for every instance; that the
   orchestrator and the container-suite runner keep to the store's contract.
   Next: that the orchestrator as `RunnerBackend` sees it (a status and a last
   journaled state per run) is what `Orchestrator` provides, as a refinement.
3. Recording campaigns as a second client of the catalog.
4. `Fanout`: `admit_fanout` and `cancel_fanout` as an extension of
   `Orchestrator`, so that its steps are orchestrator steps and all theorems
   carry over.
5. `BudgetLedger`: conservation per dimension; the permits of `AdmissionGuard`.

## 7. Not modelled

Configuration, schemas, bundles, agent adapters, workloads, metrics and
statistics, terminal output: documents and numbers without a lifecycle, or
effects of the operating system. Checksums and size limits inside the store
appear only as refused calls. `Orchestrator::new`, the service without a store,
exists for tests.

Of the control backend, recording campaigns and the agent lifecycle: they keep
records of their own in the catalog and are a subsystem of the size of what is
modelled. Of strict replay, capture and sealing of cassettes, which run before
and apart from the service. Of the runtime, supervisor, live service and
launch factory, whose steps are handshakes with namespaces and helper
processes. The connection permits of the control endpoint, the budget ledger
and the fan-out of the orchestrator are small and are listed in the plan. Most
of the repository's lines are the command line, the terminal frontend, agent
adapters and document formats, which keep no state that a step could leave
inconsistent; the share of lines that a model of this kind can cover is
therefore small.
