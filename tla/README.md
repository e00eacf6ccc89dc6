# shigoto in TLA+

shigoto is a library for a dependency-ordered, fallible, retryable and
parallelism-bounded work graph: a consumer builds a Dag of JobIds, registers
Jobs, gates, retry policies and a budget, and calls `tick()` again and again.
This directory holds a TLA+ model of it, what TLC checks about it and what the
TLA+ proof system proves about it.

    tlc -config MCTick.cfg MCScheduler.tla      a run (the table below names module and cfg)
    tlapm SchedulerProofs.tla                   the proofs; also SoloProofs, RecoveryProofs,
                                                ReconcileProofs, DagProofs, FsmProofs,
                                                RankProofs, SinksProofs

## Inventory

| Part | State | Operations | Hard behaviour | What makes it correct |
|---|---|---|---|---|
| shigoto-types `advance` | none (ten phases, a signal type) | `advance(from, signal)` | callers must never meet a pair it refuses | a tick alone never fails; every phase change is an answer of `advance` |
| shigoto-gate | none | `reduce`, `AllUpstreamsTerminal`, `OperatorApproved` | verdicts from a snapshot | a started job has only terminal upstreams |
| shigoto-budget | three families of u32 counters | `try_allocate`, `release` | saturation, min-intersection, separate lock | counters cover the Running jobs; no cap is exceeded; no slot is lost |
| shigoto-retry | none | `RetryPolicy::decide`, `jitter_ms` | shifts, saturation, casts | attempts fit the phase |
| shigoto-dag | graph, index, declared set | `ensure_node`, `add_edge`, `validate`, `toposort`, `waves`, `predecessors` | undeclared endpoints, cycles, restriction to `affected`, unspecified order | waves are the layers of the graph |
| shigoto-scheduler | `SchedulerState` behind an RwLock, `BudgetTree` behind a Mutex, a clock, an emitter | `tick`, `operator_transition`, registrations, `snapshot_state`, `restore_state` | overlapping ticks and operators, stale reads, panics, retries, errors half-way | order of the Dag, caps, retry account, backoff, an audit log that chains, all jobs settle |
| shigoto-scheduler `store` | a JSON file and its `.json.tmp` sibling | `save`, `load` | crash at any point, write errors, concurrent savers | what is loaded parses and is what was saved |
| shigoto-rank | none (the consumer keeps the deficits) | `urgency`, `rank`, `pick` | saturation, starvation | a bound on how often a unit is passed over |
| shigoto-fsm | the stack and the seen set of a walk | `assert_convergent_fsm` and its checks | cycles, vacuous passes, edges out of `all()` | the walk decides reachability; Ok means convergence |
| shigoto-emit, types/`sink` | sinks behind mutexes, a file | `record`, `drain`, fan-out | concurrent recorders and drains, failed writes | no event is lost, duplicated or out of order in memory; lines stay whole; a failed write has a bounded cost |
| types/`failure`, `chain`, `classify` | none | `classify`, `evaluate` | joined texts, order of rules | a failure nobody can retry away stops at once |
| types/`watch` | none (times are passed in) | `evaluate`, `is_in_window` | boundaries, order of rules, a clock set back | a job that is stuck reaches a human; windows are not missed for ever |
| types/`decision`, `policy` | none | `decide`, `resolve` | cooldowns, bounds, the order of layers | the pool goes where the innermost layers say and stays in its bounds |
| types/`converge`, `RecordingJob` | a sink | `compute_plan`, `apply`, `build_outcome`, the blanket `execute` | partial application, timeouts, retries from another state | executing again changes nothing; a success has its own output |
| types `Snapshot`, `SnapshotSummary` | none | `summary`, `is_idle`, `needs_attention`, `failure_set` | read between any two locks of a tick | an idle summary does not hide work that will move |
| shigoto-test, types/`testing` | none | `idempotence_quickcheck`, cascade laws | | |

How they interact: a tick asks the Dag for its waves once. For every wave it
drives each job through `advance_once` (PASS 1: gate evaluation over a copy of
the phases, backoff check, budget), executes all Running jobs of the wave in
parallel and applies their results one after the other (PASS 2), and lets the
failed ones be retried or given up (PASS 3). Every phase change is `dispatch`:
under the write lock it re-reads the phase, calls `advance`, stores the answer
and emits an event. Between those lock acquisitions everything else may run:
another tick on the same scheduler, an operator, a registration. `hazards` in
PROJECT.json lists where that bites.

## Modules

| Module | Models | State and actions |
|---|---|---|
| `JobFsm` | `JobPhase`, `Signal`, `advance`, `is_terminal` | operators only |
| `Gate` | `reduce`, `AllUpstreamsTerminal` | operators only; a cohort is a set of outcomes |
| `Budget` | `BudgetTree` | operators over `running`, one counter per dimension value |
| `Retry` | `RetryPolicy::decide`, `FailureRecord`, the deadline | operators only; jitter is a band |
| `Scheduler` | `InProcessScheduler`, lock by lock | `phase`, `until`, `registered`, `attempts`, `history` are `SchedulerState`; `running` the budget; `pc`, `cursor`, `job`, `view`, `signal`, `deadline`, `tasks`, `results` the locals of every tick; `outcome`, `unhealed` its receipt; `op` the operator calls; `emitted` the last event per job |
| `Views` | `Snapshot`, `SnapshotSummary` | extends `Scheduler`; a snapshot is read under one lock, so it is a function of its state |
| `WorkGraph` | the promise | `status`: waiting, running, done |
| `Dag` | the graph and its algorithms | `nodes`, `declared`, `edges` are the graph; `pc`, `order`, `at`, `want`, `wave_of` the locals of a call of `waves()`; `answer` what the last call found; `ensure_node`, `add_edge`, `waves_begin`, `waves_visit` (an iteration), `waves_return` |
| `SnapshotStore` | `JsonFileSchedulerStore` over a file system | two names, file contents, the savers' program counters |
| `Recovery` | the scheduler with its store, crashes and restores | `path`, `tmp`, `content`, `shared` are the file system and `saving`, `snapshot`, `open` the saver of an instance of `SnapshotStore`; adds `up`, `crashes` and the history variable `resumed` |
| `ConvergentFsm` | the harness of shigoto-fsm over a consumer's machine | `fsm` the machine; `pc`, `defects`, `todo`, `start`, `seen`, `stack` the locals of `assert_convergent_fsm` and of the walk; `Assert`, `StartWalk`, `Pop`, `Exhausted`, `Return` |
| `Rank` | shigoto-rank in rounds of a consumer | what the accessors answer (`staleness`, `behind`, `drift`, `deficit`, `eligible`); `Round`, `Observe`, `ToggleEligible` |
| `Sinks` | sinks of shigoto-types and shigoto-emit | the in-memory buffer, the audit file and its mutex, the output map, and what the consumer has drained; one action per lock or write |
| `Failures` | `classify`, `Chain`, `ChainedClassifier` | operators only; a text is the set of the phrases in it |
| `Watch` | `TimeoutWatcher`, `EscalationRouting`, `ScheduleWindow` | operators only, over differences of times |
| `Policies` | `CascadePolicy`, its laws, the pool decision | operators only |
| `Converge` | `Change`, `Plan`, `Outcome` and their constructors | operators only; the changes of a plan are a set |
| `Reconcile` | one daemon that uses the four modules above with `JobFsm`, `Gate` and `Retry` | `members`, `since_scaled` the pool; `phase`, `in_phase`, `latest` the job; `stage`, `plan`, `todo`, `applied`, `failed` inside `execute()`; `sink`; `layers`, `since_fire`, `suspended` the operator's and the schedule's |
| `MCScheduler`, `MCRecovery`, `MCDag`, `MCFsm`, `MCRank`, `MCReconcile` | instances for TLC | the jobs left, right and join; budgets; policies; interchangeable ids; small machines and the job lifecycle; units and weights; a pool of two out of three addresses |
| `SchedulerProofs`, `SoloProofs`, `RecoveryProofs`, `ReconcileProofs`, `DagProofs`, `FsmProofs`, `RankProofs`, `SinksProofs` | proofs | |

`Recovery` extends `Scheduler` and instantiates `SnapshotStore` with one saver,
whose snapshots are the projections of the scheduler: every step of `save()`,
its write errors included, interleaves with the steps of the ticks.

The repository ships the primitives of convergence without a program that uses
them together. `Reconcile` puts them to work as their documentation says: the
job is a `RecordingJob`, its body reads the pool, decides, plans and applies
change by change and ends in `build_outcome`; its gates are a `ScheduleWindow`
and `OperatorApproved`; a failed body is an Err with the joined texts of its
failed changes, which a `ChainedClassifier` judges and `RetryPolicy::decide`
acts on; a `TimeoutWatcher` escalates. Which call comes after which, what the
reconciler reads and picks, the pool, the operator and the restart of the daemon
are the consumer's, and marked external in the map. Calls fail or hang, `apply`
carries on past a change that failed (`ApplyFails`) or stops half-way with an
Err (`ApplyAborts`), members die, layers change, the clock is set back, and the
timeout drops `execute()` at any of its awaits, the one after `sink.record`
included.

The actions of `Scheduler` in the order of a tick: `TickStart`; `PhaseOf` (the
read lock of `phase_of`); one of `EvaluateGates`, `CheckBackoff`,
`TryAllocate`, `DecideRetry` (an arm of `advance_once`); `Dispatch`; `Collect`
(PASS 2 reads the Running jobs and spawns); `Return` or `Panic` of a task;
`Joined`; `ApplyOk` with `ResetAttempts`, or `RecordFailure` with `ApplyErr`;
`Release`; `Receipt`. `AbortTick` is the `?` on a refused transition. The other
actors are `OperatorRead`, `OperatorWrite`, `OperatorEmit`, `RegisterJob`,
`ChangeVerdict` (what a consumer gate would answer) and `ClockAdvances`.

`ConvergentFsm`, `Rank` and `Sinks` stand beside the scheduler, as their
crates do: the scheduler calls none of them but the sinks, whose `record` its
emitter is. `MCFsm` joins the harness with `JobFsm`: the successors of a phase
are what `advance` answers for any signal. `ConvergentFsm` keeps the stack of a
walk as a set, since the order of successors is the consumer's and a state that
is on it twice is dropped the second time. In `Rank` the round is external: the
trait only says what a deficit is (lib.rs:96-99). In `Sinks` the file is
external: `writeln!` on an unbuffered `File` is one write for the line and one
for the newline, each of which may fail.

Where steps were merged, they commute with every other action: the
registrations that `execute_concurrent` reads one by one are read in `Collect`
(a later registration is a registration before it), `or_insert(Pending)` is no
step because an absent phase is read as Pending, and `decide_retry` reads the
clock together with the counter.

Mutants: a definition with the comment "Mutant" is a plausible error in the
code. Each property of a passing run is violated under the run's own cfg when
the code's definition is replaced by such a mutant (`mutants` in PROJECT.json).

## Runs

| Run | Configuration | What it shows |
|---|---|---|
| `MCTick` | one ticker and one operator call, the join left, right -> join, a gate that may answer anything at any time, exponential, immediate and no retry, `right` may panic, `left` is registered late or never | `TypeOK`; `BudgetExact`: no slot is lost or invented; `RetryAccount` and `HistoryMatches` (a history of two records for a counter up to four); `TickNeverFails`; `BackoffRespected`; `IdleIsQuiet`: when a summary says idle, all that may still move is what `failure_set` and `needs_attention` name |
| `MCRace` | two overlapping ticks, the join left, right -> join, one slot for left and right, one immediate retry | `DagOrder`, `CountersCoverRunning`, `CapRespected`, and `ImplementsWorkGraph`: every step is a step of the promise |
| `MCDag` | all graphs of 3 ids and at most 4 edges, built in any order; between two edges a call of `waves()` for any jobs, over any order petgraph may return | `WavesLayered`: the waves are the layers; `WavesDetermined`: whatever the order; `EdgesOnlyDelay`: a larger graph moves no job forward; `ValidateExact`, of graphs with cycles and undeclared endpoints too |
| `MCRecover` | left -> join; snapshots and the steps of one saver anywhere beside the ticks, write errors, no crash or one anywhere, restore | `RTypeOK`, `FileParses`, `SavesAtomically`, `StoredSuccessStays`, `RestoredAccount`, `DagOrder`; `ReexecutedOnlyByRestart`: counted over both processes, a job is executed once per Ready -> Running, and a second time only if the restart found it Running; and `AllSettle` under fairness, although restored Running jobs stand on no slot |
| `MCFsm` | all machines of 3 states and at most 3 edges, of which one may deny or claim to be a terminal, with every `all()` and default or overridden resting states; the job lifecycle | `WalkExact`, `OkIsConvergent`, `Terminates`; `LifecycleConverges`: `advance` passes the harness the same repository ships |
| `MCRank` | 3 units in the top tier, one below, one slot | `BoundedWait`: the wait that "a unit that keeps losing accrues deficit until it wins" promises is at most `Patience` rounds per peer |
| `MCSinks` | two recorders of two events, two failures, two drains | `KeptInOrder`, `LinesNotInterleaved`, `FailureSpoilsTwo`, `LatestOutputKept` |
| `MCReconcile` | a pool of at most 2 of 3 addresses, a fleet layer (three members) with and without a pool layer inside it (one member, a cooldown), one declarative and one transient text, two attempts, rules that suspend, alert and page, two of them for one state | `TypeOK`, `PoolWithinBounds`, `SuccessIsRecorded`, `DeclarativeStops`, `AcceptedByQuickcheck` (idempotence of `execute()` from every state the faults lead to), and `Settles` under fairness |

Runs that are expected to end in a counterexample, each against a sentence of
the repository's own documentation (quoted under `findings`):

| Run | Counterexample |
|---|---|
| `VPanic` | a task panics; the job stays Running and the receipt is silent |
| `VSlot` | two ticks allocate for one Ready job; the loser's slot is never released |
| `VOperators` | two operators retry one job; the second write throws a Ready or Running job back to Pending |
| `VRestoreCap` | a restored Running job has no slot |

Other places where the model shows the code to differ from a sentence beside it,
without a run of their own:

- The attempt counter survives the operator's retry "from scratch"
  (shigoto-types/src/lib.rs:349): the next failure deadletters the job at once.
- A job of the Dag that nobody registered is retried under the policy of its
  kind; shigoto-scheduler/src/lib.rs:604-607 speaks of "immediate-deadletter".
- "No unit waits forever" (shigoto-rank/src/lib.rs:25-28) is `BoundedWait`, and
  holds within the top tier: a lower tier waits as long as a higher one fills
  the slots, as lines 37-39 of the same file say. It also needs weights under
  which nothing saturates, and `fairness_deficit` above 0.
- The cooldown of the pool decision is "clamped at zero against clock skew"
  (decision.rs:135-136): `saturating_sub` of two i64 only saturates at i64::MIN,
  and a clock that was set back makes the difference negative. It is a running
  cooldown either way, so nothing comes of it when `cooldown_secs` is positive;
  `Settles` holds with a clock that is set back. The watcher's time is clamped
  as its comment says.
- A job waits in WaitingForOperator by the documentation, but no signal leads
  there: a gate that waits leaves it Gated.
- `classify` decides over the joined texts of an outcome, so a daemon's own rule
  in front of the chain that matches one text answers for all of them
  (`DeclarativeStops` is about what the daemon's classifier says).
- An event whose newline could not be written shares its line with the next
  one, which is lost to a reader of the file although its own write succeeded
  (`FailureSpoilsTwo` bounds it).

Properties that hold in a passing run only because of its constants; change the
cfg to see the counterexample:

- `ReexecutedOnlyByRestart` with a job in `MayPanic`: the tick after the panic
  finds the job Running and executes it again, without a restart.
- `BackoffRespected` with two tickers: a tick that has read an elapsed deadline
  dispatches `BackoffElapsed` when another tick has already run the job, seen
  it fail and scheduled the next backoff.
- `FileParses` with two savers: one renames the sibling that the other has just
  truncated, and a crash leaves an unparseable snapshot.
- `TickNeverFails` and `BudgetExact` with two tickers (`VSlot`).
- `StoredSuccessStays` with two operators, whose race (`VOperators`) may throw a
  job back to Pending that has succeeded and been saved meanwhile.
- `PoolWithinBounds` and the rest of `MCReconcile` with settings of which
  `min_size` exceeds `max_size`: `Ord::clamp` panics there. Layers are merged
  field by field, so sound layers may add up to such settings;
  `ReconcileAssumption` excludes them.
- `DagOrder` with an operator, who may re-open a Deadlettered upstream of a job
  that has already run.

`IdleIsQuiet` is about the jobs in the snapshot: one that the Dag holds and
nobody has registered or met is in no count, and moves all the same.

The order of the events is another thing overlap costs: an operator's event is
emitted after its lock is given up (`OperatorEmit`), so a tick's events for the
same job can reach the emitter first. No run states a property of the log.

### Bounds

Two or three jobs contain every relation the code distinguishes: rivals for a
slot, upstream and downstream, a join. Two ticks are enough for each race of
one stale reader with one mover; the theorems hold for any number.
`HistoryCap` is 1 or 2 for 16, so that the cut happens; `MaxOps` (1, and 2 in
`VOperators`) bounds operator calls, `MaxCrashes` (1) restarts,
`MaxExecutions` the count of executions: 3 in `MCRecover`, one more than its
restart allows, and 2 elsewhere.
Attempts are bounded by the policies, the clock by the deadlines: it only moves
while a deadline lies ahead. `U64Max` and `MaxShift` are small stand-ins for
2^64-1 and 30. `MaxEdges` bounds the graphs of `MCDag` (4: a diamond does not fit three
ids, but a shortcut beside a path does, and a cycle with a way in and out) and of `MCFsm` (3:
a cycle through all states, or a cycle of two with a way out), `MaxDisagreements`
the terminals that do not fit their edges. In `MCRank` a deficit of one round
outweighs most of a full backlog but not all of it, and `MaxDeficit` lies above
the bound that is checked, so the counter's stop does not make it true;
`MaxStaleness` is 0 there since staleness and drift add up in the same way. In
`MCSinks` two events per recorder and two failures suffice for a torn line with
a whole one after it, and for both halves of one event to fail.
`MCRecover` has no gate: gates change what is run and not what is restored, and
`MCTick` has one. In `MCReconcile` the desired size of the fleet lies above
`Limit`, so that the clamp acts, and the pool's below it, so that members are
reaped; two attempts let a retry happen and a budget run out; a window of 1
with a `Period` of 2 opens and closes; `MaxAge` 2 lies above every threshold,
cooldown and delay, so that ages at the bound behave as larger ones. The
addresses are picked lowest first; the proofs hold for any way to pick them.
`MaxAttempts` bounds the operator's retries. The type invariants of `Rank` and
`Sinks` say no more than their actions do, and are not stated.

### Fairness

Weak fairness of every tick's next step (the consumer keeps calling `tick()`
and an await on a lock is granted), of every spawned task (it returns, or its
timeout makes it), and of the clock; for `Recovery` also of `RestoreState` (a
process that stopped is started again). `Reconcile`: weak fairness of what the
daemon does next and of the schedule, and strong fairness of `EvaluateGates`,
since the window opens and closes again and a daemon that looks oftener than a
window is long does not miss all of them. Nothing makes the watcher or an
operator act: `Settles` accepts a suspended job, and a given-up one whose page
has a receiver. `ConvergentFsm` is one sequential call: weak
fairness of its next step. `Rank`, `Sinks` and `Dag` state safety only. Panics, operators, registrations,
gates and crashes are never obliged. `AllSettle` assumes that the gates come
to answer Pass for good; with a gate that waits forever the job rightly stays
Gated.

## Proofs

### The scheduler

`SchedulerProofs` proves, for all values of the constants under the named
assumptions `BudgetAssumption`, `RetryAssumption` and `SchedulerAssumption`
and for any number of concurrent ticks and operators:

- `TypeCorrect`: `TypeOK` is an invariant. The work is in the cursors: every
  one points at a job of its wave, whatever pass it is in.
- `CountersCover` and `CapsHold`: `CapRespected` is not inductive, since
  another tick may hold a slot that no phase shows. The strengthening
  `BudgetInv` adds that counters never exceed their caps (`try_allocate` checks
  them in the same lock) and that they cover the Running jobs plus the ticks
  that hold a slot; an operator can only name a target that is not Running.
  `try_allocate` raises a counter and creates a holder; `Dispatch` turns a
  holder into a Running job, or drops it; `ApplyOk` and `ApplyErr` turn it
  back; `Release` lowers the counter by the holder's slot. The cardinality
  lemmas say how a set of jobs or of holders changes by one element.

For any number of ticks and without operators (`Operators = {}`: an operator
may re-open a Deadlettered upstream of a job that has already run, which is the
repository's intention):

- `DagOrderHolds`: a job past its gates has only terminal predecessors. The
  strengthening `OrderInv` adds that a passing verdict in the hands of a tick
  is still right when it is dispatched, because terminal phases are final.
- `Refinement`: under the mapping `Status`, every step of the scheduler is a
  step of `WorkGraph` or a stutter. It needs both invariants: the order for the
  guard on predecessors, the counters for the guard on caps.

For any number of ticks and at most one operator at a time (`OneOperator`):

- `PhasesAdvance`: every phase change is an answer of `advance` to the phase it
  replaces. `dispatch` computes its answer under the lock it writes under; for
  `operator_transition`, which does not, `OperatorFresh` says that the job it
  is about to write to is still in the phase it read: no tick moves a
  Deadlettered job, and no signal leads to WaitingForOperator. With two
  operators the second may overwrite a job that the first has re-opened, and
  `VOperators` shows it.
- `IdleStaysQuiet`: when a summary is idle, every known job is Succeeded or
  Skipped, which nobody moves, or Failed, Retrying or Deadlettered, which
  `failure_set` names and `needs_attention` counts. With two operators a late write may also move
  a job that has succeeded.

`SoloProofs` proves what needs a single ticker. Its theorems assume `Solo(t)`,
that t is the only ticker and that there is at most one operator; a second
ticker refutes each of them. The invariant `SoloInv` says that what the tick
remembers is what it finds: its view of a job is the job's state (`ViewFresh`),
the signal in its hands fits the phase (`SignalFresh`), and the tasks and
results it has still to apply are of distinct Running jobs (`ResultsFresh`). It
is preserved because nobody else moves a job that is neither Running nor
Deadlettered (`OperatorFresh`). From it follow

- `TicksDoNotFail`, `AccountKept` and `BackoffKept`: a dispatch is legal, keeps
  the attempts map in line with the phases, and leaves Retrying only by a
  BackoffElapsed that was due when it was decided, and the clock goes forward;
- `BudgetKept` and `SlotsReturned`: with `ExactInv`, every step that moves a
  phase into or out of Running moves the slot between the job and the tick's
  hands, which are empty when it is over. `VSlot` refutes `NoSlotLost` for two
  tickers;
- `ExecutedOnce`, without panics: a Running job that has been executed is one
  whose result is on its way (`Awaited`), so none is left when a wave is
  collected. The lemmas allow for executions that nobody waits for any more,
  none here and one per restart in `RestartReexecutes`.

`HistoryKept` needs no such assumption, since the counter and the history are
written in the same critical section; its lemma `KeepLastLatest` says what
trimming does to the record of n failures and one more.

### Store and restarts

`RecoveryProofs` first proves of the store alone, with one saver, that the file
always parses (`FileAlwaysParses`) and is replaced atomically (`SaveIsAtomic`).
The invariant is `StoreInv`: the file under its final name is never the one
being written, and the sibling is complete before the rename. Every step of
`Recovery` is a step of that store or leaves it alone, so both hold beside any
number of ticks, crashes and jobs (`RestartFindsASnapshot`,
`RestartSavesAtomically`). `RestartTypes` needs that every snapshot on its way
to the file, or in it, was once a state of the scheduler and has its types.

For `RestartKeepsOrder` and `RestartKeepsSuccess`, without operators, the
invariant `RestartInv` is that each such snapshot is in the order of the Dag and
that its finished jobs are finished in every running scheduler: terminal phases
are final while a process is up, and a restore starts from the very snapshot. A
snapshot read in the middle of a tick is the state at one instant, since
`snapshot_state` holds the lock.

With a single ticker, `AccountInv` carries `SoloInv` over restarts: every
snapshot that may still be found is sound (`SoundSnapshot`: its phases, counters
and histories fit each other), and a scheduler that waits for its restore has
counted nothing yet (`Blank`). Hence `RestartKeepsAccount`,
`RestartTicksDoNotFail` and, without panics, `RestartReexecutes`: the count of
executions outlives the process, as side effects do, and the history variable
`resumed` counts the restarts that found the job Running since its last
Ready -> Running, each of which leaves at most one execution without a tick that
waits for it. Slots are not restored, so nothing of the kind holds of the budget (`VRestoreCap`).

### The Dag

`DagProofs` proves of every graph and of every order `toposort` may return:

- `WavesAreLayers`, `OrderIsIrrelevant` and `EdgesDelay`. The invariant says
  that what a call has numbered so far is `Layered` (a job lies deeper than its
  predecessors) and `Tight` (no deeper than one of them demands). Since an
  order of all nodes covers them (`OrderCovers`), a call ends with every wanted
  job numbered. A tight numbering lies below every layering of as many jobs or
  more (`TightIsLeast`), so two that are both are equal, which is
  `OrderIsIrrelevant`; and since tightness survives new edges while layering
  survives fewer jobs, what was answered once lies below what a larger graph
  answers, which is `EdgesDelay`.
- `ValidateFindsAll`: the jobs before one in an order are closed under
  predecessors, so it is not among its own ancestors; and where no job is, a
  list that is as long as can be has every node, for otherwise a missing node
  with the fewest ancestors could be appended. `Interned` adds that a node
  which is not declared is an endpoint of an edge.

Where these arguments are inductions over a finite set, the proofs take a
counterexample with the least number (`LeastOf`), which is there since strict
inclusion among finite sets is well-founded.

### Rank

`WaitIsBounded` (`RankProofs`): `BoundedWait` holds for any number of units and
slots, as long as `UrgencyFits`: a full backlog and the longest wait do not
reach the value at which the sums of `urgency()` saturate, where two units look
alike and the id decides for good. A bound on each unit alone is not inductive,
since two that wait together must not both be near it. `WaitInv` bounds, for
every set of top units, the best of them, by as many rounds as there are units
outside the set: when a round breaks it for a set, a unit outside was picked
whose deficit is nearly as large, and the set with that unit has broken it
before.

### Sinks

`SinksProofs`, for any number of recorders, events, drains and failures:
`EventsKeptInOrder` and `OutputsLatest` (what was drained and what is still
buffered belong together, and only a recorder adds to it, its next event);
`LinesWhole` (who has written a line holds the mutex, and its line is the last
of the file); `FailuresSpoilTwo`, which charges each returned event that cannot
be read to the failure of its own line, or to the failed newline of the line it
was appended to.

### The harness

`FsmProofs` proves, for every set of machines that fits `FsmAssumption` and of
any size, that the walks report exactly the states that cannot converge
(`WalkDecides`), that Ok means convergence (`OkIsAPromise`), and that the job
lifecycle passes (`LifecyclePasses`: from every phase `advance` has a way to
Succeeded or Skipped). Reachability is
defined by the closed sets that contain a state, so that no induction is
needed: what a walk has seen, together with its stack, is closed under
successors except for the states still on the stack, and contains no resting
state; when the stack is empty it is a closed set without one. The invariant
says that, that every state on the way is reachable from the start, and that
each state of `all()` is still to come, under way, or decided.

### The daemon

`ReconcileProofs` proves, for all settings, layers, classifiers, policies and
watch rules that fit `ReconcileAssumption`:

- `PoolBounded`. The bound is not inductive while a plan is half applied: the
  invariant `Room` says that the members and the creations still to come, which
  are disjoint, together fit the limit.
- `DeclarativeFailuresStop`: while `broken`, the last record is Declarative and
  the job Failed or Deadlettered, and `decide` looks at the kind before the
  budget.
- `SuccessRecorded`: after `Record` the sink holds the outcome of this very
  plan, of which nothing failed and nothing is left to do.
- `ExecuteIsIdempotent`: after a plan is applied in full the pool has the
  clamped desired size, or the cooldown that withheld the plan still runs; in
  both cases the next plan is empty.
- `TypeCorrect`: with `Room`, which bounds what `decide` is asked about, and
  `TextsOK`, since `BodyErr` classifies the joined texts of the failed changes.

### Only model-checked

Liveness under fairness: `AllSettle` (`Recovery`), `Terminates`
(`ConvergentFsm`) and `Settles` (`Reconcile`); the prover does not treat
fairness. Every invariant and action property of a passing run is stated by a
theorem, under the hypotheses named above. `PanicSurfaces` and the other three
properties of the runs that end in a counterexample are false of the code; two
of them hold under the hypotheses of `PhasesAdvance` and `SlotsReturned`, and
`CapRespected` holds without restarts.

## Not modelled

- `Cancel` and `Timeout` signals in the scheduler (it dispatches neither; a
  timeout of `execute()` arrives as an Err), and the way into WaitingForOperator (no signal
  leads there; its ways out are in `advance`).
- `install_budget`, `register_gate`, `register_retry_policy` while jobs run,
  `set_timeout`, and a tick whose future is dropped half-way.
  A dropped tick that holds a slot loses it, and its Running jobs are executed
  again by the next one, so `BudgetExact`, `ReexecutedOnlyByRestart` and
  `AllSettle` would not survive it; what would (`CountersCoverRunning`,
  `CapRespected`, `DagOrder`) needs the instance of `MCRace`, whose states a
  drop at every await more than doubles.
- The error text's message and `signature`, which normalise strings for display
  and for consumers; cron expressions; `ApplyMetrics`, which counts; the JSON
  before and after a change; `assert_deterministic`, since a model's operators
  are functions.
- `PlanId` as a hash of the changes in their order (converge.rs:119): two plans
  with the same changes in another order have different ids in the code. Nothing
  in the repository compares the ids of two plans.
- The scheduler with the classifier of `Reconcile`: `apply_execution_result`
  receives an Err without a text and records every failure as Transient
  (scheduler lib.rs:692-696), so the two cannot meet in this code.
- Custom retry deciders, timestamps and reasons of events, the receipt's counts.
- Writes that the operating system accepted and lost (`save` does not sync).
- The u32 width of counters, which the number of jobs bounds.
- The components with status `not_modelled`.

## Plan

Done: the modules above, their runs and theorems. What would come next:

1. Safety half of `AllSettle`: with one ticker and a Dag, after a tick that
   changed nothing every job is settled, waits for its gate, its backoff or a
   slot.
2. `CountersCoverRunning` weakened for restarts: what the budget is short of
   after a restore is at most the number of Running jobs that were restored.
3. `install_budget` as an action of `Scheduler`, restores into a scheduler that
   has run, and the order of emissions: the scheduler composed with `Sinks`.
