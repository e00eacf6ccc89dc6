------------------------------ MODULE Scheduler -----------------------------
(***************************************************************************)
(* shigoto-scheduler's InProcessScheduler, at the granularity of its       *)
(* locks: one action per critical section of `state' (an RwLock), of       *)
(* `budget' (a separate Mutex) or per read of the clock, with the local    *)
(* code up to the next one.                                                *)
(*                                                                         *)
(* Tickers are the futures that call tick() on one shared scheduler, each  *)
(* with its own copy of the Dag; Operators are the callers of              *)
(* operator_transition().  phases.get(id).unwrap_or(Pending) makes an      *)
(* absent phase a Pending one, so `phase' is total, and                    *)
(* attempts.get(id).unwrap_or(..) makes 0 stand for an absent counter.     *)
(***************************************************************************)
EXTENDS Gate, Budget, Retry, Sequences, FiniteSets

CONSTANTS
  Preds,        \* the direct predecessors of a job in the Dag
  Waves,        \* dag.waves(None): a sequence of sequences of jobs
  Policy,       \* the RetryPolicy registered for the job's kind
  GatesOf,      \* the consumer gates registered for the job's kind
  Gates,        \* the consumer gates
  MayPanic,     \* the jobs whose execute() may panic
  Unregistered, \* the jobs of the Dag without a registered Job at the start
  Tickers,
  Operators,
  MaxOps,       \* bound: operator transitions in a behaviour
  HistoryCap,   \* failure records kept per job (16 in the code)
  MaxExecutions \* bound: up to here `executions' counts

ASSUME SchedulerAssumption ==
  /\ IsFiniteSet(Jobs) /\ IsFiniteSet(Tickers)
  /\ Preds \in [Jobs -> SUBSET Jobs]
  /\ Waves \in Seq(Seq(Jobs))
  /\ Len(Waves) > 0
  /\ \A w \in 1 .. Len(Waves) : Len(Waves[w]) > 0
  /\ Policy \in [Jobs -> RetryPolicy]
  /\ GatesOf \in [Jobs -> SUBSET Gates]
  /\ MayPanic \subseteq Jobs
  /\ Unregistered \subseteq Jobs
  /\ MaxOps \in Nat
  /\ HistoryCap \in Nat \ {0}
  /\ MaxExecutions \in Nat

VARIABLES
  \* SchedulerState, behind the RwLock
  phase, until,        \* JobPhase of a job and the until_ms of its Retrying
  registered,          \* the keys of `jobs'
  attempts, history,   \* failure counter; attempt numbers of the FailureRecords
  \* the BudgetTree, behind its own Mutex
  running,
  \* the environment: clock and what the consumer gates would answer
  now, verdict,
  \* the local state of every tick()
  pc, cursor, job, view, signal, deadline, tasks, results,
  \* what a tick() returned: its result and the unhealed list of the receipt
  outcome, unhealed,
  \* the local state of every operator_transition(), and how many began
  op, ops,
  \* the last event the emitter saw for a job
  emitted,
  \* history variable: execute() calls since the job's last Ready -> Running
  executions

stateVars == <<phase, until, registered, attempts, history>>
tickVars == <<pc, cursor, job, view, signal, deadline, tasks, results, outcome, unhealed>>
vars == <<stateVars, running, now, verdict, tickVars, op, ops, emitted, executions>>

(* Where a tick is: wave, pass, position in the wave, inner iteration. *)
Cursor == {c \in [wave : 1 .. Len(Waves), pass : {1, 3}, idx : Nat, iter : Nat] :
             c.idx \in 1 .. Len(Waves[c.wave])}
TickPc == {"idle", "phase_of", "advance", "dispatch", "collect", "join",
           "apply", "failed", "reset", "release", "receipt"}
View == [phase : JobPhase, until : Int]
Event == [from : JobPhase, to : JobPhase]
OperatorCall == [pc : {"idle", "write", "emit"}, job : Jobs, from : JobPhase, to : JobPhase]
NoSignal == "None"

JobsOfWave(w) == {Waves[w][i] : i \in 1 .. Len(Waves[w])}

ControlOK ==
  /\ pc \in [Tickers -> TickPc]
  /\ cursor \in [Tickers -> Cursor]
  /\ job \in [Tickers -> Jobs]

DataOK ==
  /\ phase \in [Jobs -> JobPhase]
  /\ until \in [Jobs -> Int]
  /\ registered \in SUBSET Jobs
  /\ attempts \in [Jobs -> Nat]
  /\ history \in [Jobs -> Seq(Nat)]
  /\ running \in [Envelopes -> Nat]
  /\ now \in Nat
  /\ verdict \in [Gates -> GateOutcome]
  /\ view \in [Tickers -> View]
  /\ signal \in [Tickers -> TickSignal \cup {NoSignal}]
  /\ deadline \in [Tickers -> Int]
  /\ tasks \in [Tickers -> SUBSET Jobs]
  /\ results \in [Tickers -> SUBSET (Jobs \X {"Ok", "Err"})]
  /\ outcome \in [Tickers -> {"None", "Ok", "Err"}]
  /\ unhealed \in [Tickers -> SUBSET Jobs]
  /\ op \in [Operators -> OperatorCall]
  /\ ops \in Nat
  /\ emitted \in [Jobs -> Event]
  /\ executions \in [Jobs -> 0 .. MaxExecutions]

(* Every variable has its type; a cursor points at a job of its wave. *)
TypeOK == ControlOK /\ DataOK

FirstCursor == [wave |-> 1, pass |-> 1, idx |-> 1, iter |-> 0]
NoView == [phase |-> "Pending", until |-> 0]

Init ==
  /\ phase = [j \in Jobs |-> "Pending"]
  /\ until = [j \in Jobs |-> 0]
  /\ registered = Jobs \ Unregistered
  /\ attempts = [j \in Jobs |-> 0]
  /\ history = [j \in Jobs |-> <<>>]
  /\ running = [e \in Envelopes |-> 0]
  /\ now = 0
  /\ verdict \in [Gates -> GateOutcome]
  /\ pc = [t \in Tickers |-> "idle"]
  /\ cursor = [t \in Tickers |-> FirstCursor]
  /\ job = [t \in Tickers |-> Waves[1][1]]
  /\ view = [t \in Tickers |-> NoView]
  /\ signal = [t \in Tickers |-> NoSignal]
  /\ deadline = [t \in Tickers |-> 0]
  /\ tasks = [t \in Tickers |-> {}]
  /\ results = [t \in Tickers |-> {}]
  /\ outcome = [t \in Tickers |-> "None"]
  /\ unhealed = [t \in Tickers |-> {}]
  /\ op = [o \in Operators |-> [pc |-> "idle", job |-> Waves[1][1], from |-> "Pending", to |-> "Pending"]]
  /\ ops = 0
  /\ emitted = [j \in Jobs |-> [from |-> "Pending", to |-> "Pending"]]
  /\ executions = [j \in Jobs |-> 0]

-----------------------------------------------------------------------------
(* Moving a tick's cursor over the waves. *)

MaxIter(pass) == IF pass = 1 THEN 6 ELSE 3

(* Go on with the job at cursor c. *)
Visit(t, c) ==
  /\ cursor' = [cursor EXCEPT ![t] = c]
  /\ job' = [job EXCEPT ![t] = Waves[c.wave][c.idx]]
  /\ pc' = [pc EXCEPT ![t] = "phase_of"]

StartPass3(t) == Visit(t, [cursor[t] EXCEPT !.pass = 3, !.idx = 1, !.iter = 0])

(* The inner loop over a job ends: the next job of the wave, else the next *)
(* pass, else the next wave, else the receipt.                             *)
LeaveJob(t) ==
  LET c == cursor[t]
      last == c.idx = Len(Waves[c.wave])
  IN \/ ~last /\ Visit(t, [c EXCEPT !.idx = @ + 1, !.iter = 0])
     \/ /\ last /\ c.pass = 1
        /\ pc' = [pc EXCEPT ![t] = "collect"]
        /\ UNCHANGED <<cursor, job>>
     \/ /\ last /\ c.pass = 3 /\ c.wave < Len(Waves)
        /\ Visit(t, [wave |-> c.wave + 1, pass |-> 1, idx |-> 1, iter |-> 0])
     \/ /\ last /\ c.pass = 3 /\ c.wave = Len(Waves)
        /\ pc' = [pc EXCEPT ![t] = "receipt"]
        /\ UNCHANGED <<cursor, job>>

(* A step of the inner loop made progress. *)
Progressed(t) ==
  IF cursor[t].iter + 1 < MaxIter(cursor[t].pass)
  THEN Visit(t, [cursor[t] EXCEPT !.iter = @ + 1])
  ELSE LeaveJob(t)

(* `?' on an error: the tick returns Err and drops what it still held. *)
AbortTick(t) ==
  /\ pc' = [pc EXCEPT ![t] = "idle"]
  /\ cursor' = [cursor EXCEPT ![t] = FirstCursor]
  /\ job' = [job EXCEPT ![t] = Waves[1][1]]
  /\ outcome' = [outcome EXCEPT ![t] = "Err"]

-----------------------------------------------------------------------------
(* dispatch(): under the write lock, re-read the phase, advance, emit. *)

Legal(j, s) == advance(phase[j], s) # IllegalTransition

Transition(j, s, d) ==
  /\ phase' = [phase EXCEPT ![j] = advance(phase[j], s)]
  /\ until' = [until EXCEPT ![j] = IF s = "RetryDecideRetry" THEN d ELSE 0]
  /\ emitted' = [emitted EXCEPT ![j] = [from |-> phase[j], to |-> advance(phase[j], s)]]
  /\ executions' = [executions EXCEPT ![j] = IF s = "AllocateBudget" THEN 0 ELSE @]

-----------------------------------------------------------------------------
(* tick(): passes 1 and 3 *)

TickStart(t) ==
  /\ pc[t] = "idle"
  /\ Visit(t, FirstCursor)
  /\ outcome' = [outcome EXCEPT ![t] = "None"]
  /\ unhealed' = [unhealed EXCEPT ![t] = {}]
  /\ UNCHANGED <<stateVars, running, now, verdict, view, signal, deadline, tasks, results,
                 op, ops, emitted, executions>>

(* phase_of() under the read lock, and the arms of advance_once that stop  *)
(* without touching shared state again.                                    *)
Stops(p) == is_terminal(p) \/ p \in {"Running", "WaitingForOperator"}

PhaseOf(t) ==
  /\ pc[t] = "phase_of"
  /\ \/ /\ Stops(phase[job[t]])
        /\ LeaveJob(t)
        /\ UNCHANGED view
     \/ /\ ~Stops(phase[job[t]])
        /\ view' = [view EXCEPT ![t] = [phase |-> phase[job[t]], until |-> until[job[t]]]]
        /\ pc' = [pc EXCEPT ![t] = "advance"]
        /\ UNCHANGED <<cursor, job>>
  /\ UNCHANGED <<stateVars, running, now, verdict, signal, deadline, tasks, results,
                 outcome, unhealed, op, ops, emitted, executions>>

(* advance_once found no progress to make / a signal s to dispatch. *)
NoProgress(t) ==
  /\ LeaveJob(t)
  /\ view' = [view EXCEPT ![t] = NoView]
  /\ UNCHANGED <<signal, deadline>>

Decide(t, s, d) ==
  /\ pc' = [pc EXCEPT ![t] = "dispatch"]
  /\ signal' = [signal EXCEPT ![t] = s]
  /\ deadline' = [deadline EXCEPT ![t] = d]
  /\ view' = [view EXCEPT ![t] = NoView]
  /\ UNCHANGED <<cursor, job>>

evaluate_gates(j) ==
  reduce({AllUpstreamsTerminal(Preds[j], phase)} \cup {verdict[g] : g \in GatesOf[j]})

EvaluateGates(t) ==
  LET aggregate == evaluate_gates(job[t])
      already_gated == view[t].phase = "Gated" /\ aggregate = "SomeWaiting"
  IN /\ pc[t] = "advance"
     /\ view[t].phase \in {"Pending", "Gated"}
     /\ IF already_gated THEN NoProgress(t) ELSE Decide(t, aggregate, 0)
     /\ UNCHANGED <<stateVars, running, now, verdict, tasks, results, outcome, unhealed,
                    op, ops, emitted, executions>>

(* Mutant: the last millisecond of the backoff is not waited for. *)
CheckBackoffEarly(t) ==
  /\ pc[t] = "advance"
  /\ view[t].phase = "Retrying"
  /\ IF now + 1 < view[t].until THEN NoProgress(t) ELSE Decide(t, "BackoffElapsed", 0)
  /\ UNCHANGED <<stateVars, running, now, verdict, tasks, results, outcome, unhealed,
                 op, ops, emitted, executions>>

CheckBackoff(t) ==
  /\ pc[t] = "advance"
  /\ view[t].phase = "Retrying"
  /\ IF now < view[t].until THEN NoProgress(t) ELSE Decide(t, "BackoffElapsed", 0)
  /\ UNCHANGED <<stateVars, running, now, verdict, tasks, results, outcome, unhealed,
                 op, ops, emitted, executions>>

TryAllocate(t) ==
  /\ pc[t] = "advance"
  /\ view[t].phase = "Ready"
  /\ \/ /\ CanAllocate(running, job[t])
        /\ running' = try_allocate(running, job[t])
        /\ Decide(t, "AllocateBudget", 0)
     \/ /\ ~CanAllocate(running, job[t])
        /\ UNCHANGED running
        /\ NoProgress(t)
  /\ UNCHANGED <<stateVars, now, verdict, tasks, results, outcome, unhealed,
                 op, ops, emitted, executions>>

(* attempts.get(id).unwrap_or(1); the scheduler records only Transient     *)
(* failures.                                                               *)
DecideRetry(t) ==
  LET j == job[t]
      attempt == IF attempts[j] = 0 THEN 1 ELSE attempts[j]
  IN /\ pc[t] = "advance"
     /\ view[t].phase = "Failed"
     /\ IF Deadletters(Policy[j], attempt, "Transient")
        THEN Decide(t, "RetryDecideDeadletter", 0)
        ELSE \E after \in Delays(Policy[j], attempt) :
               Decide(t, "RetryDecideRetry", until_ms(now, after))
     /\ UNCHANGED <<stateVars, running, now, verdict, tasks, results, outcome, unhealed,
                    op, ops, emitted, executions>>

Dispatch(t) ==
  LET j == job[t]
      s == signal[t]
  IN /\ pc[t] = "dispatch"
     /\ \/ /\ Legal(j, s)
           /\ Transition(j, s, deadline[t])
           /\ Progressed(t)
           /\ UNCHANGED outcome
        \/ /\ ~Legal(j, s)
           /\ AbortTick(t)
           /\ UNCHANGED <<phase, until, emitted, executions>>
     /\ signal' = [signal EXCEPT ![t] = NoSignal]
     /\ deadline' = [deadline EXCEPT ![t] = 0]
     /\ UNCHANGED <<registered, attempts, history, running, now, verdict, view, tasks, results,
                    unhealed, op, ops>>

-----------------------------------------------------------------------------
(* tick(): pass 2 *)

(* Collect the Running jobs of the wave and spawn a task for each; a job   *)
(* that is not registered is given an Err at once.                         *)
Collect(t) ==
  LET ids == {j \in JobsOfWave(cursor[t].wave) : phase[j] = "Running"}
  IN /\ pc[t] = "collect"
     /\ tasks' = [tasks EXCEPT ![t] = ids \cap registered]
     /\ results' = [results EXCEPT ![t] = (ids \ registered) \X {"Err"}]
     /\ executions' = [j \in Jobs |-> IF j \in ids \cap registered /\ executions[j] < MaxExecutions
                                      THEN executions[j] + 1 ELSE executions[j]]
     /\ IF ids = {} THEN StartPass3(t)
        ELSE pc' = [pc EXCEPT ![t] = "join"] /\ UNCHANGED <<cursor, job>>
     /\ UNCHANGED <<stateVars, running, now, verdict, view, signal, deadline, outcome, unhealed,
                    op, ops, emitted>>

(* A spawned task ends: execute() returned Ok, or Err or hit its timeout.  *)
Return(t, j, r) ==
  /\ j \in tasks[t]
  /\ tasks' = [tasks EXCEPT ![t] = @ \ {j}]
  /\ results' = [results EXCEPT ![t] = @ \cup {<<j, r>>}]
  /\ UNCHANGED <<stateVars, running, now, verdict, pc, cursor, job, view, signal, deadline,
                 outcome, unhealed, op, ops, emitted, executions>>

(* A spawned task panics: join_next yields a JoinError, which is dropped. *)
Panic(t, j) ==
  /\ j \in tasks[t] \cap MayPanic
  /\ tasks' = [tasks EXCEPT ![t] = @ \ {j}]
  /\ UNCHANGED <<stateVars, running, now, verdict, pc, cursor, job, view, signal, deadline,
                 results, outcome, unhealed, op, ops, emitted, executions>>

(* Mutant: the results of the tasks are not applied. *)
JoinedDropped(t) ==
  /\ pc[t] = "join"
  /\ tasks[t] = {}
  /\ StartPass3(t)
  /\ results' = [results EXCEPT ![t] = {}]
  /\ UNCHANGED <<stateVars, running, now, verdict, view, signal, deadline, tasks,
                 outcome, unhealed, op, ops, emitted, executions>>

(* Every task has been joined; the results are applied one after another,  *)
(* in the order in which the tasks ended, which may be any.                *)
Joined(t) ==
  /\ pc[t] = "join"
  /\ tasks[t] = {}
  /\ IF results[t] = {} THEN StartPass3(t)
     ELSE pc' = [pc EXCEPT ![t] = "apply"] /\ UNCHANGED <<cursor, job>>
  /\ UNCHANGED <<stateVars, running, now, verdict, view, signal, deadline, tasks, results,
                 outcome, unhealed, op, ops, emitted, executions>>

(* apply_execution_result, Ok arm: dispatch first, bookkeeping afterwards. *)
ApplyOk(t, j) ==
  /\ pc[t] = "apply"
  /\ <<j, "Ok">> \in results[t]
  /\ \/ /\ Legal(j, "ExecutionSucceeded")
        /\ Transition(j, "ExecutionSucceeded", 0)
        /\ pc' = [pc EXCEPT ![t] = "reset"]
        /\ job' = [job EXCEPT ![t] = j]
        /\ results' = [results EXCEPT ![t] = @ \ {<<j, "Ok">>}]
        /\ UNCHANGED <<cursor, outcome>>
     \/ /\ ~Legal(j, "ExecutionSucceeded")
        /\ AbortTick(t)
        /\ results' = [results EXCEPT ![t] = {}]
        /\ UNCHANGED <<phase, until, emitted, executions>>
  /\ UNCHANGED <<registered, attempts, history, running, now, verdict, view, signal, deadline,
                 tasks, unhealed, op, ops>>

(* Mutant: the failure history is cleared, the attempt counter is not. *)
ResetHistory(t) ==
  /\ pc[t] = "reset"
  /\ history' = [history EXCEPT ![job[t]] = <<>>]
  /\ pc' = [pc EXCEPT ![t] = "release"]
  /\ UNCHANGED <<phase, until, registered, attempts, running, now, verdict, cursor, job, view,
                 signal, deadline, tasks, results, outcome, unhealed, op, ops, emitted,
                 executions>>

ResetAttempts(t) ==
  /\ pc[t] = "reset"
  /\ attempts' = [attempts EXCEPT ![job[t]] = 0]
  /\ history' = [history EXCEPT ![job[t]] = <<>>]
  /\ pc' = [pc EXCEPT ![t] = "release"]
  /\ UNCHANGED <<phase, until, registered, running, now, verdict, cursor, job, view, signal,
                 deadline, tasks, results, outcome, unhealed, op, ops, emitted, executions>>

(* apply_execution_result, Err arm: the failure is counted and recorded    *)
(* before the transition is dispatched.                                    *)
(* Mutant: the oldest records are kept. *)
KeepFirst(h) == IF Len(h) > HistoryCap THEN SubSeq(h, 1, HistoryCap) ELSE h

KeepLast(h) == IF Len(h) > HistoryCap THEN SubSeq(h, Len(h) - HistoryCap + 1, Len(h)) ELSE h

RecordFailure(t, j) ==
  /\ pc[t] = "apply"
  /\ <<j, "Err">> \in results[t]
  /\ attempts' = [attempts EXCEPT ![j] = @ + 1]
  /\ history' = [history EXCEPT ![j] = KeepLast(Append(@, attempts[j] + 1))]
  /\ pc' = [pc EXCEPT ![t] = "failed"]
  /\ job' = [job EXCEPT ![t] = j]
  /\ results' = [results EXCEPT ![t] = @ \ {<<j, "Err">>}]
  /\ UNCHANGED <<phase, until, registered, running, now, verdict, cursor, view, signal,
                 deadline, tasks, outcome, unhealed, op, ops, emitted, executions>>

ApplyErr(t) ==
  /\ pc[t] = "failed"
  /\ \/ /\ Legal(job[t], "ExecutionFailed")
        /\ Transition(job[t], "ExecutionFailed", 0)
        /\ pc' = [pc EXCEPT ![t] = "release"]
        /\ UNCHANGED <<cursor, job, outcome, results>>
     \/ /\ ~Legal(job[t], "ExecutionFailed")
        /\ AbortTick(t)
        /\ results' = [results EXCEPT ![t] = {}]
        /\ UNCHANGED <<phase, until, emitted, executions>>
  /\ UNCHANGED <<registered, attempts, history, running, now, verdict, view, signal, deadline,
                 tasks, unhealed, op, ops>>

Release(t) ==
  /\ pc[t] = "release"
  /\ running' = release(running, job[t])
  /\ IF results[t] = {} THEN StartPass3(t)
     ELSE pc' = [pc EXCEPT ![t] = "apply"] /\ UNCHANGED <<cursor, job>>
  /\ UNCHANGED <<stateVars, now, verdict, view, signal, deadline, tasks, results,
                 outcome, unhealed, op, ops, emitted, executions>>

(* The receipt: collect_unhealed over one last snapshot. *)
collect_unhealed == {j \in Jobs : phase[j] \in {"Deadlettered", "WaitingForOperator"}}

Receipt(t) ==
  /\ pc[t] = "receipt"
  /\ pc' = [pc EXCEPT ![t] = "idle"]
  /\ cursor' = [cursor EXCEPT ![t] = FirstCursor]
  /\ job' = [job EXCEPT ![t] = Waves[1][1]]
  /\ outcome' = [outcome EXCEPT ![t] = "Ok"]
  /\ unhealed' = [unhealed EXCEPT ![t] = collect_unhealed]
  /\ UNCHANGED <<stateVars, running, now, verdict, view, signal, deadline, tasks, results,
                 op, ops, emitted, executions>>

-----------------------------------------------------------------------------
(* operator_transition(): read and advance; write; emit, each on its own. *)

OperatorRead(o, j, s) ==
  /\ op[o].pc = "idle" /\ ops < MaxOps
  /\ Legal(j, s)
  /\ op' = [op EXCEPT ![o] = [pc |-> "write", job |-> j, from |-> phase[j],
                              to |-> advance(phase[j], s)]]
  /\ ops' = ops + 1
  /\ UNCHANGED <<stateVars, running, now, verdict, tickVars, emitted, executions>>

OperatorWrite(o) ==
  /\ op[o].pc = "write"
  /\ phase' = [phase EXCEPT ![op[o].job] = op[o].to]
  /\ until' = [until EXCEPT ![op[o].job] = 0]
  /\ op' = [op EXCEPT ![o].pc = "emit"]
  /\ UNCHANGED <<registered, attempts, history, running, now, verdict, tickVars, ops,
                 emitted, executions>>

OperatorEmit(o) ==
  /\ op[o].pc = "emit"
  /\ emitted' = [emitted EXCEPT ![op[o].job] = [from |-> op[o].from, to |-> op[o].to]]
  /\ op' = [op EXCEPT ![o].pc = "idle"]
  /\ UNCHANGED <<stateVars, running, now, verdict, tickVars, ops, executions>>

-----------------------------------------------------------------------------
(* The consumer and the environment. *)

RegisterJob(j) ==
  /\ j \notin registered
  /\ registered' = registered \cup {j}
  /\ UNCHANGED <<phase, until, attempts, history, running, now, verdict, tickVars, op, ops,
                 emitted, executions>>

(* A consumer gate would now answer o. *)
ChangeVerdict(g, o) ==
  /\ verdict[g] # o
  /\ verdict' = [verdict EXCEPT ![g] = o]
  /\ UNCHANGED <<stateVars, running, now, tickVars, op, ops, emitted, executions>>

(* Time passes; it is only looked at while a deadline lies ahead. *)
Ahead == \/ \E j \in Jobs : phase[j] = "Retrying" /\ now < until[j]
         \/ \E t \in Tickers : signal[t] = "RetryDecideRetry" /\ now < deadline[t]

ClockAdvances ==
  /\ Ahead
  /\ now' = now + 1
  /\ UNCHANGED <<stateVars, running, verdict, tickVars, op, ops, emitted, executions>>

-----------------------------------------------------------------------------
AdvanceOnce(t) == EvaluateGates(t) \/ CheckBackoff(t) \/ TryAllocate(t) \/ DecideRetry(t)

ApplyResult(t) == \/ \E j \in Jobs : ApplyOk(t, j) \/ RecordFailure(t, j)
                  \/ ResetAttempts(t) \/ ApplyErr(t) \/ Release(t)

TickStep(t) == \/ TickStart(t) \/ PhaseOf(t) \/ AdvanceOnce(t) \/ Dispatch(t)
               \/ Collect(t) \/ Joined(t) \/ ApplyResult(t) \/ Receipt(t)

TaskStep(t) == \E j \in Jobs : Return(t, j, "Ok") \/ Return(t, j, "Err") \/ Panic(t, j)

OperatorStep(o) == \/ \E j \in Jobs, s \in OperatorSignal : OperatorRead(o, j, s)
                   \/ OperatorWrite(o) \/ OperatorEmit(o)

Next == \/ \E t \in Tickers : TickStep(t) \/ TaskStep(t)
        \/ \E o \in Operators : OperatorStep(o)
        \/ \E j \in Jobs : RegisterJob(j)
        \/ \E g \in Gates, v \in GateOutcome : ChangeVerdict(g, v)
        \/ ClockAdvances

Spec == Init /\ [][Next]_vars

(* The consumer keeps calling tick() (a daemon loop, a reconciler), tasks  *)
(* end, and the clock moves.  Nothing obliges an operator or a gate.       *)
Fairness ==
  /\ \A t \in Tickers : WF_vars(TickStep(t))
  /\ \A t \in Tickers, j \in Jobs : WF_vars(Return(t, j, "Ok") \/ Return(t, j, "Err"))
  /\ WF_vars(ClockAdvances)

FairSpec == Spec /\ Fairness

-----------------------------------------------------------------------------
(* Properties *)

RunningIn(e) == {j \in Jobs : phase[j] = "Running" /\ e \in EnvelopesOf[j]}

(* A tick holds a slot for its job between try_allocate and the dispatch   *)
(* of AllocateBudget, and between the end of Running and release.          *)
HoldsSlot(t) == \/ pc[t] = "dispatch" /\ signal[t] = "AllocateBudget"
                \/ pc[t] \in {"reset", "release"}

HoldersIn(e) == {t \in Tickers : HoldsSlot(t) /\ e \in EnvelopesOf[job[t]]}

(* However many ticks and operators interleave between the state lock and  *)
(* the budget lock, a budget counter never falls behind the jobs that are  *)
(* Running plus the slots in a tick's hands (advance_once's Ready arm and  *)
(* apply_execution_result, which take the two locks one after the other).  *)
CountersCoverRunning ==
  \A e \in Envelopes :
    running[e] >= Cardinality(RunningIn(e)) + Cardinality(HoldersIn(e))

(* The jobs that are Running never exceed a cap of the BudgetTree, in any  *)
(* dimension: "a job runs iff every applicable budget has slack".          *)
CapRespected ==
  \A e \in Envelopes : Cap[e] # Unbounded => Cardinality(RunningIn(e)) <= Cap[e]

(* With a single tick at a time no slot is lost either: a counter is       *)
(* exactly the Running jobs plus the slot in the tick's hands.             *)
BudgetExact ==
  \A e \in Envelopes :
    running[e] = Cardinality(RunningIn(e)) + Cardinality(HoldersIn(e))

(* Dispatch re-reads the phase it was decided on; with a single tick it    *)
(* never meets one that refuses the signal, so tick() never returns Err.   *)
TickNeverFails == \A t \in Tickers : outcome[t] # "Err"

(* The phases only a job whose gates have passed can be in. *)
Started == {"Ready", "Running", "Failed", "Retrying", "Succeeded", "Deadlettered"}

UpstreamsTerminal(j) == \A p \in Preds[j] : is_terminal(phase[p])

(* Edge semantics of the Dag, also for verdicts computed from a snapshot   *)
(* that is stale when dispatched: a job that got past its gates has only   *)
(* terminal predecessors.                                                  *)
DagOrder == \A j \in Jobs : phase[j] \in Started => UpstreamsTerminal(j)

(* A job keeps retrying only while its policy has attempts left, is given  *)
(* up only when they are used, and a success clears the account: the       *)
(* attempts map against the phase, across the Retrying -> Pending cycle.   *)
RetryAccount ==
  \A j \in Jobs :
    /\ phase[j] \in {"Retrying", "Failed", "Deadlettered"} => attempts[j] > 0
    /\ phase[j] = "Retrying" => ~Deadletters(Policy[j], attempts[j], "Transient")
    /\ phase[j] = "Deadlettered" => Deadletters(Policy[j], attempts[j], "Transient")
    /\ phase[j] = "Succeeded" =>
         \/ attempts[j] = 0
         \/ \E t \in Tickers : pc[t] = "reset" /\ job[t] = j

(* The failure history handed to a RetryDecider is the numbers of the last *)
(* HistoryCap failures, ending with the current attempt count.             *)
HistoryMatches ==
  \A j \in Jobs :
    history[j] = LET n == Smaller(attempts[j], HistoryCap)
                 IN  [i \in 1 .. n |-> attempts[j] - n + i]

(* execute() is called only on the Ready -> Running transition: a job that *)
(* stays Running is not executed a second time.  One tick at a time keeps  *)
(* to it as long as its process lives, unless a panic has robbed it of a   *)
(* result (execute_concurrent).                                            *)
ExecuteOncePerRunning == \A j \in Jobs : executions[j] <= 1

(* A job leaves Retrying only once its backoff window has elapsed. *)
BackoffRespected ==
  [][\A j \in Jobs : phase[j] = "Retrying" /\ phase'[j] # "Retrying" => now >= until[j]]_vars

(* "The Job will stay in Running and surface as a stuck Job": a job whose  *)
(* task panicked is in the unhealed list of the tick's receipt             *)
(* (execute_concurrent, collect_unhealed).                                 *)
PanicSurfaces ==
  \A t \in Tickers : pc[t] = "idle" /\ outcome[t] = "Ok" =>
    \A j \in Jobs : phase[j] = "Running" /\ executions[j] > 0 => j \in unhealed[t]

(* "Allocate on Ready -> Running, release on Running -> terminal": when no *)
(* tick is under way the counters are the Running jobs, whatever the ticks *)
(* that shared the scheduler did (advance_once takes the slot before       *)
(* dispatch() finds out that the job is no longer Ready).                  *)
NoSlotLost ==
  (\A t \in Tickers : pc[t] = "idle") =>
    \A e \in Envelopes : running[e] = Cardinality(RunningIn(e))

(* "Every phase change goes through advance": the phase a job gets is what *)
(* advance() answers for some signal in the phase it had.                  *)
PhaseChangesAdvance ==
  [][\A j \in Jobs : phase'[j] # phase[j] =>
       \E s \in Signal : phase'[j] = advance(phase[j], s)]_vars

(* The scheduler implements the abstract work graph: a Running job is      *)
(* running, a terminal one done, every other one waiting.                  *)
Status == [j \in Jobs |-> CASE phase[j] = "Running" -> "running"
                            [] is_terminal(phase[j]) -> "done"
                            [] OTHER -> "waiting"]

WG == INSTANCE WorkGraph WITH status <- Status

ImplementsWorkGraph == WG!Spec

(* If the consumer's gates all come to answer Pass and stay so, every job  *)
(* of the Dag reaches a terminal phase and stays there: no slot is lost,   *)
(* no backoff is forgotten, no bounded inner loop starves a job.           *)
AllSettle ==
  <>[](\A g \in Gates : verdict[g] = "Pass")
    => <>[](\A j \in Jobs : is_terminal(phase[j]))
=============================================================================
