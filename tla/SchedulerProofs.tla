-------------------------- MODULE SchedulerProofs ---------------------------
(***************************************************************************)
(* Theorems about Scheduler for every Dag, budget, retry policy, set of    *)
(* gates and any number of concurrent ticks and operators.  The order of   *)
(* the Dag and the refinement of WorkGraph need that no operator re-opens  *)
(* a finished job or opens a gated one: Operators = {}.  That all phase    *)
(* changes are answers of advance(), and that an idle scheduler is quiet,  *)
(* needs that no two operators overlap: OneOperator.                       *)
(***************************************************************************)
EXTENDS Views, FiniteSetTheorems, TLAPS

-----------------------------------------------------------------------------
(* Facts about the operators the model is built from. *)

(* advance() answers with a phase or refuses. *)
LEMMA AdvanceType ==
  ASSUME NEW p \in JobPhase, NEW s
  PROVE  advance(p, s) \in JobPhase \cup {IllegalTransition}
BY DEF advance, JobPhase, Regatable, IllegalTransition

(* The aggregate of a cohort is a GateAggregate. *)
LEMMA ReduceType == ASSUME NEW S PROVE reduce(S) \in GateAggregate
BY DEF reduce, GateAggregate

(* A retry delay is a natural number. *)
LEMMA DelaysType ==
  ASSUME NEW p, NEW n, NEW d \in Delays(p, n)
  PROVE  d \in Nat
BY RetryAssumption DEF Delays

(* Every wave is a non-empty sequence of jobs. *)
LEMMA WaveNonEmpty ==
  ASSUME NEW w \in 1 .. Len(Waves)
  PROVE  Waves[w] \in Seq(Jobs) /\ Len(Waves[w]) \in Nat /\ 1 \in 1 .. Len(Waves[w])
<1>1. Waves[w] \in Seq(Jobs) /\ Len(Waves[w]) > 0
  BY SchedulerAssumption
<1> QED
  BY <1>1

(* Job at a cursor is a job of the Dag. *)
LEMMA CursorJob == ASSUME NEW c \in Cursor PROVE Waves[c.wave][c.idx] \in Jobs
<1>1. c.wave \in 1 .. Len(Waves) /\ c.idx \in 1 .. Len(Waves[c.wave])
  BY DEF Cursor
<1>2. Waves \in Seq(Seq(Jobs))
  BY SchedulerAssumption
<1>3. Waves[c.wave] \in Seq(Jobs)
  BY <1>1, <1>2
<1> QED
  BY <1>1, <1>3

LEMMA FirstCursorOK == FirstCursor \in Cursor /\ Waves[1][1] \in Jobs
<1>1. 1 \in 1 .. Len(Waves) /\ 1 \in 1 .. Len(Waves[1])
  BY WaveNonEmpty, SchedulerAssumption
<1>2. FirstCursor \in Cursor
  BY <1>1 DEF FirstCursor, Cursor
<1> QED
  BY <1>2, CursorJob DEF FirstCursor

(* Every way a tick's cursor moves keeps its control state well typed. *)
LEMMA VisitOK ==
  ASSUME NEW t \in Tickers, NEW c \in Cursor, ControlOK, Visit(t, c)
  PROVE  ControlOK'
BY CursorJob DEF ControlOK, Visit, TickPc

(* The three ways a cursor moves inside its wave. *)
LEMMA CursorMoves ==
  ASSUME NEW c \in Cursor
  PROVE  /\ [c EXCEPT !.pass = 3, !.idx = 1, !.iter = 0] \in Cursor
         /\ [c EXCEPT !.iter = @ + 1] \in Cursor
         /\ c.idx # Len(Waves[c.wave]) => [c EXCEPT !.idx = @ + 1, !.iter = 0] \in Cursor
<1>1. /\ c \in [wave : 1 .. Len(Waves), pass : {1, 3}, idx : Nat, iter : Nat]
      /\ c.idx \in 1 .. Len(Waves[c.wave])
      /\ Len(Waves[c.wave]) \in Nat /\ 1 \in 1 .. Len(Waves[c.wave])
  BY WaveNonEmpty DEF Cursor
<1>2. ASSUME NEW p \in {1, 3}, NEW i \in 1 .. Len(Waves[c.wave]), NEW n \in Nat
      PROVE  [c EXCEPT !.pass = p, !.idx = i, !.iter = n] \in Cursor
  <2> DEFINE d == [c EXCEPT !.pass = p, !.idx = i, !.iter = n]
  <2>1. d \in [wave : 1 .. Len(Waves), pass : {1, 3}, idx : Nat, iter : Nat]
    <3>1. i \in Nat
      BY <1>1
    <3> QED
      BY <3>1, <1>1, Zenon
  <2>2. d.wave = c.wave /\ d.idx = i
    BY <1>1
  <2> QED
    BY <2>1, <2>2 DEF Cursor
<1>3. [c EXCEPT !.iter = @ + 1] = [c EXCEPT !.pass = c.pass, !.idx = c.idx, !.iter = c.iter + 1]
  BY <1>1
<1>4. [c EXCEPT !.idx = @ + 1, !.iter = 0]
        = [c EXCEPT !.pass = c.pass, !.idx = c.idx + 1, !.iter = 0]
  BY <1>1
<1>5. c.pass \in {1, 3} /\ c.iter + 1 \in Nat
  BY <1>1
<1>6. c.idx # Len(Waves[c.wave]) => c.idx + 1 \in 1 .. Len(Waves[c.wave])
  BY <1>1
<1> QED
  BY <1>1, <1>2, <1>3, <1>4, <1>5, <1>6

LEMMA StartPass3OK ==
  ASSUME NEW t \in Tickers, ControlOK, StartPass3(t)
  PROVE  ControlOK'
<1>1. cursor[t] \in Cursor
  BY DEF ControlOK
<1> QED
  BY <1>1, CursorMoves, VisitOK DEF StartPass3

LEMMA LeaveJobOK ==
  ASSUME NEW t \in Tickers, ControlOK, LeaveJob(t)
  PROVE  ControlOK'
<1> DEFINE c == cursor[t]
<1>1. c \in Cursor
  BY DEF ControlOK
<1>2. CASE c.idx # Len(Waves[c.wave]) /\ Visit(t, [c EXCEPT !.idx = @ + 1, !.iter = 0])
  BY <1>1, <1>2, CursorMoves, VisitOK
<1>3. CASE /\ c.wave < Len(Waves)
           /\ Visit(t, [wave |-> c.wave + 1, pass |-> 1, idx |-> 1, iter |-> 0])
  <2> DEFINE d == [wave |-> c.wave + 1, pass |-> 1, idx |-> 1, iter |-> 0]
  <2>1. d.wave \in 1 .. Len(Waves)
    BY <1>1, <1>3, SchedulerAssumption DEF Cursor
  <2>2. 1 \in 1 .. Len(Waves[d.wave])
    BY <2>1, WaveNonEmpty
  <2>3. d \in Cursor
    BY <2>1, <2>2 DEF Cursor
  <2> QED
    BY <2>3, <1>3, VisitOK
<1>4. CASE /\ \E q \in {"collect", "receipt"} : pc' = [pc EXCEPT ![t] = q]
           /\ UNCHANGED <<cursor, job>>
  BY <1>4 DEF ControlOK, TickPc
<1> QED
  BY <1>2, <1>3, <1>4 DEF LeaveJob

LEMMA ProgressedOK ==
  ASSUME NEW t \in Tickers, ControlOK, Progressed(t)
  PROVE  ControlOK'
<1>1. cursor[t] \in Cursor
  BY DEF ControlOK
<1> QED
  BY <1>1, CursorMoves, VisitOK, LeaveJobOK DEF Progressed

LEMMA AbortTickOK ==
  ASSUME NEW t \in Tickers, ControlOK, AbortTick(t)
  PROVE  ControlOK'
BY FirstCursorOK DEF ControlOK, AbortTick, TickPc

-----------------------------------------------------------------------------
(* Type correctness *)

LEMMA InitType == Init => TypeOK
<1> SUFFICES ASSUME Init PROVE TypeOK
  OBVIOUS
<1>1. ControlOK
  BY FirstCursorOK DEF Init, ControlOK, TickPc
<1>2. DataOK
  <2>1. NoView \in View /\ "Pending" \in JobPhase
    BY DEF NoView, View, JobPhase
  <2>2. [from |-> "Pending", to |-> "Pending"] \in Event
    BY <2>1 DEF Event
  <2>3. [pc |-> "idle", job |-> Waves[1][1], from |-> "Pending", to |-> "Pending"] \in OperatorCall
    BY <2>1, FirstCursorOK DEF OperatorCall
  <2> QED
    BY <2>1, <2>2, <2>3, SchedulerAssumption DEF Init, DataOK
<1> QED
  BY <1>1, <1>2 DEF TypeOK

(* A legal transition keeps the job state well typed. *)
LEMMA TransitionType ==
  ASSUME DataOK, NEW j \in Jobs, NEW s, NEW d \in Int, Legal(j, s), Transition(j, s, d)
  PROVE  /\ phase' \in [Jobs -> JobPhase]
         /\ until' \in [Jobs -> Int]
         /\ emitted' \in [Jobs -> Event]
         /\ executions' \in [Jobs -> 0 .. MaxExecutions]
<1>1. phase[j] \in JobPhase /\ advance(phase[j], s) \in JobPhase
  BY AdvanceType DEF DataOK, Legal
<1>2. [from |-> phase[j], to |-> advance(phase[j], s)] \in Event
  BY <1>1 DEF Event
<1> QED
  BY <1>1, <1>2, SchedulerAssumption DEF Transition, DataOK

(* Trimming the failure history keeps it a sequence of naturals. *)
LEMMA KeepLastType ==
  ASSUME NEW h \in Seq(Nat)
  PROVE  KeepLast(h) \in Seq(Nat)
<1>1. CASE Len(h) > HistoryCap
  <2>1. Len(h) - HistoryCap + 1 \in 1 .. Len(h) + 1 /\ Len(h) \in Nat
    BY <1>1, SchedulerAssumption
  <2>2. SubSeq(h, Len(h) - HistoryCap + 1, Len(h)) \in Seq(Nat)
    BY <2>1
  <2> QED
    BY <1>1, <2>2 DEF KeepLast
<1> QED
  BY <1>1 DEF KeepLast

(* A decision of advance_once is a signal, with a deadline if it needs one. *)
LEMMA DecideType ==
  ASSUME TypeOK, NEW t \in Tickers, NEW s \in TickSignal, NEW d \in Int, Decide(t, s, d)
  PROVE  /\ ControlOK'
         /\ signal' \in [Tickers -> TickSignal \cup {NoSignal}]
         /\ deadline' \in [Tickers -> Int]
         /\ view' \in [Tickers -> View]
<1>1. NoView \in View
  BY DEF NoView, View, JobPhase
<1> QED
  BY <1>1 DEF TypeOK, ControlOK, DataOK, Decide, TickPc

LEMMA NoProgressType ==
  ASSUME TypeOK, NEW t \in Tickers, NoProgress(t)
  PROVE  /\ ControlOK'
         /\ signal' \in [Tickers -> TickSignal \cup {NoSignal}]
         /\ deadline' \in [Tickers -> Int]
         /\ view' \in [Tickers -> View]
<1>1. NoView \in View
  BY DEF NoView, View, JobPhase
<1>2. ControlOK'
  BY LeaveJobOK DEF NoProgress, TypeOK
<1> QED
  BY <1>1, <1>2 DEF TypeOK, DataOK, NoProgress

LEMMA NextType == TypeOK /\ [Next]_vars => TypeOK'
<1> SUFFICES ASSUME TypeOK, [Next]_vars PROVE TypeOK'
  OBVIOUS
<1> USE DEF TypeOK
<1>0. SchedulerAssumption
  BY SchedulerAssumption
<1>1. ASSUME NEW t \in Tickers, TickStart(t) PROVE TypeOK'
  <2>1. ControlOK'
    BY <1>1, VisitOK, FirstCursorOK DEF TickStart
  <2> QED
    BY <1>1, <2>1 DEF TickStart, DataOK, stateVars
<1>2. ASSUME NEW t \in Tickers, PhaseOf(t) PROVE TypeOK'
  <2>1. ControlOK'
    BY <1>2, LeaveJobOK DEF PhaseOf, ControlOK, TickPc
  <2>2. [phase |-> phase[job[t]], until |-> until[job[t]]] \in View
    BY DEF View, ControlOK, DataOK
  <2> QED
    BY <1>2, <2>1, <2>2 DEF PhaseOf, DataOK, stateVars
<1>3. ASSUME NEW t \in Tickers, EvaluateGates(t) PROVE TypeOK'
  <2>1. evaluate_gates(job[t]) \in TickSignal
    BY ReduceType DEF evaluate_gates, TickSignal
  <2>2. /\ ControlOK'
        /\ signal' \in [Tickers -> TickSignal \cup {NoSignal}]
        /\ deadline' \in [Tickers -> Int]
        /\ view' \in [Tickers -> View]
    BY <1>3, <2>1, DecideType, NoProgressType DEF EvaluateGates
  <2> QED
    BY <1>3, <2>2 DEF EvaluateGates, DataOK, stateVars
<1>4. ASSUME NEW t \in Tickers, CheckBackoff(t) PROVE TypeOK'
  <2>1. /\ ControlOK'
        /\ signal' \in [Tickers -> TickSignal \cup {NoSignal}]
        /\ deadline' \in [Tickers -> Int]
        /\ view' \in [Tickers -> View]
    BY <1>4, DecideType, NoProgressType DEF CheckBackoff, TickSignal
  <2> QED
    BY <1>4, <2>1 DEF CheckBackoff, DataOK, stateVars
<1>5. ASSUME NEW t \in Tickers, TryAllocate(t) PROVE TypeOK'
  <2>1. /\ ControlOK'
        /\ signal' \in [Tickers -> TickSignal \cup {NoSignal}]
        /\ deadline' \in [Tickers -> Int]
        /\ view' \in [Tickers -> View]
    BY <1>5, DecideType, NoProgressType DEF TryAllocate, TickSignal
  <2>2. running' \in [Envelopes -> Nat]
    <3>1. try_allocate(running, job[t]) \in [Envelopes -> Nat]
      BY DEF DataOK, try_allocate
    <3>2. running' = try_allocate(running, job[t]) \/ running' = running
      BY <1>5 DEF TryAllocate
    <3> QED
      BY <3>1, <3>2 DEF DataOK
  <2> QED
    BY <1>5, <2>1, <2>2 DEF TryAllocate, DataOK, stateVars
<1>6. ASSUME NEW t \in Tickers, DecideRetry(t) PROVE TypeOK'
  <2>1. \A p, n : \A d \in Delays(p, n) : until_ms(now, d) \in Int
    BY DelaysType, RetryAssumption DEF until_ms, DataOK
  <2>2. /\ ControlOK'
        /\ signal' \in [Tickers -> TickSignal \cup {NoSignal}]
        /\ deadline' \in [Tickers -> Int]
        /\ view' \in [Tickers -> View]
    BY <1>6, <2>1, DecideType DEF DecideRetry, TickSignal
  <2> QED
    BY <1>6, <2>2 DEF DecideRetry, DataOK, stateVars
<1>7. ASSUME NEW t \in Tickers, Dispatch(t) PROVE TypeOK'
  <2>1. ControlOK'
    BY <1>7, ProgressedOK, AbortTickOK DEF Dispatch
  <2>2. /\ phase' \in [Jobs -> JobPhase]
        /\ until' \in [Jobs -> Int]
        /\ emitted' \in [Jobs -> Event]
        /\ executions' \in [Jobs -> 0 .. MaxExecutions]
    <3>1. job[t] \in Jobs /\ deadline[t] \in Int
      BY DEF ControlOK, DataOK
    <3> QED
      BY <1>7, <3>1, TransitionType DEF Dispatch, DataOK
  <2>3. outcome' \in [Tickers -> {"None", "Ok", "Err"}]
    BY <1>7 DEF Dispatch, AbortTick, DataOK
  <2>4. /\ signal' \in [Tickers -> TickSignal \cup {NoSignal}]
        /\ deadline' \in [Tickers -> Int]
    BY <1>7 DEF Dispatch, DataOK
  <2>5. UNCHANGED <<registered, attempts, history, running, now, verdict, view, tasks, results,
                    unhealed, op, ops>>
    BY <1>7 DEF Dispatch
  <2> QED
    BY <2>1, <2>2, <2>3, <2>4, <2>5 DEF DataOK
<1>8. ASSUME NEW t \in Tickers, Collect(t) PROVE TypeOK'
  <2> DEFINE ids == {j \in JobsOfWave(cursor[t].wave) : phase[j] = "Running"}
  <2>1. ControlOK'
    BY <1>8, StartPass3OK DEF Collect, ControlOK, TickPc
  <2>2. ids \subseteq Jobs
    BY WaveNonEmpty DEF JobsOfWave, ControlOK, Cursor
  <2>3. /\ tasks' \in [Tickers -> SUBSET Jobs]
        /\ results' \in [Tickers -> SUBSET (Jobs \X {"Ok", "Err"})]
    BY <1>8, <2>2 DEF Collect, DataOK
  <2>4. executions' \in [Jobs -> 0 .. MaxExecutions]
    BY <1>8, SchedulerAssumption DEF Collect, DataOK
  <2> QED
    BY <1>8, <2>1, <2>3, <2>4 DEF Collect, DataOK, stateVars
<1>9. ASSUME NEW t \in Tickers, Joined(t) PROVE TypeOK'
  <2>1. ControlOK'
    BY <1>9, StartPass3OK DEF Joined, ControlOK, TickPc
  <2> QED
    BY <1>9, <2>1 DEF Joined, DataOK, stateVars
<1>10. ASSUME NEW t \in Tickers, NEW j \in Jobs, ApplyOk(t, j) PROVE TypeOK'
  <2>1. ControlOK'
    BY <1>10, AbortTickOK DEF ApplyOk, ControlOK, TickPc
  <2>2. \/ Legal(j, "ExecutionSucceeded") /\ Transition(j, "ExecutionSucceeded", 0)
        \/ UNCHANGED <<phase, until, emitted, executions>>
    BY <1>10 DEF ApplyOk
  <2>3. /\ phase' \in [Jobs -> JobPhase]
        /\ until' \in [Jobs -> Int]
        /\ emitted' \in [Jobs -> Event]
        /\ executions' \in [Jobs -> 0 .. MaxExecutions]
    <3>1. CASE Legal(j, "ExecutionSucceeded") /\ Transition(j, "ExecutionSucceeded", 0)
      BY <3>1, TransitionType
    <3>2. CASE UNCHANGED <<phase, until, emitted, executions>>
      BY <3>2 DEF DataOK
    <3> QED
      BY <2>2, <3>1, <3>2
  <2>4. outcome' \in [Tickers -> {"None", "Ok", "Err"}]
    BY <1>10 DEF ApplyOk, AbortTick, DataOK
  <2>5. results' \in [Tickers -> SUBSET (Jobs \X {"Ok", "Err"})]
    <3>1. \E S \in SUBSET results[t] : results' = [results EXCEPT ![t] = S]
      BY <1>10 DEF ApplyOk, DataOK
    <3> QED
      BY <3>1 DEF DataOK
  <2>6. UNCHANGED <<registered, attempts, history, running, now, verdict, view, signal, deadline,
                    tasks, unhealed, op, ops>>
    BY <1>10 DEF ApplyOk
  <2> QED
    BY <2>1, <2>3, <2>4, <2>5, <2>6 DEF DataOK
<1>11. ASSUME NEW t \in Tickers, ResetAttempts(t) PROVE TypeOK'
  BY <1>11 DEF ResetAttempts, ControlOK, DataOK, TickPc
<1>12. ASSUME NEW t \in Tickers, NEW j \in Jobs, RecordFailure(t, j) PROVE TypeOK'
  <2>1. ControlOK'
    BY <1>12 DEF RecordFailure, ControlOK, TickPc
  <2>2. KeepLast(Append(history[j], attempts[j] + 1)) \in Seq(Nat)
    <3>1. Append(history[j], attempts[j] + 1) \in Seq(Nat)
      BY DEF DataOK
    <3> QED
      BY <3>1, KeepLastType
  <2>3. history' \in [Jobs -> Seq(Nat)] /\ attempts' \in [Jobs -> Nat]
    BY <1>12, <2>2 DEF RecordFailure, DataOK
  <2>4. results' \in [Tickers -> SUBSET (Jobs \X {"Ok", "Err"})]
    BY <1>12 DEF RecordFailure, DataOK
  <2> QED
    BY <1>12, <2>1, <2>3, <2>4 DEF RecordFailure, DataOK
<1>13. ASSUME NEW t \in Tickers, ApplyErr(t) PROVE TypeOK'
  <2>1. ControlOK'
    BY <1>13, AbortTickOK DEF ApplyErr, ControlOK, TickPc
  <2>0. job[t] \in Jobs
    BY DEF ControlOK
  <2>2. \/ Legal(job[t], "ExecutionFailed") /\ Transition(job[t], "ExecutionFailed", 0)
        \/ UNCHANGED <<phase, until, emitted, executions>>
    BY <1>13 DEF ApplyErr
  <2>3. /\ phase' \in [Jobs -> JobPhase]
        /\ until' \in [Jobs -> Int]
        /\ emitted' \in [Jobs -> Event]
        /\ executions' \in [Jobs -> 0 .. MaxExecutions]
    <3>1. CASE Legal(job[t], "ExecutionFailed") /\ Transition(job[t], "ExecutionFailed", 0)
      BY <3>1, <2>0, TransitionType
    <3>2. CASE UNCHANGED <<phase, until, emitted, executions>>
      BY <3>2 DEF DataOK
    <3> QED
      BY <2>2, <3>1, <3>2
  <2>4. outcome' \in [Tickers -> {"None", "Ok", "Err"}]
    BY <1>13 DEF ApplyErr, AbortTick, DataOK
  <2>5. results' \in [Tickers -> SUBSET (Jobs \X {"Ok", "Err"})]
    <3>1. \E S \in SUBSET results[t] : results' = [results EXCEPT ![t] = S]
      BY <1>13 DEF ApplyErr, DataOK
    <3> QED
      BY <3>1 DEF DataOK
  <2>6. UNCHANGED <<registered, attempts, history, running, now, verdict, view, signal, deadline,
                    tasks, unhealed, op, ops>>
    BY <1>13 DEF ApplyErr
  <2> QED
    BY <2>1, <2>3, <2>4, <2>5, <2>6 DEF DataOK
<1>14. ASSUME NEW t \in Tickers, Release(t) PROVE TypeOK'
  <2>1. ControlOK'
    BY <1>14, StartPass3OK DEF Release, ControlOK, TickPc
  <2>2. running' \in [Envelopes -> Nat]
    BY <1>14 DEF Release, release, DataOK
  <2> QED
    BY <1>14, <2>1, <2>2 DEF Release, DataOK, stateVars
<1>15. ASSUME NEW t \in Tickers, Receipt(t) PROVE TypeOK'
  <2>1. ControlOK'
    BY <1>15, FirstCursorOK DEF Receipt, ControlOK, TickPc
  <2> QED
    BY <1>15, <2>1 DEF Receipt, collect_unhealed, DataOK, stateVars
<1>16. ASSUME NEW t \in Tickers, TaskStep(t) PROVE TypeOK'
  <2>1. PICK j \in Jobs : Return(t, j, "Ok") \/ Return(t, j, "Err") \/ Panic(t, j)
    BY <1>16 DEF TaskStep
  <2>2. ControlOK'
    BY <2>1 DEF Return, Panic, ControlOK
  <2>3. tasks' \in [Tickers -> SUBSET Jobs]
    <3>1. tasks' = [tasks EXCEPT ![t] = tasks[t] \ {j}]
      BY <2>1 DEF Return, Panic
    <3>2. tasks \in [Tickers -> SUBSET Jobs] /\ tasks[t] \ {j} \in SUBSET Jobs
      BY DEF DataOK
    <3> QED
      BY <3>1, <3>2
  <2>4. results' \in [Tickers -> SUBSET (Jobs \X {"Ok", "Err"})]
    BY <2>1 DEF Return, Panic, DataOK
  <2>5. UNCHANGED <<stateVars, running, now, verdict, view, signal, deadline, outcome, unhealed,
                    op, ops, emitted, executions>>
    BY <2>1 DEF Return, Panic
  <2> QED
    BY <2>2, <2>3, <2>4, <2>5 DEF DataOK, stateVars
<1>17. ASSUME NEW o \in Operators, OperatorStep(o) PROVE TypeOK'
  <2>1. ASSUME NEW j \in Jobs, NEW s \in OperatorSignal, OperatorRead(o, j, s) PROVE TypeOK'
    <3>1. [pc |-> "write", job |-> j, from |-> phase[j], to |-> advance(phase[j], s)] \in OperatorCall
      BY <2>1, AdvanceType DEF OperatorRead, Legal, OperatorCall, DataOK
    <3> QED
      BY <2>1, <3>1 DEF OperatorRead, ControlOK, DataOK, stateVars, tickVars
  <2>2. ASSUME OperatorWrite(o) PROVE TypeOK'
    <3>1. op[o] \in OperatorCall /\ [op[o] EXCEPT !.pc = "emit"] \in OperatorCall
      BY DEF DataOK, OperatorCall
    <3>2. op[o].job \in Jobs /\ op[o].to \in JobPhase
      BY <3>1 DEF OperatorCall
    <3> QED
      <4>1. /\ phase' \in [Jobs -> JobPhase]
            /\ until' \in [Jobs -> Int]
            /\ op' \in [Operators -> OperatorCall]
        BY <2>2, <3>1, <3>2 DEF OperatorWrite, DataOK
      <4> QED
        BY <2>2, <4>1 DEF OperatorWrite, ControlOK, DataOK, tickVars
  <2>3. ASSUME OperatorEmit(o) PROVE TypeOK'
    <3>1. op[o] \in OperatorCall /\ [op[o] EXCEPT !.pc = "idle"] \in OperatorCall
      BY DEF DataOK, OperatorCall
    <3>2. [from |-> op[o].from, to |-> op[o].to] \in Event
      BY <3>1 DEF OperatorCall, Event
    <3> QED
      BY <2>3, <3>1, <3>2 DEF OperatorEmit, ControlOK, DataOK, stateVars, tickVars
  <2> QED
    BY <1>17, <2>1, <2>2, <2>3 DEF OperatorStep
<1>18. ASSUME NEW j \in Jobs, RegisterJob(j) PROVE TypeOK'
  BY <1>18 DEF RegisterJob, ControlOK, DataOK, tickVars
<1>19. ASSUME NEW x \in Gates, NEW v \in GateOutcome, ChangeVerdict(x, v) PROVE TypeOK'
  BY <1>19 DEF ChangeVerdict, ControlOK, DataOK, stateVars, tickVars
<1>20. ASSUME ClockAdvances PROVE TypeOK'
  BY <1>20 DEF ClockAdvances, ControlOK, DataOK, stateVars, tickVars
<1>21. ASSUME UNCHANGED vars PROVE TypeOK'
  BY <1>21 DEF vars, ControlOK, DataOK, stateVars, tickVars
<1> QED
  BY <1>1, <1>2, <1>3, <1>4, <1>5, <1>6, <1>7, <1>8, <1>9, <1>10, <1>11, <1>12, <1>13,
     <1>14, <1>15, <1>16, <1>17, <1>18, <1>19, <1>20, <1>21
     DEF Next, TickStep, AdvanceOnce, ApplyResult

(* Every reachable state is well typed; in particular no tick's cursor     *)
(* leaves its wave and no phase is ever the refusal of advance().          *)
THEOREM TypeCorrect == Spec => []TypeOK
<1>1. Init => TypeOK
  BY InitType
<1>2. TypeOK /\ [Next]_vars => TypeOK'
  BY NextType
<1> QED
  BY <1>1, <1>2, PTL DEF Spec

-----------------------------------------------------------------------------
(* The budget *)

Cover(e) == running[e] >= Cardinality(RunningIn(e)) + Cardinality(HoldersIn(e))

CountersWithinCap == \A e \in Envelopes : Cap[e] # Unbounded => running[e] <= Cap[e]

(* An operator's write never makes a job Running. *)
OperatorTargets == \A o \in Operators : op[o].to \in {"Pending", "Ready", "Skipped"}

BudgetInv == TypeOK /\ OperatorTargets /\ CountersWithinCap /\ CountersCoverRunning

(* A step of tick t leaves the other ticks' control state alone. *)
Frame(t) == \A u \in Tickers \ {t} : pc'[u] = pc[u] /\ job'[u] = job[u]

LEMMA ControlMoves ==
  ASSUME ControlOK, NEW t \in Tickers,
         \/ \E c : Visit(t, c)
         \/ LeaveJob(t) \/ StartPass3(t) \/ Progressed(t) \/ AbortTick(t)
  PROVE  Frame(t) /\ pc'[t] \in {"phase_of", "collect", "receipt", "idle"}
<1>1. ASSUME NEW c, Visit(t, c) PROVE Frame(t) /\ pc'[t] = "phase_of"
  BY <1>1 DEF Visit, Frame, ControlOK
<1>2. ASSUME LeaveJob(t) PROVE Frame(t) /\ pc'[t] \in {"phase_of", "collect", "receipt"}
  <2>1. CASE /\ pc' = [pc EXCEPT ![t] = "collect"] \/ pc' = [pc EXCEPT ![t] = "receipt"]
             /\ UNCHANGED <<cursor, job>>
    BY <2>1 DEF Frame, ControlOK
  <2>2. CASE \E c : Visit(t, c)
    BY <2>2, <1>1
  <2> QED
    BY <1>2, <2>1, <2>2 DEF LeaveJob
<1>3. ASSUME AbortTick(t) PROVE Frame(t) /\ pc'[t] = "idle"
  BY <1>3 DEF AbortTick, Frame, ControlOK
<1> QED
  BY <1>1, <1>2, <1>3 DEF StartPass3, Progressed

(* The sets counted by Cover are finite. *)
LEMMA CoverFinite ==
  ASSUME NEW e
  PROVE  /\ IsFiniteSet(RunningIn(e)) /\ IsFiniteSet(HoldersIn(e))
         /\ Cardinality(RunningIn(e)) \in Nat /\ Cardinality(HoldersIn(e)) \in Nat
         /\ IsFiniteSet(RunningIn(e)') /\ IsFiniteSet(HoldersIn(e)')
         /\ Cardinality(RunningIn(e)') \in Nat /\ Cardinality(HoldersIn(e)') \in Nat
<1>1. IsFiniteSet(Jobs) /\ IsFiniteSet(Tickers)
  BY SchedulerAssumption
<1>2. RunningIn(e) \subseteq Jobs /\ RunningIn(e)' \subseteq Jobs
  BY DEF RunningIn
<1>3. HoldersIn(e) \subseteq Tickers /\ HoldersIn(e)' \subseteq Tickers
  BY DEF HoldersIn
<1> QED
  BY <1>1, <1>2, <1>3, FS_Subset, FS_CardinalityType

(* Nothing Running and nothing held is gained: the cover stays. *)
LEMMA CoverShrinks ==
  ASSUME NEW e \in Envelopes, TypeOK, Cover(e), running'[e] = running[e],
         RunningIn(e)' \subseteq RunningIn(e), HoldersIn(e)' \subseteq HoldersIn(e)
  PROVE  Cover(e)'
<1>1. /\ Cardinality(RunningIn(e)') <= Cardinality(RunningIn(e))
      /\ Cardinality(HoldersIn(e)') <= Cardinality(HoldersIn(e))
  BY CoverFinite, FS_Subset
<1>2. running[e] \in Nat
  BY DEF TypeOK, DataOK
<1> QED
  BY <1>1, <1>2, CoverFinite DEF Cover

(* The other holders are not touched by a step of tick t. *)
LEMMA OtherHolders ==
  ASSUME NEW e \in Envelopes, NEW t \in Tickers, Frame(t),
         \A u \in Tickers \ {t} : signal'[u] = signal[u]
  PROVE  HoldersIn(e)' \ {t} = HoldersIn(e) \ {t}
BY DEF Frame, HoldersIn, HoldsSlot

(* A step of tick t that moves no phase and no counter, and after which t  *)
(* holds no slot, keeps the cover.                                         *)
LEMMA CoverQuiet ==
  ASSUME NEW e \in Envelopes, TypeOK, Cover(e), NEW t \in Tickers, Frame(t),
         \A u \in Tickers \ {t} : signal'[u] = signal[u],
         UNCHANGED <<phase, running>>, ~(HoldsSlot(t)')
  PROVE  Cover(e)'
<1>1. RunningIn(e)' = RunningIn(e)
  BY DEF RunningIn
<1>2. t \notin HoldersIn(e)'
  BY DEF HoldersIn
<1>3. HoldersIn(e)' \subseteq HoldersIn(e)
  BY <1>2, OtherHolders
<1> QED
  BY <1>1, <1>3, CoverShrinks

(* A tick takes a slot: one more holder, one more on the counter. *)
LEMMA CoverAllocate ==
  ASSUME NEW e \in Envelopes, TypeOK, Cover(e), NEW t \in Tickers, TryAllocate(t)
  PROVE  Cover(e)'
<1> USE DEF TypeOK
<1>1. CASE CanAllocate(running, job[t]) /\ running' = try_allocate(running, job[t])
                /\ Decide(t, "AllocateBudget", 0)
  <2>1. Frame(t) /\ (\A u \in Tickers \ {t} : signal'[u] = signal[u]) /\ job' = job
    BY <1>1 DEF Decide, Frame, ControlOK, DataOK
  <2>2. RunningIn(e)' = RunningIn(e)
    BY DEF TryAllocate, stateVars, RunningIn
  <2>3. t \notin HoldersIn(e)
    BY DEF HoldersIn, HoldsSlot, TryAllocate
  <2>4. running[e] \in Nat
    BY DEF DataOK
  <2>5. CASE e \in EnvelopesOf[job[t]]
    <3>1. running'[e] = running[e] + 1
      BY <1>1, <2>5 DEF try_allocate
    <3>2. HoldersIn(e)' \subseteq HoldersIn(e) \cup {t}
      BY <2>1, OtherHolders
    <3>3. Cardinality(HoldersIn(e) \cup {t}) = Cardinality(HoldersIn(e)) + 1
      BY <2>3, CoverFinite, FS_AddElement
    <3>4. Cardinality(HoldersIn(e)') <= Cardinality(HoldersIn(e)) + 1
      <4>1. IsFiniteSet(HoldersIn(e) \cup {t})
        BY CoverFinite, FS_AddElement
      <4> QED
        BY <3>2, <3>3, <4>1, FS_Subset
    <3> QED
      BY <2>2, <2>4, <3>1, <3>4, CoverFinite DEF Cover
  <2>6. CASE e \notin EnvelopesOf[job[t]]
    <3>1. running'[e] = running[e]
      BY <1>1, <2>4, <2>6 DEF try_allocate
    <3>2. t \notin HoldersIn(e)'
      BY <2>1, <2>6 DEF HoldersIn
    <3>3. HoldersIn(e)' \subseteq HoldersIn(e)
      BY <2>1, <3>2, OtherHolders
    <3> QED
      BY <2>2, <3>1, <3>3, CoverShrinks
  <2> QED
    BY <2>5, <2>6
<1>2. CASE UNCHANGED running /\ NoProgress(t)
  <2>1. Frame(t) /\ pc'[t] \in {"phase_of", "collect", "receipt", "idle"} /\ UNCHANGED signal
    BY <1>2, ControlMoves DEF NoProgress
  <2>2. ~(HoldsSlot(t)') /\ UNCHANGED phase
    BY <2>1 DEF HoldsSlot, TryAllocate, stateVars
  <2> QED
    BY <1>2, <2>1, <2>2, CoverQuiet
<1> QED
  BY <1>1, <1>2 DEF TryAllocate

(* A dispatched signal makes a job Running only when it is AllocateBudget, *)
(* and then the slot in the tick's hands becomes the job's.                *)
LEMMA AdvanceRunning ==
  ASSUME NEW p \in JobPhase, NEW s, advance(p, s) = "Running"
  PROVE  s = "AllocateBudget" /\ p = "Ready"
BY DEF advance, JobPhase, Regatable, IllegalTransition

LEMMA AdvanceFromRunning ==
  /\ advance("Running", "ExecutionSucceeded") = "Succeeded"
  /\ advance("Running", "ExecutionFailed") = "Failed"
BY DEF advance, Regatable

LEMMA CoverDispatch ==
  ASSUME NEW e \in Envelopes, TypeOK, Cover(e), NEW t \in Tickers, Dispatch(t)
  PROVE  Cover(e)'
<1> USE DEF TypeOK
<1>1. /\ Frame(t) /\ pc'[t] \in {"phase_of", "collect", "receipt", "idle"}
      /\ \A u \in Tickers \ {t} : signal'[u] = signal[u]
  <2>1. \A u \in Tickers \ {t} : signal'[u] = signal[u]
    BY DEF Dispatch, DataOK
  <2> QED
    BY <2>1, ControlMoves DEF Dispatch
<1>2. /\ t \notin HoldersIn(e)'
      /\ HoldersIn(e)' = HoldersIn(e) \ {t}
  <2>1. ~(HoldsSlot(t)')
    BY <1>1 DEF HoldsSlot
  <2>2. t \notin HoldersIn(e)'
    BY <2>1 DEF HoldersIn
  <2> QED
    BY <1>1, <2>2, OtherHolders
<1>3. running'[e] = running[e] /\ running[e] \in Nat
  BY DEF Dispatch, DataOK
<1>4. job[t] \in Jobs /\ phase[job[t]] \in JobPhase
  BY DEF ControlOK, DataOK
<1>5. CASE UNCHANGED phase
  <2>1. RunningIn(e)' = RunningIn(e)
    BY <1>5 DEF RunningIn
  <2> QED
    BY <1>2, <1>3, <2>1, CoverShrinks
<1>6. CASE Legal(job[t], signal[t]) /\ Transition(job[t], signal[t], deadline[t])
  <2>1. phase' = [phase EXCEPT ![job[t]] = advance(phase[job[t]], signal[t])]
    BY <1>6 DEF Transition
  <2>2. CASE advance(phase[job[t]], signal[t]) # "Running" \/ e \notin EnvelopesOf[job[t]]
    <3>1. RunningIn(e)' \subseteq RunningIn(e)
      BY <2>1, <2>2, <1>4 DEF RunningIn, DataOK
    <3> QED
      BY <1>2, <1>3, <3>1, CoverShrinks
  <2>3. CASE advance(phase[job[t]], signal[t]) = "Running" /\ e \in EnvelopesOf[job[t]]
    <3>1. signal[t] = "AllocateBudget"
      BY <1>4, <2>3, AdvanceRunning
    <3>2. t \in HoldersIn(e)
      BY <3>1, <2>3 DEF HoldersIn, HoldsSlot, Dispatch
    <3>3. RunningIn(e)' \subseteq RunningIn(e) \cup {job[t]}
      BY <2>1 DEF RunningIn, DataOK
    <3>4. Cardinality(RunningIn(e)') <= Cardinality(RunningIn(e)) + 1
      <4>1. /\ IsFiniteSet(RunningIn(e) \cup {job[t]})
            /\ Cardinality(RunningIn(e) \cup {job[t]}) <= Cardinality(RunningIn(e)) + 1
        <5> DEFINE R == RunningIn(e)
        <5>1. IsFiniteSet(R) /\ Cardinality(R) \in Nat
          BY CoverFinite
        <5> HIDE DEF R
        <5>2. /\ IsFiniteSet(R \cup {job[t]})
              /\ Cardinality(R \cup {job[t]})
                   = IF job[t] \in R THEN Cardinality(R) ELSE Cardinality(R) + 1
          BY <5>1, FS_AddElement
        <5>3. IsFiniteSet(R \cup {job[t]}) /\ Cardinality(R \cup {job[t]}) <= Cardinality(R) + 1
          BY <5>1, <5>2
        <5> QED
          BY <5>3 DEF R
      <4>2. Cardinality(RunningIn(e)') <= Cardinality(RunningIn(e) \cup {job[t]})
        BY <3>3, <4>1, FS_Subset
      <4>3. Cardinality(RunningIn(e) \cup {job[t]}) \in Nat
        BY <4>1, FS_CardinalityType
      <4> QED
        BY <4>1, <4>2, <4>3, CoverFinite
    <3>5. Cardinality(HoldersIn(e)') = Cardinality(HoldersIn(e)) - 1
      BY <1>2, <3>2, CoverFinite, FS_RemoveElement
    <3> QED
      BY <1>3, <3>4, <3>5, CoverFinite DEF Cover
  <2> QED
    BY <2>2, <2>3
<1> QED
  BY <1>5, <1>6 DEF Dispatch

(* The end of an execution: the job's slot goes into the tick's hands. *)
LEMMA CoverEnd ==
  ASSUME NEW e \in Envelopes, TypeOK, Cover(e), NEW t \in Tickers, NEW j \in Jobs,
         pc[t] \in {"apply", "failed"}, phase[j] = "Running", phase'[j] # "Running",
         \A k \in Jobs \ {j} : phase'[k] = phase[k],
         Frame(t), job'[t] = j, UNCHANGED <<running, signal>>
  PROVE  Cover(e)'
<1>1. running'[e] = running[e] /\ running[e] \in Nat
  BY DEF TypeOK, DataOK
<1>2. t \notin HoldersIn(e)
  BY DEF HoldersIn, HoldsSlot
<1>3. CASE e \in EnvelopesOf[j]
  <2>1. j \in RunningIn(e) /\ RunningIn(e)' = RunningIn(e) \ {j}
    BY <1>3 DEF RunningIn
  <2>2. Cardinality(RunningIn(e)') = Cardinality(RunningIn(e)) - 1
    <3>1. IsFiniteSet(RunningIn(e))
      BY CoverFinite
    <3>2. Cardinality(RunningIn(e) \ {j}) = Cardinality(RunningIn(e)) - 1
      BY <2>1, <3>1, FS_RemoveElement
    <3> QED
      BY <2>1, <3>2
  <2>3. HoldersIn(e)' \subseteq HoldersIn(e) \cup {t}
    BY OtherHolders
  <2>4. /\ IsFiniteSet(HoldersIn(e) \cup {t})
        /\ Cardinality(HoldersIn(e) \cup {t}) = Cardinality(HoldersIn(e)) + 1
    BY <1>2, CoverFinite, FS_AddElement
  <2>5. Cardinality(HoldersIn(e)') <= Cardinality(HoldersIn(e)) + 1
    BY <2>3, <2>4, FS_Subset
  <2> QED
    BY <1>1, <2>2, <2>5, CoverFinite DEF Cover
<1>4. CASE e \notin EnvelopesOf[j]
  <2>1. t \notin HoldersIn(e)'
    BY <1>4 DEF HoldersIn
  <2>2. HoldersIn(e)' \subseteq HoldersIn(e)
    BY <2>1, OtherHolders
  <2>3. RunningIn(e)' \subseteq RunningIn(e)
    BY DEF RunningIn
  <2> QED
    BY <1>1, <2>2, <2>3, CoverShrinks
<1> QED
  BY <1>3, <1>4

(* A release takes the tick out of the holders and one off the counters. *)
LEMMA CoverRelease ==
  ASSUME NEW e \in Envelopes, TypeOK, Cover(e), NEW t \in Tickers, Release(t)
  PROVE  Cover(e)'
<1> USE DEF TypeOK
<1>1. Frame(t) /\ pc'[t] # "reset" /\ pc'[t] # "release" /\ pc'[t] # "dispatch"
  <2>1. CASE StartPass3(t)
    BY <2>1, ControlMoves
  <2>2. CASE pc' = [pc EXCEPT ![t] = "apply"] /\ UNCHANGED <<cursor, job>>
    BY <2>2 DEF Frame, ControlOK
  <2> QED
    BY <2>1, <2>2 DEF Release
<1>2. HoldersIn(e)' = HoldersIn(e) \ {t}
  <2>1. t \notin HoldersIn(e)'
    BY <1>1 DEF HoldersIn, HoldsSlot
  <2> QED
    BY <1>1, <2>1, OtherHolders DEF Release
<1>3. RunningIn(e)' = RunningIn(e)
  BY DEF Release, stateVars, RunningIn
<1>4. running[e] \in Nat
  BY DEF DataOK
<1>5. CASE e \in EnvelopesOf[job[t]]
  <2>1. t \in HoldersIn(e)
    BY <1>5 DEF HoldersIn, HoldsSlot, Release
  <2>2. Cardinality(HoldersIn(e)') = Cardinality(HoldersIn(e)) - 1
    BY <1>2, <2>1, CoverFinite, FS_RemoveElement
  <2>3. running[e] >= 1
    BY <1>4, <2>2, CoverFinite DEF Cover
  <2>4. running'[e] = running[e] - 1
    BY <1>4, <1>5, <2>3 DEF Release, release
  <2> QED
    BY <1>3, <1>4, <2>2, <2>4, CoverFinite DEF Cover
<1>6. CASE e \notin EnvelopesOf[job[t]]
  <2>1. running'[e] = running[e]
    BY <1>6 DEF Release, release
  <2> QED
    BY <1>2, <1>3, <2>1, CoverShrinks
<1> QED
  BY <1>5, <1>6

LEMMA CoverApplyOk ==
  ASSUME NEW e \in Envelopes, TypeOK, Cover(e), NEW t \in Tickers, NEW j \in Jobs, ApplyOk(t, j)
  PROVE  Cover(e)'
<1> USE DEF TypeOK
<1>1. pc[t] = "apply" /\ UNCHANGED <<running, signal>> /\ phase[j] \in JobPhase
  BY DEF ApplyOk, DataOK
<1>2. CASE /\ Legal(j, "ExecutionSucceeded") /\ Transition(j, "ExecutionSucceeded", 0)
           /\ pc' = [pc EXCEPT ![t] = "reset"] /\ job' = [job EXCEPT ![t] = j]
  <2>1. phase[j] = "Running" /\ advance(phase[j], "ExecutionSucceeded") = "Succeeded"
    BY <1>1, <1>2 DEF Legal, advance, JobPhase, Regatable, IllegalTransition
  <2>2. phase'[j] # "Running" /\ \A k \in Jobs \ {j} : phase'[k] = phase[k]
    BY <1>2, <2>1 DEF Transition, DataOK
  <2>3. Frame(t) /\ job'[t] = j
    BY <1>2 DEF Frame, ControlOK
  <2> QED
    BY <1>1, <2>1, <2>2, <2>3, CoverEnd
<1>3. CASE AbortTick(t) /\ UNCHANGED phase
  <2>1. Frame(t) /\ pc'[t] = "idle"
    BY <1>3 DEF AbortTick, Frame, ControlOK
  <2>2. ~(HoldsSlot(t)')
    BY <2>1 DEF HoldsSlot
  <2> QED
    BY <1>1, <1>3, <2>1, <2>2, CoverQuiet
<1> QED
  BY <1>2, <1>3 DEF ApplyOk

LEMMA CoverApplyErr ==
  ASSUME NEW e \in Envelopes, TypeOK, Cover(e), NEW t \in Tickers, ApplyErr(t)
  PROVE  Cover(e)'
<1> USE DEF TypeOK
<1>1. /\ pc[t] = "failed" /\ UNCHANGED <<running, signal>>
      /\ job[t] \in Jobs /\ phase[job[t]] \in JobPhase
  BY DEF ApplyErr, ControlOK, DataOK
<1>2. CASE /\ Legal(job[t], "ExecutionFailed") /\ Transition(job[t], "ExecutionFailed", 0)
           /\ pc' = [pc EXCEPT ![t] = "release"] /\ UNCHANGED job
  <2>1. phase[job[t]] = "Running" /\ advance(phase[job[t]], "ExecutionFailed") = "Failed"
    BY <1>1, <1>2 DEF Legal, advance, JobPhase, Regatable, IllegalTransition
  <2>2. phase'[job[t]] # "Running" /\ \A k \in Jobs \ {job[t]} : phase'[k] = phase[k]
    BY <1>1, <1>2, <2>1 DEF Transition, DataOK
  <2>3. Frame(t) /\ job'[t] = job[t]
    BY <1>2 DEF Frame, ControlOK
  <2> QED
    BY <1>1, <2>1, <2>2, <2>3, CoverEnd
<1>3. CASE AbortTick(t) /\ UNCHANGED phase
  <2>1. Frame(t) /\ pc'[t] = "idle"
    BY <1>3 DEF AbortTick, Frame, ControlOK
  <2>2. ~(HoldsSlot(t)')
    BY <2>1 DEF HoldsSlot
  <2> QED
    BY <1>1, <1>3, <2>1, <2>2, CoverQuiet
<1> QED
  BY <1>2, <1>3 DEF ApplyErr

(* A tick that drops its slot-free decision or makes one keeps the cover. *)
LEMMA CoverDecide ==
  ASSUME NEW e \in Envelopes, TypeOK, Cover(e), NEW t \in Tickers,
         \/ NoProgress(t)
         \/ \E s, d : s # "AllocateBudget" /\ Decide(t, s, d),
         UNCHANGED <<phase, running>>
  PROVE  Cover(e)'
<1> USE DEF TypeOK
<1>1. CASE NoProgress(t)
  <2>1. Frame(t) /\ pc'[t] \in {"phase_of", "collect", "receipt", "idle"} /\ UNCHANGED signal
    BY <1>1, ControlMoves DEF NoProgress
  <2>2. ~(HoldsSlot(t)')
    BY <2>1 DEF HoldsSlot
  <2> QED
    BY <2>1, <2>2, CoverQuiet
<1>2. ASSUME NEW s, NEW d, s # "AllocateBudget", Decide(t, s, d) PROVE Cover(e)'
  <2>1. /\ Frame(t) /\ pc'[t] = "dispatch" /\ signal'[t] = s
        /\ \A u \in Tickers \ {t} : signal'[u] = signal[u]
    BY <1>2 DEF Decide, Frame, ControlOK, DataOK
  <2>2. ~(HoldsSlot(t)')
    BY <1>2, <2>1 DEF HoldsSlot
  <2> QED
    BY <2>1, <2>2, CoverQuiet
<1> QED
  BY <1>1, <1>2

LEMMA CoverStep ==
  ASSUME NEW e \in Envelopes, TypeOK, OperatorTargets, Cover(e), [Next]_vars
  PROVE  Cover(e)'
<1> USE DEF TypeOK
<1>1. ASSUME NEW t \in Tickers,
             \/ TickStart(t) \/ PhaseOf(t) \/ Collect(t) \/ Joined(t) \/ Receipt(t)
             \/ \E j \in Jobs : RecordFailure(t, j)
      PROVE  Cover(e)'
  <2>1. UNCHANGED <<phase, running, signal>>
    BY <1>1 DEF TickStart, PhaseOf, Collect, Joined, Receipt, RecordFailure, stateVars
  <2>2. Frame(t) /\ pc'[t] \in {"phase_of", "collect", "receipt", "idle", "advance", "join",
                               "apply", "failed"}
    <3>1. CASE TickStart(t) \/ PhaseOf(t)
      BY <3>1, ControlMoves DEF TickStart, PhaseOf, Frame, ControlOK
    <3>2. CASE Collect(t) \/ Joined(t)
      BY <3>2, ControlMoves DEF Collect, Joined, Frame, ControlOK
    <3>3. CASE Receipt(t) \/ \E j \in Jobs : RecordFailure(t, j)
      BY <3>3 DEF Receipt, RecordFailure, Frame, ControlOK
    <3> QED
      BY <1>1, <3>1, <3>2, <3>3
  <2>3. ~(HoldsSlot(t)')
    BY <2>2 DEF HoldsSlot
  <2> QED
    BY <2>1, <2>2, <2>3, CoverQuiet
<1>2. ASSUME NEW t \in Tickers, AdvanceOnce(t) PROVE Cover(e)'
  <2>1. CASE EvaluateGates(t)
    <3>1. evaluate_gates(job[t]) # "AllocateBudget"
      BY ReduceType DEF evaluate_gates, GateAggregate
    <3> QED
      BY <2>1, <3>1, CoverDecide DEF EvaluateGates, stateVars
  <2>2. CASE CheckBackoff(t)
    BY <2>2, CoverDecide DEF CheckBackoff, stateVars
  <2>3. CASE DecideRetry(t)
    <3>1. \E s, d : s # "AllocateBudget" /\ Decide(t, s, d)
      BY <2>3 DEF DecideRetry
    <3> QED
      BY <2>3, <3>1, CoverDecide DEF DecideRetry, stateVars
  <2> QED
    BY <1>2, <2>1, <2>2, <2>3, CoverAllocate DEF AdvanceOnce
<1>3. ASSUME NEW t \in Tickers, ResetAttempts(t) PROVE Cover(e)'
  <2>1. HoldersIn(e)' = HoldersIn(e)
    BY <1>3 DEF ResetAttempts, HoldersIn, HoldsSlot, ControlOK
  <2>2. RunningIn(e)' = RunningIn(e) /\ running' = running
    BY <1>3 DEF ResetAttempts, RunningIn
  <2> QED
    BY <2>1, <2>2, CoverShrinks
<1>4. ASSUME NEW t \in Tickers, ApplyResult(t) PROVE Cover(e)'
  BY <1>1, <1>3, <1>4, CoverApplyOk, CoverApplyErr, CoverRelease DEF ApplyResult
<1>5. ASSUME UNCHANGED <<phase, running, pc, signal, job>> PROVE Cover(e)'
  BY <1>5 DEF Cover, RunningIn, HoldersIn, HoldsSlot
<1>6. ASSUME NEW o \in Operators, OperatorWrite(o) PROVE Cover(e)'
  <2>1. HoldersIn(e)' = HoldersIn(e) /\ running' = running
    BY <1>6 DEF OperatorWrite, tickVars, HoldersIn, HoldsSlot
  <2>2. RunningIn(e)' \subseteq RunningIn(e)
    BY <1>6 DEF OperatorWrite, OperatorTargets, RunningIn, DataOK
  <2> QED
    BY <2>1, <2>2, CoverShrinks
<1>7. CASE \E t \in Tickers : TickStep(t)
  BY <1>1, <1>2, <1>4, <1>7, CoverDispatch DEF TickStep
<1>8. CASE \E t \in Tickers : TaskStep(t)
  BY <1>5, <1>8 DEF TaskStep, Return, Panic, stateVars
<1>9. CASE \E o \in Operators : OperatorStep(o)
  BY <1>5, <1>6, <1>9 DEF OperatorStep, OperatorRead, OperatorEmit, stateVars, tickVars
<1>10. CASE \/ \E j \in Jobs : RegisterJob(j)
            \/ \E x \in Gates, v \in GateOutcome : ChangeVerdict(x, v)
            \/ ClockAdvances
  BY <1>5, <1>10 DEF RegisterJob, ChangeVerdict, ClockAdvances, stateVars, tickVars
<1>11. CASE UNCHANGED vars
  BY <1>5, <1>11 DEF vars, stateVars, tickVars
<1> QED
  BY <1>7, <1>8, <1>9, <1>10, <1>11 DEF Next

(* Which steps can change the operators' state and the budget counters. *)
LEMMA TickKeepsOp ==
  ASSUME NEW t \in Tickers, TickStep(t) \/ TaskStep(t)
  PROVE  UNCHANGED op
<1>1. TickStart(t) \/ PhaseOf(t) \/ Dispatch(t) => UNCHANGED op
  BY DEF TickStart, PhaseOf, Dispatch
<1>2. AdvanceOnce(t) => UNCHANGED op
  BY DEF AdvanceOnce, EvaluateGates, CheckBackoff, TryAllocate, DecideRetry
<1>3. Collect(t) \/ Joined(t) \/ Receipt(t) => UNCHANGED op
  BY DEF Collect, Joined, Receipt
<1>4. ApplyResult(t) => UNCHANGED op
  BY DEF ApplyResult, ApplyOk, RecordFailure, ResetAttempts, ApplyErr, Release
<1>5. TaskStep(t) => UNCHANGED op
  BY DEF TaskStep, Return, Panic
<1> QED
  BY <1>1, <1>2, <1>3, <1>4, <1>5 DEF TickStep

LEMMA OnlyOperatorsChangeOp ==
  ASSUME [Next]_vars
  PROVE  UNCHANGED op \/ \E o \in Operators : OperatorStep(o)
<1>1. ASSUME \E j \in Jobs : RegisterJob(j) PROVE UNCHANGED op
  BY <1>1 DEF RegisterJob
<1>2. ASSUME \E g \in Gates, v \in GateOutcome : ChangeVerdict(g, v) PROVE UNCHANGED op
  BY <1>2 DEF ChangeVerdict
<1>3. ClockAdvances => UNCHANGED op
  BY DEF ClockAdvances
<1>4. UNCHANGED vars => UNCHANGED op
  BY DEF vars
<1> QED
  BY <1>1, <1>2, <1>3, <1>4, TickKeepsOp DEF Next

LEMMA TickKeepsRunning ==
  ASSUME NEW t \in Tickers, TickStep(t) \/ TaskStep(t), ~TryAllocate(t), ~Release(t)
  PROVE  UNCHANGED running
<1>1. TickStart(t) \/ PhaseOf(t) \/ Dispatch(t) => UNCHANGED running
  BY DEF TickStart, PhaseOf, Dispatch
<1>2. AdvanceOnce(t) => UNCHANGED running
  BY DEF AdvanceOnce, EvaluateGates, CheckBackoff, DecideRetry
<1>3. Collect(t) \/ Joined(t) \/ Receipt(t) => UNCHANGED running
  BY DEF Collect, Joined, Receipt
<1>4. ApplyResult(t) => UNCHANGED running
  BY DEF ApplyResult, ApplyOk, RecordFailure, ResetAttempts, ApplyErr
<1>5. TaskStep(t) => UNCHANGED running
  BY DEF TaskStep, Return, Panic
<1> QED
  BY <1>1, <1>2, <1>3, <1>4, <1>5 DEF TickStep

LEMMA OnlyTicksChangeRunning ==
  ASSUME [Next]_vars
  PROVE  UNCHANGED running \/ \E t \in Tickers : TryAllocate(t) \/ Release(t)
<1>1. ASSUME \E j \in Jobs : RegisterJob(j) PROVE UNCHANGED running
  BY <1>1 DEF RegisterJob
<1>2. ASSUME \E g \in Gates, v \in GateOutcome : ChangeVerdict(g, v) PROVE UNCHANGED running
  BY <1>2 DEF ChangeVerdict
<1>3. ClockAdvances => UNCHANGED running
  BY DEF ClockAdvances
<1>4. ASSUME NEW o \in Operators, OperatorStep(o) PROVE UNCHANGED running
  BY <1>4 DEF OperatorStep, OperatorRead, OperatorWrite, OperatorEmit
<1>5. UNCHANGED vars => UNCHANGED running
  BY DEF vars
<1> QED
  BY <1>1, <1>2, <1>3, <1>4, <1>5, TickKeepsRunning DEF Next

LEMMA OperatorTargetsStep == TypeOK /\ OperatorTargets /\ [Next]_vars => OperatorTargets'
<1> SUFFICES ASSUME TypeOK, OperatorTargets, [Next]_vars PROVE OperatorTargets'
  OBVIOUS
<1>1. ASSUME NEW o \in Operators, OperatorStep(o) PROVE OperatorTargets'
  <2>1. ASSUME NEW j \in Jobs, NEW s \in OperatorSignal, OperatorRead(o, j, s)
        PROVE OperatorTargets'
    <3>1. advance(phase[j], s) \in {"Pending", "Ready", "Skipped"}
      BY <2>1 DEF OperatorRead, Legal, OperatorSignal, advance, IllegalTransition
    <3> QED
      BY <2>1, <3>1 DEF OperatorRead, OperatorTargets, TypeOK, DataOK
  <2>2. ASSUME OperatorWrite(o) \/ OperatorEmit(o) PROVE OperatorTargets'
    <3>1. PICK x : op' = [op EXCEPT ![o].pc = x]
      BY <2>2 DEF OperatorWrite, OperatorEmit
    <3>2. \A u \in Operators : op'[u].to = op[u].to
      BY <3>1 DEF TypeOK, DataOK, OperatorCall
    <3> QED
      BY <3>2 DEF OperatorTargets
  <2> QED
    BY <1>1, <2>1, <2>2 DEF OperatorStep
<1>2. CASE UNCHANGED op
  BY <1>2 DEF OperatorTargets
<1> QED
  BY <1>1, <1>2, OnlyOperatorsChangeOp

LEMMA WithinCapStep == TypeOK /\ CountersWithinCap /\ [Next]_vars => CountersWithinCap'
<1> SUFFICES ASSUME TypeOK, CountersWithinCap, [Next]_vars,
                    NEW e \in Envelopes, Cap[e] # Unbounded
             PROVE  running'[e] <= Cap[e]
  BY DEF CountersWithinCap
<1>1. running[e] \in Nat /\ running[e] <= Cap[e] /\ Cap[e] \in Nat
  BY BudgetAssumption DEF CountersWithinCap, TypeOK, DataOK
<1>2. ASSUME NEW t \in Tickers, TryAllocate(t) PROVE running'[e] <= Cap[e]
  <2>1. CASE CanAllocate(running, job[t]) /\ running' = try_allocate(running, job[t])
    <3>1. e \in EnvelopesOf[job[t]] => running[e] < Cap[e]
      BY <2>1 DEF CanAllocate, HasSlack
    <3>2. running'[e] = running[e] + (IF e \in EnvelopesOf[job[t]] THEN 1 ELSE 0)
      BY <2>1 DEF try_allocate
    <3> QED
      BY <1>1, <3>1, <3>2
  <2>2. CASE UNCHANGED running
    BY <1>1, <2>2
  <2> QED
    BY <1>2, <2>1, <2>2 DEF TryAllocate
<1>3. ASSUME NEW t \in Tickers, Release(t) PROVE running'[e] <= Cap[e]
  BY <1>1, <1>3 DEF Release, release
<1>4. CASE UNCHANGED running
  BY <1>1, <1>4
<1> QED
  BY <1>2, <1>3, <1>4, OnlyTicksChangeRunning

(* CountersCoverRunning holds in every behaviour: no interleaving of ticks *)
(* and operators loses a slot that a Running job stands on.                *)
LEMMA BudgetInvariant == Spec => []BudgetInv
<1>1. Init => BudgetInv
  <2> SUFFICES ASSUME Init PROVE BudgetInv
    OBVIOUS
  <2>1. TypeOK
    BY InitType
  <2>2. OperatorTargets
    BY DEF Init, OperatorTargets
  <2>3. CountersWithinCap
    BY BudgetAssumption DEF Init, CountersWithinCap
  <2>4. ASSUME NEW e \in Envelopes PROVE RunningIn(e) = {} /\ HoldersIn(e) = {} /\ running[e] = 0
    BY DEF Init, RunningIn, HoldersIn, HoldsSlot
  <2>5. CountersCoverRunning
    BY <2>4, FS_EmptySet DEF CountersCoverRunning
  <2> QED
    BY <2>1, <2>2, <2>3, <2>5 DEF BudgetInv
<1>2. BudgetInv /\ [Next]_vars => BudgetInv'
  <2> SUFFICES ASSUME BudgetInv, [Next]_vars PROVE BudgetInv'
    OBVIOUS
  <2>1. TypeOK' /\ OperatorTargets' /\ CountersWithinCap'
    BY NextType, OperatorTargetsStep, WithinCapStep DEF BudgetInv
  <2>2. ASSUME NEW e \in Envelopes PROVE Cover(e)'
    BY CoverStep DEF BudgetInv, CountersCoverRunning, Cover
  <2>3. CountersCoverRunning'
    BY <2>2 DEF CountersCoverRunning, Cover
  <2> QED
    BY <2>1, <2>3 DEF BudgetInv
<1> QED
  BY <1>1, <1>2, PTL DEF Spec

THEOREM CountersCover == Spec => []CountersCoverRunning
<1>1. BudgetInv => CountersCoverRunning
  BY DEF BudgetInv
<1> QED
  BY <1>1, BudgetInvariant, PTL

LEMMA CapOfInv == BudgetInv => CapRespected
<1> SUFFICES ASSUME BudgetInv, NEW e \in Envelopes, Cap[e] # Unbounded
             PROVE  Cardinality(RunningIn(e)) <= Cap[e]
  BY DEF CapRespected
<1>1. /\ running[e] \in Nat /\ Cap[e] \in Nat /\ running[e] <= Cap[e]
      /\ running[e] >= Cardinality(RunningIn(e)) + Cardinality(HoldersIn(e))
  BY BudgetAssumption DEF BudgetInv, TypeOK, DataOK, CountersWithinCap, CountersCoverRunning
<1> QED
  BY <1>1, CoverFinite

(* The jobs that are Running stay within every cap of the budget, for any  *)
(* number of ticks and operators on one scheduler.                         *)
THEOREM CapsHold == Spec => []CapRespected
BY BudgetInvariant, CapOfInv, PTL
-----------------------------------------------------------------------------
(* What a step of a tick does to the control state of all ticks. *)

Others(t) == \A u \in Tickers \ {t} :
               pc'[u] = pc[u] /\ job'[u] = job[u] /\ signal'[u] = signal[u]

LEMMA DecideOthers ==
  ASSUME TypeOK, NEW t \in Tickers, NEW s, NEW d, Decide(t, s, d)
  PROVE  Others(t) /\ pc'[t] = "dispatch" /\ signal'[t] = s /\ job'[t] = job[t]
BY DEF Decide, Others, TypeOK, ControlOK, DataOK

LEMMA NoProgressOthers ==
  ASSUME TypeOK, NEW t \in Tickers, NoProgress(t)
  PROVE  Others(t) /\ pc'[t] # "dispatch"
BY ControlMoves DEF NoProgress, Others, Frame, TypeOK

(* A tick enters "dispatch" only by deciding on a signal. *)
LEMMA TickControl ==
  ASSUME TypeOK, NEW t \in Tickers, TickStep(t)
  PROVE  Others(t) /\ (pc'[t] = "dispatch" => AdvanceOnce(t))
<1> USE DEF TypeOK
<1>1. CASE TickStart(t) \/ PhaseOf(t)
  <2>1. UNCHANGED signal
    BY <1>1 DEF TickStart, PhaseOf
  <2>2. Frame(t) /\ pc'[t] # "dispatch"
    BY <1>1, ControlMoves DEF TickStart, PhaseOf, Frame, ControlOK
  <2> QED
    BY <2>1, <2>2 DEF Others, Frame
<1>2. CASE Collect(t) \/ Joined(t) \/ Receipt(t)
  <2>1. UNCHANGED signal
    BY <1>2 DEF Collect, Joined, Receipt
  <2>2. CASE Collect(t) \/ Joined(t)
    <3>1. Frame(t) /\ pc'[t] # "dispatch"
      BY <2>2, ControlMoves DEF Collect, Joined, Frame, ControlOK
    <3> QED
      BY <2>1, <3>1 DEF Others, Frame
  <2>3. CASE Receipt(t)
    BY <2>1, <2>3 DEF Receipt, Others, ControlOK
  <2> QED
    BY <1>2, <2>2, <2>3
<1>3. CASE AdvanceOnce(t)
  <2>1. NoProgress(t) \/ \E s, d : Decide(t, s, d)
    BY <1>3 DEF AdvanceOnce, EvaluateGates, CheckBackoff, TryAllocate, DecideRetry
  <2> QED
    BY <1>3, <2>1, DecideOthers, NoProgressOthers
<1>4. CASE Dispatch(t)
  <2>1. \A u \in Tickers \ {t} : signal'[u] = signal[u]
    BY <1>4 DEF Dispatch, DataOK
  <2>2. Frame(t) /\ pc'[t] # "dispatch"
    BY <1>4, ControlMoves DEF Dispatch
  <2> QED
    BY <2>1, <2>2 DEF Others, Frame
<1>5. CASE ApplyResult(t)
  <2>1. UNCHANGED signal
    BY <1>5 DEF ApplyResult, ApplyOk, RecordFailure, ResetAttempts, ApplyErr, Release
  <2>2. ASSUME NEW j \in Jobs, ApplyOk(t, j) PROVE Frame(t) /\ pc'[t] # "dispatch"
    <3>1. AbortTick(t) => Frame(t) /\ pc'[t] # "dispatch"
      BY ControlMoves
    <3> QED
      BY <2>2, <3>1 DEF ApplyOk, Frame, ControlOK
  <2>3. ASSUME NEW j \in Jobs, RecordFailure(t, j) PROVE Frame(t) /\ pc'[t] # "dispatch"
    BY <2>3 DEF RecordFailure, Frame, ControlOK
  <2>4. ASSUME ApplyErr(t) PROVE Frame(t) /\ pc'[t] # "dispatch"
    <3>1. AbortTick(t) => Frame(t) /\ pc'[t] # "dispatch"
      BY ControlMoves
    <3> QED
      BY <2>4, <3>1 DEF ApplyErr, Frame, ControlOK
  <2>5. ASSUME ResetAttempts(t) PROVE Frame(t) /\ pc'[t] # "dispatch"
    BY <2>5 DEF ResetAttempts, Frame, ControlOK
  <2>6. ASSUME Release(t) PROVE Frame(t) /\ pc'[t] # "dispatch"
    <3>1. StartPass3(t) => Frame(t) /\ pc'[t] # "dispatch"
      BY ControlMoves
    <3> QED
      BY <2>6, <3>1 DEF Release, Frame, ControlOK
  <2>7. Frame(t) /\ pc'[t] # "dispatch"
    BY <1>5, <2>2, <2>3, <2>4, <2>5, <2>6 DEF ApplyResult
  <2> QED
    BY <2>1, <2>7 DEF Others, Frame
<1> QED
  BY <1>1, <1>2, <1>3, <1>4, <1>5 DEF TickStep

(* Everything but a tick's own step leaves its control state alone. *)
LEMMA TickFootprint ==
  ASSUME TypeOK, [Next]_vars
  PROVE  \/ \E t \in Tickers : TickStep(t)
         \/ UNCHANGED <<pc, job, signal>>
<1>1. ASSUME NEW t \in Tickers, TaskStep(t) PROVE UNCHANGED <<pc, job, signal>>
  BY <1>1 DEF TaskStep, Return, Panic
<1>2. ASSUME NEW o \in Operators, OperatorStep(o) PROVE UNCHANGED <<pc, job, signal>>
  BY <1>2 DEF OperatorStep, OperatorRead, OperatorWrite, OperatorEmit, tickVars
<1>3. ASSUME \E j \in Jobs : RegisterJob(j) PROVE UNCHANGED <<pc, job, signal>>
  BY <1>3 DEF RegisterJob, tickVars
<1>4. ASSUME \E x \in Gates, v \in GateOutcome : ChangeVerdict(x, v)
      PROVE  UNCHANGED <<pc, job, signal>>
  BY <1>4 DEF ChangeVerdict, tickVars
<1>5. ClockAdvances => UNCHANGED <<pc, job, signal>>
  BY DEF ClockAdvances, tickVars
<1>6. UNCHANGED vars => UNCHANGED <<pc, job, signal>>
  BY DEF vars, tickVars
<1> QED
  BY <1>1, <1>2, <1>3, <1>4, <1>5, <1>6 DEF Next

-----------------------------------------------------------------------------
(* What a step does to the phases. *)

Dispatched(t) ==
  /\ Dispatch(t)
  /\ Legal(job[t], signal[t])
  /\ phase' = [phase EXCEPT ![job[t]] = advance(phase[job[t]], signal[t])]

Ended(j) ==
  /\ phase[j] = "Running"
  /\ \E p \in {"Succeeded", "Failed"} : phase' = [phase EXCEPT ![j] = p]

Overwritten(o) ==
  /\ op[o].pc = "write"
  /\ op' = [op EXCEPT ![o].pc = "emit"]
  /\ phase' = [phase EXCEPT ![op[o].job] = op[o].to]

(* A phase changes only by a dispatched signal, when a result is applied   *)
(* to a Running job, or by the write of an operator.                       *)
LEMMA PhaseMoves ==
  ASSUME TypeOK, [Next]_vars
  PROVE  \/ UNCHANGED phase
         \/ /\ UNCHANGED op
            /\ (\E t \in Tickers : Dispatched(t)) \/ (\E j \in Jobs : Ended(j))
         \/ \E o \in Operators : Overwritten(o)
<1> USE DEF TypeOK
<1>1. ASSUME NEW t \in Tickers, TickStart(t) \/ PhaseOf(t) \/ AdvanceOnce(t)
      PROVE  UNCHANGED phase
  BY <1>1 DEF TickStart, PhaseOf, AdvanceOnce, EvaluateGates, CheckBackoff, TryAllocate,
              DecideRetry, stateVars
<1>2. ASSUME NEW t \in Tickers, Collect(t) \/ Joined(t) \/ Receipt(t)
      PROVE  UNCHANGED phase
  BY <1>2 DEF Collect, Joined, Receipt, stateVars
<1>3. ASSUME NEW t \in Tickers, Dispatch(t) PROVE UNCHANGED phase \/ Dispatched(t)
  BY <1>3 DEF Dispatch, Dispatched, Transition
<1>4. ASSUME NEW t \in Tickers, ApplyResult(t)
      PROVE  UNCHANGED phase \/ \E j \in Jobs : Ended(j)
  <2>1. ASSUME NEW j \in Jobs, ApplyOk(t, j) PROVE UNCHANGED phase \/ Ended(j)
    <3>1. CASE Legal(j, "ExecutionSucceeded") /\ Transition(j, "ExecutionSucceeded", 0)
      <4>1. phase[j] = "Running" /\ advance(phase[j], "ExecutionSucceeded") = "Succeeded"
        BY <3>1 DEF Legal, advance, DataOK, JobPhase, Regatable, IllegalTransition
      <4> QED
        BY <3>1, <4>1 DEF Transition, Ended
    <3> QED
      BY <2>1, <3>1 DEF ApplyOk
  <2>2. ASSUME ApplyErr(t) PROVE UNCHANGED phase \/ Ended(job[t])
    <3>1. CASE Legal(job[t], "ExecutionFailed") /\ Transition(job[t], "ExecutionFailed", 0)
      <4>1. phase[job[t]] = "Running" /\ advance(phase[job[t]], "ExecutionFailed") = "Failed"
        BY <3>1 DEF Legal, advance, ControlOK, DataOK, JobPhase, Regatable, IllegalTransition
      <4> QED
        BY <3>1, <4>1 DEF Transition, Ended
    <3> QED
      BY <2>2, <3>1 DEF ApplyErr
  <2>3. ASSUME ResetAttempts(t) \/ Release(t) \/ \E j \in Jobs : RecordFailure(t, j)
        PROVE  UNCHANGED phase
    BY <2>3 DEF ResetAttempts, Release, RecordFailure, stateVars
  <2> QED
    BY <1>4, <2>1, <2>2, <2>3 DEF ApplyResult, ControlOK
<1>5. ASSUME NEW t \in Tickers, TaskStep(t) PROVE UNCHANGED phase
  BY <1>5 DEF TaskStep, Return, Panic, stateVars
<1>6. ASSUME \E j \in Jobs : RegisterJob(j) PROVE UNCHANGED phase
  BY <1>6 DEF RegisterJob
<1>7. ASSUME \E x \in Gates, v \in GateOutcome : ChangeVerdict(x, v) PROVE UNCHANGED phase
  BY <1>7 DEF ChangeVerdict, stateVars
<1>8. ClockAdvances => UNCHANGED phase
  BY DEF ClockAdvances, stateVars
<1>9. UNCHANGED vars => UNCHANGED phase
  BY DEF vars, stateVars
<1>10. ASSUME NEW o \in Operators, OperatorStep(o) PROVE UNCHANGED phase \/ Overwritten(o)
  BY <1>10 DEF OperatorStep, OperatorRead, OperatorWrite, OperatorEmit, Overwritten, stateVars
<1>11. ASSUME NEW t \in Tickers, TickStep(t)
       PROVE  UNCHANGED phase \/ (UNCHANGED op /\ (Dispatched(t) \/ \E j \in Jobs : Ended(j)))
  BY <1>1, <1>2, <1>3, <1>4, <1>11, TickKeepsOp DEF TickStep
<1> QED
  BY <1>5, <1>6, <1>7, <1>8, <1>9, <1>10, <1>11 DEF Next

(* Without operators, only by the first two. *)
LEMMA PhaseFootprint ==
  ASSUME TypeOK, Operators = {}, [Next]_vars
  PROVE  \/ UNCHANGED phase
         \/ \E t \in Tickers : Dispatched(t)
         \/ \E j \in Jobs : Ended(j)
BY PhaseMoves

(* A tick's signals do not move a terminal phase. *)
LEMMA TerminalRefuses ==
  ASSUME NEW p, is_terminal(p), NEW s \in TickSignal \cup {NoSignal}
  PROVE  advance(p, s) = IllegalTransition
BY DEF is_terminal, advance, Regatable, TickSignal, GateAggregate, NoSignal, IllegalTransition

LEMMA TerminalStays ==
  ASSUME TypeOK, Operators = {}, [Next]_vars, NEW j \in Jobs, is_terminal(phase[j])
  PROVE  phase'[j] = phase[j]
<1>1. ASSUME NEW t \in Tickers, Dispatched(t) PROVE phase'[j] = phase[j]
  <2>1. job[t] # j
    BY <1>1, TerminalRefuses DEF Dispatched, Legal, TypeOK, DataOK
  <2> QED
    BY <1>1, <2>1 DEF Dispatched, TypeOK, DataOK
<1>2. ASSUME NEW k \in Jobs, Ended(k) PROVE phase'[j] = phase[j]
  BY <1>2 DEF Ended, is_terminal, TypeOK, DataOK
<1> QED
  BY <1>1, <1>2, PhaseFootprint

-----------------------------------------------------------------------------
(* The order of the Dag *)

(* The tick is about to make its job Ready. *)
Passing(t) == pc[t] = "dispatch" /\ signal[t] \in {"AllPassed", "Vacuous"}

(* DagOrder alone is not inductive: a verdict that was computed from a     *)
(* snapshot must still be right when it is dispatched.                     *)
OrderInv ==
  /\ TypeOK
  /\ DagOrder
  /\ \A t \in Tickers : Passing(t) => UpstreamsTerminal(job[t])

LEMMA UpstreamsStay ==
  ASSUME TypeOK, Operators = {}, [Next]_vars, NEW j \in Jobs, UpstreamsTerminal(j)
  PROVE  UpstreamsTerminal(j)'
<1>1. Preds[j] \subseteq Jobs
  BY SchedulerAssumption
<1> QED
  BY <1>1, TerminalStays DEF UpstreamsTerminal, is_terminal

(* The implicit gate lets a job pass only with terminal predecessors. *)
LEMMA GatesImplyUpstreams ==
  ASSUME NEW j \in Jobs, evaluate_gates(j) \in {"AllPassed", "Vacuous"}
  PROVE  UpstreamsTerminal(j)
<1>1. AllUpstreamsTerminal(Preds[j], phase) # "Wait"
  BY DEF evaluate_gates, reduce
<1> QED
  BY <1>1 DEF AllUpstreamsTerminal, UpstreamsTerminal

LEMMA PassingStep ==
  ASSUME OrderInv, Operators = {}, [Next]_vars, NEW t \in Tickers, Passing(t)'
  PROVE  UpstreamsTerminal(job[t])' /\ job'[t] = job[t] /\ job[t] \in Jobs
<1>1. TypeOK /\ job[t] \in Jobs
  BY DEF OrderInv, TypeOK, ControlOK
<1>2. CASE pc'[t] = pc[t] /\ job'[t] = job[t] /\ signal'[t] = signal[t]
  BY <1>1, <1>2, UpstreamsStay DEF OrderInv, Passing
<1>3. CASE TickStep(t)
  <2>1. AdvanceOnce(t)
    BY <1>1, <1>3, TickControl DEF Passing
  <2>2. EvaluateGates(t) /\ Decide(t, evaluate_gates(job[t]), 0)
    <3>1. ~NoProgress(t)
      BY <1>1, NoProgressOthers DEF Passing
    <3>2. ASSUME NEW s, NEW d, Decide(t, s, d) PROVE s \in {"AllPassed", "Vacuous"}
      BY <1>1, <3>2, DecideOthers DEF Passing
    <3>3. ~CheckBackoff(t)
      BY <3>1, <3>2 DEF CheckBackoff
    <3>4. ~TryAllocate(t)
      BY <3>1, <3>2 DEF TryAllocate
    <3>5. ~DecideRetry(t)
      BY <3>2 DEF DecideRetry
    <3> QED
      BY <2>1, <3>1, <3>3, <3>4, <3>5 DEF AdvanceOnce, EvaluateGates
  <2>3. evaluate_gates(job[t]) \in {"AllPassed", "Vacuous"} /\ job'[t] = job[t]
    BY <1>1, <2>2, DecideOthers DEF Passing
  <2> QED
    BY <1>1, <2>3, GatesImplyUpstreams, UpstreamsStay
<1> QED
  BY <1>1, <1>2, <1>3, TickFootprint, TickControl DEF Others

(* Only a passing gate verdict brings a job among the started ones. *)
LEMMA EntersStarted ==
  ASSUME NEW p \in JobPhase, NEW s \in TickSignal \cup {NoSignal},
         p \notin Started, advance(p, s) \in Started
  PROVE  s \in {"AllPassed", "Vacuous"}
BY DEF Started, advance, JobPhase, Regatable, TickSignal, GateAggregate, NoSignal,
       IllegalTransition

LEMMA DagOrderStep ==
  ASSUME OrderInv, Operators = {}, [Next]_vars
  PROVE  DagOrder'
<1> SUFFICES ASSUME NEW j \in Jobs, phase'[j] \in Started PROVE UpstreamsTerminal(j)'
  BY DEF DagOrder
<1>1. TypeOK
  BY DEF OrderInv
<1>2. CASE phase[j] \in Started
  BY <1>1, <1>2, UpstreamsStay DEF OrderInv, DagOrder
<1>3. CASE phase[j] \notin Started
  <2>1. ASSUME NEW t \in Tickers, Dispatched(t) PROVE UpstreamsTerminal(j)
    <3>1. job[t] = j /\ advance(phase[j], signal[t]) \in Started
      BY <1>1, <1>3, <2>1 DEF Dispatched, TypeOK, DataOK
    <3>2. signal[t] \in {"AllPassed", "Vacuous"}
      BY <1>1, <1>3, <3>1, EntersStarted DEF TypeOK, DataOK
    <3> QED
      BY <2>1, <3>1, <3>2 DEF OrderInv, Passing, Dispatched, Dispatch
  <2>2. ASSUME NEW k \in Jobs, Ended(k) PROVE FALSE
    BY <1>1, <1>3, <2>2 DEF Ended, Started, TypeOK, DataOK
  <2> QED
    BY <1>1, <1>3, <2>1, <2>2, PhaseFootprint, UpstreamsStay
<1> QED
  BY <1>2, <1>3

LEMMA OrderInit == Init => OrderInv
<1>1. Init => DagOrder
  BY DEF Init, DagOrder, Started
<1>2. Init => \A t \in Tickers : ~Passing(t)
  BY DEF Init, Passing
<1> QED
  BY <1>1, <1>2, InitType DEF OrderInv

LEMMA OrderStep ==
  ASSUME OrderInv, Operators = {}, [Next]_vars
  PROVE  OrderInv'
<1>1. TypeOK'
  BY NextType DEF OrderInv
<1>2. ASSUME NEW t \in Tickers, Passing(t)' PROVE UpstreamsTerminal(job[t])'
  BY <1>2, PassingStep
<1> QED
  BY <1>1, <1>2, DagOrderStep DEF OrderInv

LEMMA OrderInvariant == ASSUME Operators = {} PROVE Spec => []OrderInv
<1>1. OrderInv /\ [Next]_vars => OrderInv'
  BY OrderStep
<1> QED
  BY <1>1, OrderInit, PTL DEF Spec

(* A job that got past its gates has only terminal predecessors, however   *)
(* many ticks dispatch verdicts from stale snapshots.                      *)
THEOREM DagOrderHolds == ASSUME Operators = {} PROVE Spec => []DagOrder
<1>1. OrderInv => DagOrder
  BY DEF OrderInv
<1> QED
  BY <1>1, OrderInvariant, PTL

-----------------------------------------------------------------------------
(* The refinement of WorkGraph *)

StatusOf(p) == CASE p = "Running" -> "running"
                 [] is_terminal(p) -> "done"
                 [] OTHER -> "waiting"

LEMMA StatusAt == ASSUME NEW j \in Jobs PROVE Status[j] = StatusOf(phase[j])
BY DEF Status, StatusOf

(* A step of one phase is a step of one status. *)
LEMMA StatusMoves ==
  ASSUME TypeOK, NEW j \in Jobs, NEW q, phase' = [phase EXCEPT ![j] = q]
  PROVE  Status' = [Status EXCEPT ![j] = StatusOf(q)]
<1>1. phase \in [Jobs -> JobPhase]
  BY DEF TypeOK, DataOK
<1>2. \A k \in Jobs : phase'[k] = IF k = j THEN q ELSE phase[k]
  BY <1>1
<1>3. Status' = [k \in Jobs |-> StatusOf(phase'[k])]
  BY DEF Status, StatusOf
<1>4. Status = [k \in Jobs |-> StatusOf(phase[k])]
  BY DEF Status, StatusOf
<1>5. Status' = [k \in Jobs |-> IF k = j THEN StatusOf(q) ELSE StatusOf(phase[k])]
  BY <1>2, <1>3
<1> QED
  BY <1>4, <1>5

(* The instance's copy of FiniteSets is FiniteSets. *)
LEMMA SameCardinality == ASSUME NEW S PROVE WG!Cardinality(S) = Cardinality(S)
BY DEF WG!Cardinality, Cardinality, WG!IsFiniteSet, IsFiniteSet

LEMMA BusyIsRunning == ASSUME NEW e PROVE WG!Busy(e) = RunningIn(e)
BY DEF WG!Busy, RunningIn, Status, is_terminal

(* A slot in a tick's hands leaves room for one more Running job. *)
LEMMA SlotLeavesRoom ==
  ASSUME BudgetInv, NEW e \in Envelopes, Cap[e] # Unbounded, HoldersIn(e) # {}
  PROVE  Cardinality(RunningIn(e)) < Cap[e]
<1>1. /\ running[e] \in Nat /\ Cap[e] \in Nat /\ running[e] <= Cap[e]
      /\ running[e] >= Cardinality(RunningIn(e)) + Cardinality(HoldersIn(e))
  BY BudgetAssumption DEF BudgetInv, TypeOK, DataOK, CountersWithinCap, CountersCoverRunning
<1>2. Cardinality(HoldersIn(e)) # 0
  BY CoverFinite, FS_EmptySet DEF BudgetInv
<1> QED
  BY <1>1, <1>2, CoverFinite DEF BudgetInv

LEMMA StartStep ==
  ASSUME BudgetInv, OrderInv, NEW t \in Tickers, Dispatched(t), signal[t] = "AllocateBudget"
  PROVE  WG!Start(job[t])
<1> DEFINE j == job[t]
<1>1. TypeOK /\ j \in Jobs /\ phase[j] \in JobPhase
  BY DEF OrderInv, TypeOK, ControlOK, DataOK
<1>2. phase[j] = "Ready" /\ advance(phase[j], signal[t]) = "Running"
  BY <1>1 DEF Dispatched, Legal, advance, JobPhase, Regatable, IllegalTransition
<1>3. Status[j] = "waiting" /\ Status' = [Status EXCEPT ![j] = "running"]
  <2>1. StatusOf("Ready") = "waiting" /\ StatusOf("Running") = "running"
    BY DEF StatusOf, is_terminal
  <2>2. Status[j] = "waiting"
    BY <1>1, <1>2, <2>1, StatusAt
  <2>3. phase' = [phase EXCEPT ![j] = "Running"]
    BY <1>2 DEF Dispatched
  <2> HIDE DEF j
  <2>4. Status' = [Status EXCEPT ![j] = StatusOf("Running")]
    BY <1>1, <2>3, StatusMoves
  <2> QED
    BY <2>1, <2>2, <2>4
<1>4. ASSUME NEW p \in Preds[j] PROVE Status[p] = "done"
  <2>1. p \in Jobs
    BY <1>1, SchedulerAssumption
  <2>2. is_terminal(phase[p])
    BY <1>1, <1>2 DEF OrderInv, DagOrder, Started, UpstreamsTerminal
  <2> QED
    BY <2>1, <2>2 DEF Status, is_terminal
<1>5. ASSUME NEW e \in EnvelopesOf[j], Cap[e] # Unbounded
      PROVE  Cardinality(WG!Busy(e)) < Cap[e]
  <2>1. e \in Envelopes
    BY <1>1, BudgetAssumption
  <2>2. t \in HoldersIn(e)
    BY DEF HoldersIn, HoldsSlot, Dispatched, Dispatch
  <2> QED
    BY <1>5, <2>1, <2>2, BusyIsRunning, SlotLeavesRoom
<1>6. \A e \in EnvelopesOf[j] : Cap[e] # Unbounded => Cardinality(WG!Busy(e)) < Cap[e]
  BY <1>5
<1>7. \A p \in Preds[j] : Status[p] = "done"
  BY <1>4
<1> HIDE DEF j
<1>8. WG!Start(j)
  BY <1>3, <1>6, <1>7, SameCardinality DEF WG!Start
<1> QED
  BY <1>8 DEF j

(* Any other signal gives a job back, finishes or abandons it, or is       *)
(* invisible.                                                              *)
LEMMA OtherSignals ==
  ASSUME NEW p \in JobPhase, NEW s \in TickSignal \cup {NoSignal}, s # "AllocateBudget",
         advance(p, s) # IllegalTransition
  PROVE  \/ StatusOf(advance(p, s)) = StatusOf(p)
         \/ StatusOf(p) = "running" /\ StatusOf(advance(p, s)) \in {"done", "waiting"}
         \/ StatusOf(p) = "waiting" /\ StatusOf(advance(p, s)) = "done"
<1> DEFINE q == advance(p, s)
<1>1. CASE p = "Running"
  <2>1. q \in {"Succeeded", "Failed"}
    BY <1>1 DEF advance, Regatable, IllegalTransition
  <2> HIDE DEF q
  <2> QED
    BY <1>1, <2>1 DEF StatusOf, is_terminal
<1>2. CASE p # "Running" /\ is_terminal(p)
  BY <1>2, TerminalRefuses
<1>3. CASE p # "Running" /\ ~is_terminal(p)
  <2>1. q \in JobPhase /\ q # "Running"
    BY <1>3, AdvanceType, AdvanceRunning
  <2>2. StatusOf(p) = "waiting"
    BY <1>3 DEF StatusOf
  <2> HIDE DEF q
  <2>3. StatusOf(q) \in {"waiting", "done"}
    BY <2>1 DEF StatusOf
  <2> QED
    BY <2>2, <2>3 DEF q
<1> QED
  BY <1>1, <1>2, <1>3

LEMMA StepRefines ==
  ASSUME BudgetInv, OrderInv, Operators = {}, [Next]_vars
  PROVE  WG!Next \/ UNCHANGED Status
<1>1. TypeOK /\ \A t \in Tickers : job[t] \in Jobs
  BY DEF OrderInv, TypeOK, ControlOK
<1>2. CASE UNCHANGED phase
  BY <1>2 DEF Status
<1>3. ASSUME NEW t \in Tickers, Dispatched(t) PROVE WG!Next \/ UNCHANGED Status
  <2>1. CASE signal[t] = "AllocateBudget"
    BY <1>1, <1>3, <2>1, StartStep DEF WG!Next
  <2>2. CASE signal[t] # "AllocateBudget"
    <3> DEFINE j == job[t]
               q == advance(phase[j], signal[t])
    <3>1. Status[j] = StatusOf(phase[j]) /\ Status' = [Status EXCEPT ![j] = StatusOf(q)]
      BY <1>1, <1>3, StatusAt, StatusMoves DEF Dispatched
    <3>2. \/ StatusOf(q) = StatusOf(phase[j])
          \/ StatusOf(phase[j]) = "running" /\ StatusOf(q) \in {"done", "waiting"}
          \/ StatusOf(phase[j]) = "waiting" /\ StatusOf(q) = "done"
      BY <1>1, <1>3, <2>2, OtherSignals DEF Dispatched, Legal, TypeOK, DataOK
    <3>3. CASE StatusOf(q) = StatusOf(phase[j])
      <4>1. Status' = Status
        BY <1>1, <3>1, <3>3 DEF Status
      <4> QED
        BY <4>1
    <3>4. CASE StatusOf(phase[j]) = "running" /\ StatusOf(q) \in {"done", "waiting"}
      <4>1. WG!Finish(j) \/ WG!GiveBack(j)
        BY <3>1, <3>4 DEF WG!Finish, WG!GiveBack
      <4> QED
        BY <1>1, <4>1 DEF WG!Next
    <3>5. CASE StatusOf(phase[j]) = "waiting" /\ StatusOf(q) = "done"
      <4>1. WG!Abandon(j)
        BY <3>1, <3>5 DEF WG!Abandon
      <4> QED
        BY <1>1, <4>1 DEF WG!Next
    <3> QED
      BY <3>2, <3>3, <3>4, <3>5
  <2> QED
    BY <2>1, <2>2
<1>4. ASSUME NEW j \in Jobs, Ended(j) PROVE WG!Next
  <2>1. PICK q \in {"Succeeded", "Failed"} : phase' = [phase EXCEPT ![j] = q]
    BY <1>4 DEF Ended
  <2>2. Status[j] = "running" /\ Status' = [Status EXCEPT ![j] = StatusOf(q)]
    <3>1. Status[j] = "running"
      BY <1>4, StatusAt DEF Ended, StatusOf, is_terminal
    <3> QED
      BY <1>1, <2>1, <3>1, StatusMoves
  <2>3. StatusOf(q) \in {"done", "waiting"}
    BY <2>1 DEF StatusOf, is_terminal
  <2>4. WG!Finish(j) \/ WG!GiveBack(j)
    BY <2>2, <2>3 DEF WG!Finish, WG!GiveBack
  <2> QED
    BY <2>4 DEF WG!Next
<1> QED
  BY <1>1, <1>2, <1>3, <1>4, PhaseFootprint

(* The scheduler implements WorkGraph: through any number of ticks on one  *)
(* scheduler a job starts only after its predecessors and within every     *)
(* cap, and a done job stays done.                                         *)
THEOREM Refinement == ASSUME Operators = {} PROVE Spec => ImplementsWorkGraph
<1>1. Init => WG!Init
  BY DEF Init, WG!Init, Status, is_terminal
<1>2. BudgetInv /\ OrderInv /\ [Next]_vars => [WG!Next]_Status
  BY StepRefines
<1>3. Spec => [](BudgetInv /\ OrderInv)
  BY BudgetInvariant, OrderInvariant, PTL
<1> QED
  BY <1>1, <1>2, <1>3, PTL DEF Spec, ImplementsWorkGraph, WG!Spec

-----------------------------------------------------------------------------
(* One operator at a time, and any number of ticks *)

OneOperator == \A a, b \in Operators : a = b

(* An operator writes to a job that still waits for one: no tick moves a   *)
(* Deadlettered job, and no signal leads to WaitingForOperator.  With two  *)
(* operators the second may write to a job that the first has re-opened.   *)
OperatorFresh ==
  /\ \A j \in Jobs : phase[j] # "WaitingForOperator"
  /\ \A o \in Operators : op[o].pc = "write" => phase[op[o].job] = "Deadlettered" /\ op[o].to = "Pending"

LEMMA NeverForOperator ==
  ASSUME NEW p \in JobPhase, NEW s
  PROVE  advance(p, s) # "WaitingForOperator"
BY DEF advance, JobPhase, Regatable, IllegalTransition

(* What an operator may ask for while no job is WaitingForOperator. *)
LEMMA OperatorReopens ==
  ASSUME TypeOK, OperatorFresh, NEW o \in Operators, NEW j \in Jobs, NEW s \in OperatorSignal,
         OperatorRead(o, j, s)
  PROVE  phase[j] = "Deadlettered" /\ advance(phase[j], s) = "Pending"
<1>1. phase[j] \in JobPhase /\ phase[j] # "WaitingForOperator" /\ Legal(j, s)
  BY DEF OperatorRead, OperatorFresh, TypeOK, DataOK
<1> QED
  BY <1>1 DEF Legal, advance, OperatorSignal, JobPhase, Regatable, IllegalTransition

LEMMA OperatorFreshStep ==
  ASSUME TypeOK, OneOperator, OperatorFresh, [Next]_vars
  PROVE  OperatorFresh'
<1>1. CASE UNCHANGED op
  <2>1. CASE UNCHANGED phase
    BY <1>1, <2>1 DEF OperatorFresh
  <2>2. ASSUME NEW t \in Tickers, Dispatched(t) PROVE OperatorFresh'
    <3>1. /\ job[t] \in Jobs /\ phase[job[t]] \in JobPhase
          /\ signal[t] \in TickSignal \cup {NoSignal}
      BY DEF TypeOK, ControlOK, DataOK
    <3>2. advance(phase[job[t]], signal[t]) # "WaitingForOperator"
      BY <3>1, NeverForOperator
    <3>3. phase[job[t]] # "Deadlettered"
      BY <2>2, <3>1, TerminalRefuses DEF Dispatched, Legal, is_terminal
    <3> QED
      BY <1>1, <2>2, <3>1, <3>2, <3>3 DEF Dispatched, OperatorFresh, TypeOK, DataOK, OperatorCall
  <2>3. ASSUME NEW k \in Jobs, Ended(k) PROVE OperatorFresh'
    BY <1>1, <2>3 DEF Ended, OperatorFresh, TypeOK, DataOK, OperatorCall
  <2>4. ASSUME NEW o \in Operators, Overwritten(o) PROVE FALSE
    BY <1>1, <2>4 DEF Overwritten, TypeOK, DataOK, OperatorCall
  <2> QED
    BY <2>1, <2>2, <2>3, <2>4, PhaseMoves
<1>2. ASSUME NEW o \in Operators, OperatorStep(o) PROVE OperatorFresh'
  <2>1. ASSUME NEW j \in Jobs, NEW s \in OperatorSignal, OperatorRead(o, j, s)
        PROVE  OperatorFresh'
    <3>1. phase[j] = "Deadlettered" /\ advance(phase[j], s) = "Pending"
      BY <2>1, OperatorReopens
    <3> QED
      BY <2>1, <3>1 DEF OperatorRead, stateVars, OperatorFresh, TypeOK, DataOK
  <2>2. CASE OperatorWrite(o)
    <3>1. \A q \in Operators : op'[q].pc # "write"
      BY <2>2 DEF OperatorWrite, OneOperator, TypeOK, DataOK
    <3>2. \A k \in Jobs : phase'[k] # "WaitingForOperator"
      BY <2>2 DEF OperatorWrite, OperatorFresh, TypeOK, DataOK
    <3> QED
      BY <3>1, <3>2 DEF OperatorFresh
  <2>3. CASE OperatorEmit(o)
    BY <2>3 DEF OperatorEmit, stateVars, OperatorFresh, TypeOK, DataOK
  <2> QED
    BY <1>2, <2>1, <2>2, <2>3 DEF OperatorStep
<1> QED
  BY <1>1, <1>2, OnlyOperatorsChangeOp

OperatorInv == TypeOK /\ OperatorFresh

LEMMA OperatorInvariant == ASSUME OneOperator PROVE Spec => []OperatorInv
<1>1. Init => OperatorInv
  BY InitType DEF Init, OperatorInv, OperatorFresh
<1>2. OperatorInv /\ [Next]_vars => OperatorInv'
  BY NextType, OperatorFreshStep DEF OperatorInv
<1> QED
  BY <1>1, <1>2, PTL DEF Spec

(* A job that moves, moves as advance() says, and not out of success or a  *)
(* skip.                                                                   *)
LEMMA MovesByAdvance ==
  ASSUME OperatorInv, [Next]_vars, NEW j \in Jobs, phase'[j] # phase[j]
  PROVE  /\ \E s \in Signal : phase'[j] = advance(phase[j], s)
         /\ phase[j] \notin {"Succeeded", "Skipped", "WaitingForOperator"}
<1>0. phase \in [Jobs -> JobPhase]
  BY DEF OperatorInv, TypeOK, DataOK
<1>1. ASSUME NEW t \in Tickers, Dispatched(t)
      PROVE  /\ \E s \in Signal : phase'[j] = advance(phase[j], s)
             /\ phase[j] \notin {"Succeeded", "Skipped"}
  <2>1. job[t] = j /\ Legal(j, signal[t]) /\ phase'[j] = advance(phase[j], signal[t])
    BY <1>0, <1>1 DEF Dispatched
  <2>2. signal[t] \in TickSignal \cup {NoSignal}
    BY DEF OperatorInv, TypeOK, DataOK
  <2>3. signal[t] # NoSignal
    BY <1>0, <2>1 DEF Legal, advance, JobPhase, Regatable, NoSignal, IllegalTransition
  <2>4. ~is_terminal(phase[j])
    BY <2>1, <2>2, TerminalRefuses DEF Legal
  <2> QED
    BY <2>1, <2>2, <2>3, <2>4 DEF Signal, is_terminal
<1>2. ASSUME NEW k \in Jobs, Ended(k)
      PROVE  /\ \E s \in Signal : phase'[j] = advance(phase[j], s)
             /\ phase[j] \notin {"Succeeded", "Skipped"}
  <2>1. phase[j] = "Running" /\ phase'[j] \in {"Succeeded", "Failed"}
    BY <1>0, <1>2 DEF Ended
  <2>2. /\ advance("Running", "ExecutionSucceeded") = "Succeeded"
        /\ advance("Running", "ExecutionFailed") = "Failed"
    BY DEF advance, Regatable
  <2>3. "ExecutionSucceeded" \in Signal /\ "ExecutionFailed" \in Signal
    BY DEF Signal, TickSignal
  <2> QED
    BY <2>1, <2>2, <2>3
<1>3. ASSUME NEW o \in Operators, Overwritten(o)
      PROVE  /\ \E s \in Signal : phase'[j] = advance(phase[j], s)
             /\ phase[j] \notin {"Succeeded", "Skipped"}
  <2>1. phase[j] = "Deadlettered" /\ phase'[j] = "Pending"
    BY <1>0, <1>3 DEF Overwritten, OperatorInv, OperatorFresh
  <2>2. advance("Deadlettered", "OperatorPending") = "Pending"
    BY DEF advance, Regatable
  <2>3. "OperatorPending" \in Signal
    BY DEF Signal, OperatorSignal
  <2> QED
    BY <2>1, <2>2, <2>3
<1>4. phase[j] # "WaitingForOperator"
  BY DEF OperatorInv, OperatorFresh
<1> QED
  BY <1>1, <1>2, <1>3, <1>4, PhaseMoves DEF OperatorInv

(* dispatch() and operator_transition() together: "every phase change goes *)
(* through advance", also those that operator_transition() writes under a  *)
(* later lock than the one it advanced under, as long as no two operators  *)
(* overlap.                                                                *)
THEOREM PhasesAdvance == ASSUME OneOperator PROVE Spec => PhaseChangesAdvance
<1>1. OperatorInv /\ [Next]_vars =>
        [\A j \in Jobs : phase'[j] # phase[j] =>
           \E s \in Signal : phase'[j] = advance(phase[j], s)]_vars
  BY MovesByAdvance
<1> QED
  BY <1>1, OperatorInvariant, PTL DEF Spec, PhaseChangesAdvance

(* What the counts of a snapshot tell about the jobs it knows. *)
LEMMA CountOf ==
  ASSUME TypeOK, NEW p \in JobPhase
  PROVE  /\ phase_counts(snapshot_inner)[p] \in Nat
         /\ phase_counts(snapshot_inner)[p] = 0 <=> \A j \in Known : phase[j] # p
<1> DEFINE S == {j \in Known : phase[j] = p}
<1>1. phase_counts(snapshot_inner)[p] = Cardinality(S)
  <2>1. {j \in DOMAIN snapshot_inner : snapshot_inner[j] = p} = S
    BY DEF snapshot_inner
  <2> QED
    BY <2>1 DEF phase_counts
<1>2. S \in SUBSET Jobs
  BY DEF Known, TypeOK, DataOK
<1>3. IsFiniteSet(S)
  BY <1>2, SchedulerAssumption, FS_Subset
<1>4. Cardinality(S) \in Nat /\ (Cardinality(S) = 0 <=> S = {})
  BY <1>3, FS_CardinalityType, FS_EmptySet
<1>5. S = {} <=> \A j \in Known : phase[j] # p
  OBVIOUS
<1> HIDE DEF S
<1> QED
  BY <1>1, <1>4, <1>5

(* An idle summary: what the phases of the known jobs are not. *)
LEMMA IdleMeans ==
  ASSUME TypeOK, is_idle(summary(snapshot_inner)), NEW j \in Known
  PROVE  phase[j] \notin {"Running", "Pending", "Gated", "Ready"}
<1> DEFINE n(p) == phase_counts(snapshot_inner)[p]
<1>1. n("Running") = 0 /\ n("Pending") + n("Gated") + n("Ready") = 0
  BY DEF is_idle, summary
<1>2. n("Pending") \in Nat /\ n("Gated") \in Nat /\ n("Ready") \in Nat
  BY CountOf DEF JobPhase
<1> HIDE DEF n
<1>3. n("Running") = 0 /\ n("Pending") = 0 /\ n("Gated") = 0 /\ n("Ready") = 0
  BY <1>1, <1>2
<1>4. ASSUME NEW p \in {"Running", "Pending", "Gated", "Ready"} PROVE phase[j] # p
  <2>1. p \in JobPhase /\ phase_counts(snapshot_inner)[p] = 0
    BY <1>3 DEF JobPhase, n
  <2> QED
    BY <2>1, CountOf
<1> QED
  BY <1>4

(* Whoever reads a summary that is_idle(), while any number of ticks are   *)
(* under way and at most one operator moves jobs, knows every job that may *)
(* still move: it is in failure_set, and needs_attention has counted it.   *)
THEOREM IdleStaysQuiet == ASSUME OneOperator PROVE Spec => IdleIsQuiet
<1> DEFINE s == summary(snapshot_inner)
           Quiet == is_idle(s) => \A j \in Known : phase'[j] # phase[j] =>
                      j \in failure_set(snapshot_inner) /\ needs_attention(s) > 0
<1>1. ASSUME OperatorInv, [Next]_vars PROVE Quiet
  <2> SUFFICES ASSUME is_idle(s), NEW j \in Known, phase'[j] # phase[j]
               PROVE  j \in failure_set(snapshot_inner) /\ needs_attention(s) > 0
    OBVIOUS
  <2>1. TypeOK /\ j \in Jobs /\ phase[j] \in JobPhase
    BY <1>1 DEF OperatorInv, Known, TypeOK, DataOK
  <2>2. phase[j] \notin {"Running", "Pending", "Gated", "Ready"}
    BY <2>1, IdleMeans
  <2>3. phase[j] \in {"Failed", "Retrying", "Deadlettered"}
    BY <1>1, <2>1, <2>2, MovesByAdvance DEF JobPhase
  <2>4. j \in failure_set(snapshot_inner)
    BY <2>3 DEF failure_set, snapshot_inner
  <2> DEFINE n(p) == phase_counts(snapshot_inner)[p]
  <2>5. \A p \in JobPhase : n(p) \in Nat
    BY <2>1, CountOf
  <2>6. n("Failed") # 0 \/ n("Retrying") # 0 \/ n("Deadlettered") # 0
    BY <2>1, <2>3, CountOf
  <2>7. needs_attention(s) = n("Failed") + n("Retrying") + n("Deadlettered") + n("WaitingForOperator")
    BY DEF needs_attention, summary
  <2>8. {"Failed", "Retrying", "Deadlettered", "WaitingForOperator"} \subseteq JobPhase
    BY DEF JobPhase
  <2> HIDE DEF n
  <2> QED
    BY <2>4, <2>5, <2>6, <2>7, <2>8
<1>2. OperatorInv /\ [Next]_vars => [Quiet]_vars
  BY <1>1
<1> QED
  BY <1>2, OperatorInvariant, PTL DEF Spec, IdleIsQuiet
=============================================================================
