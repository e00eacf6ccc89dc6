----------------------------- MODULE SoloProofs -----------------------------
(***************************************************************************)
(* What holds for a scheduler that is ticked by one caller and moved by at *)
(* most one operator at a time: no signal is refused, the retry account    *)
(* fits the phases, no backoff is cut short, no slot is lost and, without  *)
(* a panic, nothing is executed twice.  The failure history fits its       *)
(* counter for any number of either.                                       *)
(***************************************************************************)
EXTENDS SchedulerProofs

Solo(t) == Tickers = {t} /\ OneOperator

-----------------------------------------------------------------------------
(* What the tick remembers is what it finds. *)

(* The tick decides on the phase it has read, as long as it is the only    *)
(* one: nobody moves a job that is neither Running nor Deadlettered.       *)
ViewFresh(t) ==
  pc[t] = "advance" =>
    /\ ~Stops(phase[job[t]])
    /\ view[t] = [phase |-> phase[job[t]], until |-> until[job[t]]]

(* The signals advance_once decides on for a phase. *)
Fits(j, s) ==
  \/ s \in GateAggregate /\ phase[j] \in {"Pending", "Gated"}
  \/ s = "AllocateBudget" /\ phase[j] = "Ready"
  \/ s = "BackoffElapsed" /\ phase[j] = "Retrying" /\ now >= until[j]
  \/ /\ s = "RetryDecideRetry" /\ phase[j] = "Failed"
     /\ ~Deadletters(Policy[j], attempts[j], "Transient")
  \/ /\ s = "RetryDecideDeadletter" /\ phase[j] = "Failed"
     /\ Deadletters(Policy[j], attempts[j], "Transient")

SignalFresh(t) == pc[t] = "dispatch" => Fits(job[t], signal[t])

(* What the tick still has to apply are results of Running jobs, one each. *)
ResultsFresh(t) ==
  /\ tasks[t] # {} => pc[t] = "join"
  /\ results[t] # {} => pc[t] \in {"join", "apply", "failed", "reset", "release"}
  /\ \A j \in tasks[t] : phase[j] = "Running" /\ \A r \in {"Ok", "Err"} : <<j, r>> \notin results[t]
  /\ \A j \in Jobs, r \in {"Ok", "Err"} : <<j, r>> \in results[t] => phase[j] = "Running"
  /\ \A j \in Jobs : ~(<<j, "Ok">> \in results[t] /\ <<j, "Err">> \in results[t])
  /\ pc[t] = "failed" =>
       /\ phase[job[t]] = "Running" /\ attempts[job[t]] > 0
       /\ \A r \in {"Ok", "Err"} : <<job[t], r>> \notin results[t]
  /\ pc[t] = "reset" => phase[job[t]] = "Succeeded"

(* RetryAccount, but for the reset after a success, which a restart may    *)
(* find half done.                                                         *)
AccountFits ==
  \A j \in Jobs :
    /\ phase[j] \in {"Retrying", "Failed", "Deadlettered"} => attempts[j] > 0
    /\ phase[j] = "Retrying" => ~Deadletters(Policy[j], attempts[j], "Transient")
    /\ phase[j] = "Deadlettered" => Deadletters(Policy[j], attempts[j], "Transient")

SoloInv(t) ==
  /\ TypeOK
  /\ ViewFresh(t) /\ SignalFresh(t) /\ ResultsFresh(t) /\ OperatorFresh /\ AccountFits
  /\ outcome[t] # "Err"

Calm == {"phase_of", "collect", "receipt", "idle"}
Outcomes == {"Ok", "Err"}

-----------------------------------------------------------------------------
(* The steps of the tick. *)

(* A step after which the tick has nothing left to dispatch or apply. *)
LEMMA CalmStep ==
  ASSUME NEW t \in Tickers, SoloInv(t), TypeOK', UNCHANGED <<phase, attempts, op>>,
         pc'[t] \in Calm, tasks'[t] = {}, results'[t] = {}, outcome'[t] # "Err"
  PROVE  SoloInv(t)'
<1>1. ViewFresh(t)' /\ SignalFresh(t)' /\ ResultsFresh(t)'
  BY DEF Calm, ViewFresh, SignalFresh, ResultsFresh
<1>2. OperatorFresh' /\ AccountFits'
  BY DEF SoloInv, OperatorFresh, AccountFits
<1> QED
  BY <1>1, <1>2 DEF SoloInv

(* Where the cursor goes is calm. *)
LEMMA CalmMoves ==
  ASSUME NEW t \in Tickers, SoloInv(t),
         (\E c : Visit(t, c)) \/ LeaveJob(t) \/ StartPass3(t) \/ Progressed(t)
  PROVE  pc'[t] \in Calm
BY ControlMoves DEF SoloInv, TypeOK, Calm

(* Before and after the results there are none. *)
LEMMA NoResults ==
  ASSUME NEW t \in Tickers, SoloInv(t),
         pc[t] \in {"idle", "phase_of", "advance", "dispatch", "collect", "receipt"}
  PROVE  tasks[t] = {} /\ results[t] = {}
BY DEF SoloInv, ResultsFresh

LEMMA SoloStart ==
  ASSUME NEW t \in Tickers, SoloInv(t), TypeOK', TickStart(t) \/ Receipt(t)
  PROVE  SoloInv(t)'
<1>1. CASE TickStart(t)
  <2>1. pc'[t] \in Calm /\ outcome'[t] = "None"
    BY <1>1, CalmMoves DEF TickStart, SoloInv, TypeOK, DataOK
  <2>2. pc[t] = "idle" /\ tasks[t] = {} /\ results[t] = {}
    BY <1>1, NoResults DEF TickStart
  <2> QED
    BY <1>1, <2>1, <2>2, CalmStep DEF TickStart, stateVars
<1>2. CASE Receipt(t)
  <2>1. pc'[t] \in Calm /\ outcome'[t] = "Ok"
    BY <1>2 DEF Receipt, SoloInv, TypeOK, ControlOK, DataOK, Calm
  <2>2. pc[t] = "receipt" /\ tasks[t] = {} /\ results[t] = {}
    BY <1>2, NoResults DEF Receipt
  <2> QED
    BY <1>2, <2>1, <2>2, CalmStep DEF Receipt, stateVars
<1> QED
  BY <1>1, <1>2

LEMMA SoloPhaseOf ==
  ASSUME NEW t \in Tickers, SoloInv(t), TypeOK', PhaseOf(t)
  PROVE  SoloInv(t)'
<1>1. /\ pc[t] = "phase_of" /\ tasks[t] = {} /\ results[t] = {}
      /\ UNCHANGED <<phase, until, attempts, op, tasks, results, outcome>>
  BY NoResults DEF PhaseOf, stateVars
<1>2. CASE LeaveJob(t)
  BY <1>1, <1>2, CalmMoves, CalmStep DEF SoloInv
<1>3. CASE /\ ~Stops(phase[job[t]])
           /\ view' = [view EXCEPT ![t] = [phase |-> phase[job[t]], until |-> until[job[t]]]]
           /\ pc' = [pc EXCEPT ![t] = "advance"]
           /\ UNCHANGED <<cursor, job>>
  <2>1. pc'[t] = "advance" /\ job'[t] = job[t]
    BY <1>3 DEF SoloInv, TypeOK, ControlOK
  <2>2. ViewFresh(t)'
    BY <1>1, <1>3, <2>1 DEF ViewFresh, SoloInv, TypeOK, DataOK
  <2>3. SignalFresh(t)' /\ ResultsFresh(t)'
    BY <1>1, <2>1 DEF SignalFresh, ResultsFresh
  <2>4. OperatorFresh' /\ AccountFits'
    BY <1>1 DEF SoloInv, OperatorFresh, AccountFits
  <2> QED
    BY <1>1, <2>2, <2>3, <2>4 DEF SoloInv
<1> QED
  BY <1>2, <1>3 DEF PhaseOf

(* A decision that fits the phase is carried to the dispatch. *)
LEMMA SoloDecide ==
  ASSUME NEW t \in Tickers, SoloInv(t), TypeOK', pc[t] = "advance",
         UNCHANGED <<phase, until, attempts, now, op, tasks, results, outcome>>,
         NEW s, NEW d, Decide(t, s, d), Fits(job[t], s)
  PROVE  SoloInv(t)'
<1>1. pc'[t] = "dispatch" /\ job'[t] = job[t] /\ signal'[t] = s
  BY DEF Decide, SoloInv, TypeOK, ControlOK, DataOK
<1>2. tasks[t] = {} /\ results[t] = {}
  BY NoResults
<1>3. ViewFresh(t)' /\ ResultsFresh(t)'
  BY <1>1, <1>2 DEF ViewFresh, ResultsFresh
<1>4. SignalFresh(t)'
  BY <1>1 DEF SignalFresh, Fits
<1>5. OperatorFresh' /\ AccountFits'
  BY DEF SoloInv, OperatorFresh, AccountFits
<1> QED
  BY <1>3, <1>4, <1>5 DEF SoloInv

LEMMA SoloNoProgress ==
  ASSUME NEW t \in Tickers, SoloInv(t), TypeOK', pc[t] = "advance", NoProgress(t),
         UNCHANGED <<phase, attempts, op, tasks, results, outcome>>
  PROVE  SoloInv(t)'
<1>1. pc'[t] \in Calm
  BY CalmMoves DEF NoProgress
<1> QED
  BY <1>1, NoResults, CalmStep DEF SoloInv

LEMMA SoloAdvance ==
  ASSUME NEW t \in Tickers, SoloInv(t), TypeOK', AdvanceOnce(t)
  PROVE  SoloInv(t)'
<1>1. /\ pc[t] = "advance" /\ view[t].phase = phase[job[t]] /\ view[t].until = until[job[t]]
      /\ UNCHANGED <<phase, until, attempts, now, op, tasks, results, outcome>>
  <2>1. /\ pc[t] = "advance"
        /\ UNCHANGED <<phase, until, attempts, now, op, tasks, results, outcome>>
    BY DEF AdvanceOnce, EvaluateGates, CheckBackoff, TryAllocate, DecideRetry, stateVars
  <2>2. view[t] = [phase |-> phase[job[t]], until |-> until[job[t]]]
    BY <2>1 DEF SoloInv, ViewFresh
  <2> QED
    BY <2>1, <2>2
<1>2. job[t] \in Jobs /\ now \in Nat /\ until[job[t]] \in Int /\ attempts[job[t]] \in Nat
  BY DEF SoloInv, TypeOK, ControlOK, DataOK
<1>3. CASE EvaluateGates(t)
  <2>1. evaluate_gates(job[t]) \in GateAggregate
    BY ReduceType DEF evaluate_gates
  <2>2. Fits(job[t], evaluate_gates(job[t]))
    BY <1>1, <1>3, <2>1 DEF EvaluateGates, Fits
  <2> QED
    BY <1>1, <1>3, <2>2, SoloDecide, SoloNoProgress DEF EvaluateGates
<1>4. CASE CheckBackoff(t)
  <2>1. now >= view[t].until => Fits(job[t], "BackoffElapsed")
    BY <1>1, <1>4 DEF CheckBackoff, Fits
  <2>2. NoProgress(t) \/ (now >= view[t].until /\ Decide(t, "BackoffElapsed", 0))
    BY <1>1, <1>2, <1>4 DEF CheckBackoff
  <2> QED
    BY <1>1, <2>1, <2>2, SoloDecide, SoloNoProgress
<1>5. CASE TryAllocate(t)
  <2>1. Fits(job[t], "AllocateBudget")
    BY <1>1, <1>5 DEF TryAllocate, Fits
  <2> QED
    BY <1>1, <1>5, <2>1, SoloDecide, SoloNoProgress DEF TryAllocate
<1>6. CASE DecideRetry(t)
  <2>1. phase[job[t]] = "Failed" /\ attempts[job[t]] > 0
    BY <1>1, <1>2, <1>6 DEF DecideRetry, SoloInv, AccountFits
  <2>2. \/ /\ Deadletters(Policy[job[t]], attempts[job[t]], "Transient")
           /\ Decide(t, "RetryDecideDeadletter", 0)
        \/ /\ ~Deadletters(Policy[job[t]], attempts[job[t]], "Transient")
           /\ \E d : Decide(t, "RetryDecideRetry", d)
    BY <1>2, <1>6, <2>1 DEF DecideRetry
  <2> QED
    BY <1>1, <2>1, <2>2, SoloDecide DEF Fits
<1> QED
  BY <1>3, <1>4, <1>5, <1>6 DEF AdvanceOnce

(* What advance() answers to a signal that fits, and what it leaves true.  *)
LEMMA FittingSignal ==
  ASSUME NEW j \in Jobs, NEW s, Fits(j, s)
  PROVE  /\ Legal(j, s)
         /\ phase[j] \notin {"Running", "Succeeded", "Skipped", "Deadlettered"}
         /\ advance(phase[j], s) \in
               {"Ready", "Gated", "Skipped", "Running", "Pending", "Retrying", "Deadlettered"}
         /\ advance(phase[j], s) = "Retrying" =>
               phase[j] = "Failed" /\ ~Deadletters(Policy[j], attempts[j], "Transient")
         /\ advance(phase[j], s) = "Deadlettered" =>
               phase[j] = "Failed" /\ Deadletters(Policy[j], attempts[j], "Transient")
         /\ phase[j] = "Retrying" => s = "BackoffElapsed" /\ now >= until[j]
<1>1. CASE s \in GateAggregate /\ phase[j] \in {"Pending", "Gated"}
  BY <1>1 DEF Legal, advance, Regatable, GateAggregate, IllegalTransition
<1>2. CASE s = "AllocateBudget" /\ phase[j] = "Ready"
  BY <1>2 DEF Legal, advance, Regatable, IllegalTransition
<1>3. CASE s = "BackoffElapsed" /\ phase[j] = "Retrying" /\ now >= until[j]
  BY <1>3 DEF Legal, advance, Regatable, IllegalTransition
<1>4. CASE /\ s = "RetryDecideRetry" /\ phase[j] = "Failed"
           /\ ~Deadletters(Policy[j], attempts[j], "Transient")
  BY <1>4 DEF Legal, advance, Regatable, IllegalTransition
<1>5. CASE /\ s = "RetryDecideDeadletter" /\ phase[j] = "Failed"
           /\ Deadletters(Policy[j], attempts[j], "Transient")
  BY <1>5 DEF Legal, advance, Regatable, IllegalTransition
<1> QED
  BY <1>1, <1>2, <1>3, <1>4, <1>5 DEF Fits

LEMMA SoloDispatch ==
  ASSUME NEW t \in Tickers, SoloInv(t), TypeOK', Dispatch(t)
  PROVE  SoloInv(t)'
<1> DEFINE j == job[t]
<1>1. j \in Jobs /\ Fits(j, signal[t])
  BY DEF Dispatch, SoloInv, SignalFresh, TypeOK, ControlOK
<1>2. /\ Legal(j, signal[t]) /\ Progressed(t)
      /\ phase' = [phase EXCEPT ![j] = advance(phase[j], signal[t])]
      /\ UNCHANGED <<attempts, op, tasks, results, outcome>>
  BY <1>1, FittingSignal DEF Dispatch, Transition
<1>3. pc'[t] \in Calm /\ tasks[t] = {} /\ results[t] = {} /\ pc[t] = "dispatch"
  BY <1>2, CalmMoves, NoResults DEF Dispatch
<1>4. ViewFresh(t)' /\ SignalFresh(t)' /\ ResultsFresh(t)'
  BY <1>2, <1>3 DEF Calm, ViewFresh, SignalFresh, ResultsFresh
<1> HIDE DEF j
<1>5. /\ phase'[j] = advance(phase[j], signal[t])
      /\ \A k \in Jobs \ {j} : phase'[k] = phase[k]
  BY <1>1, <1>2 DEF SoloInv, TypeOK, DataOK
<1>6. OperatorFresh'
  <2>1. \A k \in Jobs : phase'[k] # "WaitingForOperator"
    BY <1>1, <1>5, FittingSignal DEF SoloInv, OperatorFresh
  <2>2. ASSUME NEW o \in Operators, op[o].pc = "write"
        PROVE  phase'[op[o].job] = "Deadlettered" /\ op[o].to = "Pending"
    <3>1. phase[op[o].job] = "Deadlettered" /\ op[o].to = "Pending" /\ op[o].job \in Jobs
      BY <2>2 DEF SoloInv, OperatorFresh, TypeOK, DataOK, OperatorCall
    <3> QED
      BY <1>1, <1>5, <3>1, FittingSignal
  <2> QED
    BY <1>2, <2>1, <2>2 DEF OperatorFresh
<1>7. AccountFits'
  <2>1. ASSUME NEW k \in Jobs \ {j}
        PROVE  /\ phase'[k] \in {"Retrying", "Failed", "Deadlettered"} => attempts[k] > 0
               /\ phase'[k] = "Retrying" => ~Deadletters(Policy[k], attempts[k], "Transient")
               /\ phase'[k] = "Deadlettered" => Deadletters(Policy[k], attempts[k], "Transient")
    BY <1>5 DEF SoloInv, AccountFits
  <2>2. /\ phase'[j] \in {"Retrying", "Failed", "Deadlettered"} => attempts[j] > 0
        /\ phase'[j] = "Retrying" => ~Deadletters(Policy[j], attempts[j], "Transient")
        /\ phase'[j] = "Deadlettered" => Deadletters(Policy[j], attempts[j], "Transient")
    <3>1. phase[j] = "Failed" => attempts[j] > 0
      BY <1>1 DEF SoloInv, AccountFits
    <3> QED
      BY <1>1, <1>5, <3>1, FittingSignal
  <2> QED
    BY <1>2, <2>1, <2>2 DEF AccountFits
<1> QED
  BY <1>2, <1>4, <1>6, <1>7 DEF SoloInv

LEMMA SoloCollect ==
  ASSUME NEW t \in Tickers, SoloInv(t), TypeOK', Collect(t)
  PROVE  SoloInv(t)'
<1> DEFINE ids == {j \in JobsOfWave(cursor[t].wave) : phase[j] = "Running"}
<1>1. /\ pc[t] = "collect" /\ UNCHANGED <<phase, attempts, op, outcome>>
      /\ tasks'[t] = ids \cap registered /\ results'[t] = (ids \ registered) \X Outcomes \cap (ids \X {"Err"})
  BY DEF Collect, stateVars, SoloInv, TypeOK, DataOK, Outcomes
<1>2. CASE ids = {} /\ StartPass3(t)
  BY <1>1, <1>2, CalmMoves, CalmStep DEF SoloInv
<1>3. CASE pc' = [pc EXCEPT ![t] = "join"]
  <2>1. pc'[t] = "join"
    BY <1>3 DEF SoloInv, TypeOK, ControlOK
  <2>2. ViewFresh(t)' /\ SignalFresh(t)'
    BY <2>1 DEF ViewFresh, SignalFresh
  <2>3. ResultsFresh(t)'
    BY <1>1, <2>1 DEF ResultsFresh, Outcomes
  <2>4. OperatorFresh' /\ AccountFits'
    BY <1>1 DEF SoloInv, OperatorFresh, AccountFits
  <2> QED
    BY <1>1, <2>2, <2>3, <2>4 DEF SoloInv
<1> QED
  BY <1>2, <1>3 DEF Collect

(* Going on with the results that are left. *)
LEMMA SoloGoesOn ==
  ASSUME NEW t \in Tickers, SoloInv(t), TypeOK', UNCHANGED <<phase, attempts, op, tasks, results, outcome>>,
         pc[t] \in {"join", "release"}, tasks[t] = {},
         IF results[t] = {} THEN StartPass3(t)
         ELSE pc' = [pc EXCEPT ![t] = "apply"] /\ UNCHANGED <<cursor, job>>
  PROVE  SoloInv(t)'
<1>1. CASE results[t] = {} /\ StartPass3(t)
  BY <1>1, CalmMoves, CalmStep DEF SoloInv
<1>2. CASE pc' = [pc EXCEPT ![t] = "apply"]
  <2>1. pc'[t] = "apply"
    BY <1>2 DEF SoloInv, TypeOK, ControlOK
  <2>2. ViewFresh(t)' /\ SignalFresh(t)'
    BY <2>1 DEF ViewFresh, SignalFresh
  <2>3. ResultsFresh(t)'
    BY <2>1 DEF SoloInv, ResultsFresh
  <2>4. OperatorFresh' /\ AccountFits'
    BY DEF SoloInv, OperatorFresh, AccountFits
  <2> QED
    BY <2>2, <2>3, <2>4 DEF SoloInv
<1> QED
  BY <1>1, <1>2

LEMMA SoloJoined ==
  ASSUME NEW t \in Tickers, SoloInv(t), TypeOK', Joined(t) \/ Release(t)
  PROVE  SoloInv(t)'
<1>1. CASE Joined(t)
  BY <1>1, SoloGoesOn DEF Joined, stateVars
<1>2. CASE Release(t)
  <2>1. pc[t] = "release" /\ tasks[t] = {}
    BY <1>2 DEF Release, SoloInv, ResultsFresh
  <2> QED
    BY <1>2, <2>1, SoloGoesOn DEF Release, stateVars
<1> QED
  BY <1>1, <1>2

(* The phase of a job whose execution has ended moves; the others' stays.  *)
LEMMA SoloEnded ==
  ASSUME NEW t \in Tickers, SoloInv(t), NEW j \in Jobs, phase[j] = "Running", UNCHANGED op,
         phase'[j] \in {"Succeeded", "Failed"}, \A k \in Jobs \ {j} : phase'[k] = phase[k]
  PROVE  OperatorFresh'
<1>1. \A k \in Jobs : phase'[k] # "WaitingForOperator"
  BY DEF SoloInv, OperatorFresh
<1>2. ASSUME NEW o \in Operators, op[o].pc = "write"
      PROVE  phase'[op[o].job] = "Deadlettered" /\ op[o].to = "Pending"
  <2>1. phase[op[o].job] = "Deadlettered" /\ op[o].to = "Pending" /\ op[o].job \in Jobs
    BY <1>2 DEF SoloInv, OperatorFresh, TypeOK, DataOK, OperatorCall
  <2> QED
    BY <2>1
<1> QED
  BY <1>1, <1>2 DEF OperatorFresh

LEMMA SoloApplyOk ==
  ASSUME NEW t \in Tickers, SoloInv(t), TypeOK', NEW j \in Jobs, ApplyOk(t, j)
  PROVE  SoloInv(t)'
<1>1. pc[t] = "apply" /\ <<j, "Ok">> \in results[t] /\ phase[j] = "Running" /\ tasks[t] = {}
  BY DEF ApplyOk, SoloInv, ResultsFresh
<1>2. Legal(j, "ExecutionSucceeded") /\ advance(phase[j], "ExecutionSucceeded") = "Succeeded"
  BY <1>1, AdvanceFromRunning DEF Legal, IllegalTransition
<1>3. /\ phase' = [phase EXCEPT ![j] = "Succeeded"]
      /\ pc' = [pc EXCEPT ![t] = "reset"] /\ job' = [job EXCEPT ![t] = j]
      /\ results' = [results EXCEPT ![t] = @ \ {<<j, "Ok">>}]
      /\ UNCHANGED <<attempts, op, tasks, outcome>>
  BY <1>2 DEF ApplyOk, Transition
<1>4. /\ phase'[j] = "Succeeded" /\ \A k \in Jobs \ {j} : phase'[k] = phase[k]
      /\ pc'[t] = "reset" /\ job'[t] = j /\ results'[t] = results[t] \ {<<j, "Ok">>}
  BY <1>3 DEF SoloInv, TypeOK, ControlOK, DataOK
<1>5. ViewFresh(t)' /\ SignalFresh(t)'
  BY <1>4 DEF ViewFresh, SignalFresh
<1>6. ResultsFresh(t)'
  <2>1. \A k \in Jobs, r \in {"Ok", "Err"} : <<k, r>> \in results'[t] => k # j
    BY <1>1, <1>4 DEF SoloInv, ResultsFresh
  <2>2. \A k \in Jobs, r \in {"Ok", "Err"} : <<k, r>> \in results'[t] => phase'[k] = "Running"
    BY <1>4, <2>1 DEF SoloInv, ResultsFresh
  <2> QED
    BY <1>1, <1>3, <1>4, <2>2 DEF SoloInv, ResultsFresh
<1>7. OperatorFresh'
  BY <1>1, <1>3, <1>4, SoloEnded
<1>8. AccountFits'
  BY <1>1, <1>3, <1>4 DEF SoloInv, AccountFits
<1> QED
  BY <1>3, <1>5, <1>6, <1>7, <1>8 DEF SoloInv

LEMMA SoloRecord ==
  ASSUME NEW t \in Tickers, SoloInv(t), TypeOK', NEW j \in Jobs, RecordFailure(t, j)
  PROVE  SoloInv(t)'
<1>1. pc[t] = "apply" /\ <<j, "Err">> \in results[t] /\ phase[j] = "Running" /\ tasks[t] = {}
  BY DEF RecordFailure, SoloInv, ResultsFresh
<1>2. /\ attempts'[j] > 0 /\ \A k \in Jobs \ {j} : attempts'[k] = attempts[k]
      /\ pc'[t] = "failed" /\ job'[t] = j /\ results'[t] = results[t] \ {<<j, "Err">>}
      /\ UNCHANGED <<phase, op, tasks, outcome>>
  BY DEF RecordFailure, SoloInv, TypeOK, ControlOK, DataOK
<1>3. ViewFresh(t)' /\ SignalFresh(t)'
  BY <1>2 DEF ViewFresh, SignalFresh
<1>4. ResultsFresh(t)'
  <2>1. \A r \in {"Ok", "Err"} : <<j, r>> \notin results'[t]
    BY <1>1, <1>2 DEF SoloInv, ResultsFresh
  <2> QED
    BY <1>1, <1>2, <2>1 DEF SoloInv, ResultsFresh
<1>5. OperatorFresh'
  BY <1>2 DEF SoloInv, OperatorFresh
<1>6. AccountFits'
  BY <1>1, <1>2 DEF SoloInv, AccountFits
<1> QED
  BY <1>2, <1>3, <1>4, <1>5, <1>6 DEF SoloInv

LEMMA SoloApplyErr ==
  ASSUME NEW t \in Tickers, SoloInv(t), TypeOK', ApplyErr(t)
  PROVE  SoloInv(t)'
<1> DEFINE j == job[t]
<1>1. /\ pc[t] = "failed" /\ j \in Jobs /\ phase[j] = "Running" /\ attempts[j] > 0 /\ tasks[t] = {}
      /\ \A r \in {"Ok", "Err"} : <<j, r>> \notin results[t]
  BY DEF ApplyErr, SoloInv, ResultsFresh, TypeOK, ControlOK
<1>2. Legal(j, "ExecutionFailed") /\ advance(phase[j], "ExecutionFailed") = "Failed"
  BY <1>1, AdvanceFromRunning DEF Legal, IllegalTransition
<1>3. /\ phase' = [phase EXCEPT ![j] = "Failed"]
      /\ pc' = [pc EXCEPT ![t] = "release"]
      /\ UNCHANGED <<job, results, attempts, op, tasks, outcome>>
  BY <1>2 DEF ApplyErr, Transition
<1> HIDE DEF j
<1>4. /\ phase'[j] = "Failed" /\ \A k \in Jobs \ {j} : phase'[k] = phase[k]
      /\ pc'[t] = "release"
  BY <1>1, <1>3 DEF SoloInv, TypeOK, ControlOK, DataOK
<1>5. ViewFresh(t)' /\ SignalFresh(t)'
  BY <1>4 DEF ViewFresh, SignalFresh
<1>6. ResultsFresh(t)'
  <2>1. \A k \in Jobs, r \in {"Ok", "Err"} : <<k, r>> \in results[t] => phase'[k] = "Running"
    BY <1>1, <1>4 DEF SoloInv, ResultsFresh
  <2> QED
    BY <1>1, <1>3, <1>4, <2>1 DEF SoloInv, ResultsFresh
<1>7. OperatorFresh'
  BY <1>1, <1>3, <1>4, SoloEnded
<1>8. AccountFits'
  BY <1>1, <1>3, <1>4 DEF SoloInv, AccountFits
<1> QED
  BY <1>3, <1>5, <1>6, <1>7, <1>8 DEF SoloInv

LEMMA SoloReset ==
  ASSUME NEW t \in Tickers, SoloInv(t), TypeOK', ResetAttempts(t)
  PROVE  SoloInv(t)'
<1>1. /\ pc[t] = "reset" /\ phase[job[t]] = "Succeeded" /\ job[t] \in Jobs /\ tasks[t] = {}
      /\ attempts'[job[t]] = 0 /\ \A k \in Jobs \ {job[t]} : attempts'[k] = attempts[k]
      /\ pc'[t] = "release" /\ UNCHANGED <<phase, job, op, tasks, results, outcome>>
  BY DEF ResetAttempts, SoloInv, ResultsFresh, TypeOK, ControlOK, DataOK
<1>2. ViewFresh(t)' /\ SignalFresh(t)'
  BY <1>1 DEF ViewFresh, SignalFresh
<1>3. ResultsFresh(t)'
  BY <1>1 DEF SoloInv, ResultsFresh
<1>4. OperatorFresh'
  BY <1>1 DEF SoloInv, OperatorFresh
<1>5. AccountFits'
  BY <1>1 DEF SoloInv, AccountFits
<1> QED
  BY <1>1, <1>2, <1>3, <1>4, <1>5 DEF SoloInv

-----------------------------------------------------------------------------
(* The steps of its tasks, of the operator and of the environment. *)

LEMMA SoloTask ==
  ASSUME NEW t \in Tickers, SoloInv(t), TypeOK', TaskStep(t)
  PROVE  SoloInv(t)'
<1>1. PICK j \in Jobs : Return(t, j, "Ok") \/ Return(t, j, "Err") \/ Panic(t, j)
  BY DEF TaskStep
<1>2. /\ j \in tasks[t] /\ tasks'[t] = tasks[t] \ {j}
      /\ UNCHANGED <<phase, until, attempts, now, pc, job, view, signal, outcome, op>>
      /\ \/ results'[t] = results[t]
         \/ \E r \in {"Ok", "Err"} : results'[t] = results[t] \cup {<<j, r>>}
  BY <1>1 DEF Return, Panic, stateVars, SoloInv, TypeOK, DataOK
<1>3. pc[t] = "join" /\ phase[j] = "Running" /\ \A r \in {"Ok", "Err"} : <<j, r>> \notin results[t]
  BY <1>2 DEF SoloInv, ResultsFresh
<1>4. ViewFresh(t)' /\ SignalFresh(t)'
  BY <1>2, <1>3 DEF ViewFresh, SignalFresh
<1>5. ResultsFresh(t)'
  BY <1>2, <1>3 DEF SoloInv, ResultsFresh
<1>6. OperatorFresh' /\ AccountFits'
  BY <1>2 DEF SoloInv, OperatorFresh, AccountFits
<1> QED
  BY <1>2, <1>4, <1>5, <1>6 DEF SoloInv

LEMMA SoloOperator ==
  ASSUME NEW t \in Tickers, Solo(t), SoloInv(t), TypeOK', NEW o \in Operators, OperatorStep(o)
  PROVE  SoloInv(t)'
<1>0. OperatorFresh'
  BY OperatorFreshStep DEF SoloInv, Solo, Next
<1>1. CASE \E j \in Jobs, s \in OperatorSignal : OperatorRead(o, j, s)
  <2>1. PICK j \in Jobs, s \in OperatorSignal : OperatorRead(o, j, s)
    BY <1>1
  <2>2. UNCHANGED <<phase, until, attempts, now, pc, job, view, signal, tasks, results, outcome>>
    BY <2>1 DEF OperatorRead, stateVars, tickVars
  <2>3. ViewFresh(t)' /\ SignalFresh(t)' /\ ResultsFresh(t)' /\ AccountFits'
    BY <2>2 DEF SoloInv, ViewFresh, SignalFresh, Fits, ResultsFresh, AccountFits
  <2> QED
    BY <1>0, <2>2, <2>3 DEF SoloInv
<1>2. CASE OperatorWrite(o)
  <2> DEFINE j == op[o].job
  <2>1. /\ j \in Jobs /\ phase[j] = "Deadlettered"
        /\ phase' = [phase EXCEPT ![j] = "Pending"] /\ until' = [until EXCEPT ![j] = 0]
        /\ UNCHANGED <<attempts, now, pc, job, view, signal, tasks, results, outcome>>
    BY <1>2 DEF OperatorWrite, tickVars, SoloInv, OperatorFresh, TypeOK, DataOK, OperatorCall
  <2> HIDE DEF j
  <2>2. /\ phase'[j] = "Pending"
        /\ \A k \in Jobs \ {j} : phase'[k] = phase[k] /\ until'[k] = until[k]
    BY <2>1 DEF SoloInv, TypeOK, DataOK
  <2>3. job[t] \in Jobs
    BY DEF SoloInv, TypeOK, ControlOK
  <2>4. ViewFresh(t)'
    BY <2>1, <2>2, <2>3 DEF SoloInv, ViewFresh, Stops, is_terminal
  <2>5. SignalFresh(t)'
    <3>1. pc[t] = "dispatch" => Fits(job[t], signal[t]) /\ job[t] # j
      BY <2>1, <2>3, FittingSignal DEF SoloInv, SignalFresh
    <3> QED
      BY <2>1, <2>2, <2>3, <3>1 DEF SignalFresh, Fits
  <2>6. ResultsFresh(t)'
    <3>1. tasks[t] \subseteq Jobs
      BY DEF SoloInv, TypeOK, DataOK
    <3> QED
      BY <2>1, <2>2, <2>3, <3>1 DEF SoloInv, ResultsFresh
  <2>7. AccountFits'
    BY <2>1, <2>2 DEF SoloInv, AccountFits
  <2> QED
    BY <1>0, <2>1, <2>4, <2>5, <2>6, <2>7 DEF SoloInv
<1>3. CASE OperatorEmit(o)
  <2>1. UNCHANGED <<phase, until, attempts, now, pc, job, view, signal, tasks, results, outcome>>
    BY <1>3 DEF OperatorEmit, stateVars, tickVars
  <2>2. ViewFresh(t)' /\ SignalFresh(t)' /\ ResultsFresh(t)' /\ AccountFits'
    BY <2>1 DEF SoloInv, ViewFresh, SignalFresh, Fits, ResultsFresh, AccountFits
  <2> QED
    BY <1>0, <2>1, <2>2 DEF SoloInv
<1> QED
  BY <1>1, <1>2, <1>3 DEF OperatorStep

LEMMA SoloEnvironment ==
  ASSUME NEW t \in Tickers, SoloInv(t), TypeOK',
         \/ \E j \in Jobs : RegisterJob(j)
         \/ \E x \in Gates, v \in GateOutcome : ChangeVerdict(x, v)
         \/ ClockAdvances \/ UNCHANGED vars
  PROVE  SoloInv(t)'
<1>1. /\ UNCHANGED <<phase, until, attempts, pc, job, view, signal, tasks, results, outcome, op>>
      /\ now' = now \/ now' = now + 1
  BY DEF RegisterJob, ChangeVerdict, ClockAdvances, vars, stateVars, tickVars
<1>2. ViewFresh(t)' /\ ResultsFresh(t)' /\ OperatorFresh' /\ AccountFits'
  BY <1>1 DEF SoloInv, ViewFresh, ResultsFresh, OperatorFresh, AccountFits
<1>3. SignalFresh(t)'
  <2>1. now \in Nat /\ job[t] \in Jobs /\ until[job[t]] \in Int
    BY DEF SoloInv, TypeOK, ControlOK, DataOK
  <2> QED
    BY <1>1, <2>1 DEF SoloInv, SignalFresh, Fits
<1> QED
  BY <1>1, <1>2, <1>3 DEF SoloInv

LEMMA SoloInit == ASSUME NEW t \in Tickers, Init PROVE SoloInv(t)
<1>1. TypeOK
  BY InitType
<1>2. ViewFresh(t) /\ SignalFresh(t) /\ ResultsFresh(t) /\ OperatorFresh /\ AccountFits
  BY DEF Init, ViewFresh, SignalFresh, ResultsFresh, OperatorFresh, AccountFits
<1> QED
  BY <1>1, <1>2 DEF Init, SoloInv

LEMMA SoloStep ==
  ASSUME NEW t, Solo(t), SoloInv(t), [Next]_vars
  PROVE  SoloInv(t)'
<1>1. t \in Tickers /\ TypeOK'
  BY NextType DEF Solo, SoloInv
<1>2. CASE TickStep(t)
  <2>1. CASE ApplyResult(t)
    BY <1>1, <2>1, SoloApplyOk, SoloRecord, SoloReset, SoloApplyErr, SoloJoined DEF ApplyResult
  <2> QED
    BY <1>1, <1>2, <2>1, SoloStart, SoloPhaseOf, SoloAdvance, SoloDispatch, SoloCollect, SoloJoined
       DEF TickStep
<1>3. CASE TaskStep(t)
  BY <1>1, <1>3, SoloTask
<1>4. CASE \E o \in Operators : OperatorStep(o)
  BY <1>1, <1>4, SoloOperator
<1>5. CASE \/ \E j \in Jobs : RegisterJob(j)
           \/ \E x \in Gates, v \in GateOutcome : ChangeVerdict(x, v)
           \/ ClockAdvances \/ UNCHANGED vars
  BY <1>1, <1>5, SoloEnvironment
<1> QED
  BY <1>2, <1>3, <1>4, <1>5 DEF Next, Solo

LEMMA SoloInvariant == ASSUME NEW t, Solo(t) PROVE Spec => []SoloInv(t)
<1>1. Init => SoloInv(t)
  BY SoloInit DEF Solo
<1>2. SoloInv(t) /\ [Next]_vars => SoloInv(t)'
  BY SoloStep
<1> QED
  BY <1>1, <1>2, PTL DEF Spec

-----------------------------------------------------------------------------
(* With one tick at a time, a decision still fits the phase when it is     *)
(* dispatched: tick() never returns Err.                                   *)
THEOREM TicksDoNotFail == ASSUME NEW t, Solo(t) PROVE Spec => []TickNeverFails
<1>1. SoloInv(t) => TickNeverFails
  BY DEF Solo, SoloInv, TickNeverFails
<1> QED
  BY <1>1, SoloInvariant, PTL

(* A success clears the account before the tick goes on. *)
SuccessClears(t) ==
  \A j \in Jobs : phase[j] = "Succeeded" => attempts[j] = 0 \/ (pc[t] = "reset" /\ job[t] = j)

(* Only ApplyOk makes a job Succeeded, and failures are counted only of    *)
(* Running jobs.                                                           *)
LEMMA SuccessStep ==
  ASSUME NEW t, Solo(t), SoloInv(t), SuccessClears(t), [Next]_vars
  PROVE  SuccessClears(t)'
<1>1. t \in Tickers
  BY DEF Solo
<1>2. ASSUME UNCHANGED attempts, pc[t] # "reset",
             \A j \in Jobs : phase'[j] = "Succeeded" => phase[j] = "Succeeded"
      PROVE  SuccessClears(t)'
  BY <1>2 DEF SuccessClears
<1>3. CASE Dispatch(t)
  <2>1. job[t] \in Jobs /\ Fits(job[t], signal[t])
    BY <1>1, <1>3 DEF Dispatch, SoloInv, SignalFresh, TypeOK, ControlOK
  <2>2. /\ phase' = [phase EXCEPT ![job[t]] = advance(phase[job[t]], signal[t])]
        /\ advance(phase[job[t]], signal[t]) # "Succeeded" /\ pc[t] # "reset" /\ UNCHANGED attempts
    BY <1>3, <2>1, FittingSignal DEF Dispatch, Transition
  <2> QED
    BY <1>2, <2>1, <2>2 DEF SoloInv, TypeOK, DataOK
<1>4. ASSUME NEW j \in Jobs, ApplyOk(t, j) PROVE SuccessClears(t)'
  <2>1. pc[t] = "apply" /\ phase[j] = "Running"
    BY <1>1, <1>4 DEF ApplyOk, SoloInv, ResultsFresh
  <2>2. /\ pc'[t] = "reset" /\ job'[t] = j /\ UNCHANGED attempts
        /\ \A k \in Jobs \ {j} : phase'[k] = phase[k]
    BY <1>1, <1>4, <2>1, AdvanceFromRunning
       DEF ApplyOk, Transition, Legal, IllegalTransition, SoloInv, TypeOK, ControlOK, DataOK
  <2> QED
    BY <2>1, <2>2 DEF SuccessClears
<1>5. ASSUME NEW j \in Jobs, RecordFailure(t, j) PROVE SuccessClears(t)'
  <2>1. pc[t] = "apply" /\ phase[j] = "Running" /\ phase' = phase
        /\ \A k \in Jobs \ {j} : attempts'[k] = attempts[k]
    BY <1>1, <1>5 DEF RecordFailure, SoloInv, ResultsFresh, TypeOK, DataOK
  <2> QED
    BY <2>1 DEF SuccessClears
<1>6. CASE ResetAttempts(t)
  <2>1. /\ attempts'[job[t]] = 0 /\ \A k \in Jobs \ {job[t]} : attempts'[k] = attempts[k]
        /\ phase' = phase
    BY <1>1, <1>6 DEF ResetAttempts, SoloInv, TypeOK, ControlOK, DataOK
  <2> QED
    BY <2>1 DEF SuccessClears
<1>7. CASE ApplyErr(t)
  <2>1. pc[t] = "failed" /\ job[t] \in Jobs /\ phase[job[t]] = "Running"
    BY <1>1, <1>7 DEF ApplyErr, SoloInv, ResultsFresh, TypeOK, ControlOK
  <2>2. phase' = [phase EXCEPT ![job[t]] = "Failed"] /\ UNCHANGED attempts
    BY <1>7, <2>1, AdvanceFromRunning DEF ApplyErr, Transition, Legal, IllegalTransition
  <2> QED
    BY <1>2, <2>1, <2>2 DEF SoloInv, TypeOK, DataOK
<1>8. ASSUME NEW o \in Operators, OperatorWrite(o) PROVE SuccessClears(t)'
  <2>1. phase' = [phase EXCEPT ![op[o].job] = "Pending"] /\ UNCHANGED <<attempts, pc, job>>
    BY <1>8 DEF OperatorWrite, tickVars, SoloInv, OperatorFresh
  <2> QED
    BY <2>1 DEF SuccessClears, SoloInv, TypeOK, DataOK
<1>9. CASE UNCHANGED <<phase, attempts, pc, job>>
  BY <1>9 DEF SuccessClears
<1>10. CASE TickStep(t)
  <2>1. CASE TickStart(t) \/ PhaseOf(t) \/ AdvanceOnce(t) \/ Collect(t) \/ Joined(t) \/ Receipt(t)
             \/ Release(t)
    <3>1. UNCHANGED <<phase, attempts>> /\ pc[t] # "reset"
      BY <2>1 DEF TickStart, PhaseOf, AdvanceOnce, EvaluateGates, CheckBackoff, TryAllocate,
                  DecideRetry, Collect, Joined, Receipt, Release, stateVars
    <3> QED
      BY <1>2, <3>1
  <2> QED
    BY <1>3, <1>4, <1>5, <1>6, <1>7, <1>10, <2>1 DEF TickStep, ApplyResult
<1>11. CASE TaskStep(t)
  BY <1>9, <1>11 DEF TaskStep, Return, Panic, stateVars
<1>12. CASE \E o \in Operators : OperatorStep(o)
  BY <1>8, <1>9, <1>12 DEF OperatorStep, OperatorRead, OperatorEmit, stateVars, tickVars
<1>13. CASE \/ \E k \in Jobs : RegisterJob(k)
            \/ \E x \in Gates, v \in GateOutcome : ChangeVerdict(x, v)
            \/ ClockAdvances \/ UNCHANGED vars
  BY <1>9, <1>13 DEF RegisterJob, ChangeVerdict, ClockAdvances, vars, stateVars, tickVars
<1> QED
  BY <1>10, <1>11, <1>12, <1>13 DEF Next, Solo

(* With one tick at a time, the attempts map fits the phases throughout    *)
(* the Retrying -> Pending cycle, whatever the policies and the operator.  *)
THEOREM AccountKept == ASSUME NEW t, Solo(t) PROVE Spec => []RetryAccount
<1>1. Init => SuccessClears(t)
  BY DEF Init, SuccessClears
<1>2. SoloInv(t) /\ SuccessClears(t) /\ [Next]_vars => SuccessClears(t)'
  BY SuccessStep
<1>3. SoloInv(t) /\ SuccessClears(t) => RetryAccount
  BY DEF Solo, SoloInv, AccountFits, SuccessClears, RetryAccount
<1> QED
  BY <1>1, <1>2, <1>3, SoloInvariant, PTL DEF Spec

(* Which steps take a job out of Retrying: only a dispatch does. *)
LEMMA BackoffStep ==
  ASSUME NEW t, Solo(t), SoloInv(t), [Next]_vars,
         NEW j \in Jobs, phase[j] = "Retrying", phase'[j] # "Retrying"
  PROVE  now >= until[j]
<1>1. t \in Tickers
  BY DEF Solo
<1>2. CASE Dispatch(t)
  <2>1. job[t] \in Jobs /\ Fits(job[t], signal[t])
    BY <1>1, <1>2 DEF Dispatch, SoloInv, SignalFresh, TypeOK, ControlOK
  <2>2. j = job[t]
    BY <1>2 DEF Dispatch, Transition, SoloInv, TypeOK, DataOK
  <2> QED
    BY <2>1, <2>2, FittingSignal
<1>3. ASSUME NEW k \in Jobs, ApplyOk(t, k) PROVE FALSE
  <2>1. phase[k] = "Running"
    BY <1>1, <1>3 DEF ApplyOk, SoloInv, ResultsFresh
  <2> QED
    BY <1>3, <2>1 DEF ApplyOk, Transition, SoloInv, TypeOK, DataOK
<1>4. CASE ApplyErr(t)
  <2>1. phase[job[t]] = "Running"
    BY <1>1, <1>4 DEF ApplyErr, SoloInv, ResultsFresh
  <2> QED
    BY <1>4, <2>1 DEF ApplyErr, Transition, SoloInv, TypeOK, DataOK
<1>5. ASSUME NEW o \in Operators, OperatorWrite(o) PROVE FALSE
  <2>1. phase[op[o].job] = "Deadlettered"
    BY <1>5 DEF OperatorWrite, SoloInv, OperatorFresh
  <2> QED
    BY <1>5, <2>1 DEF OperatorWrite, SoloInv, TypeOK, DataOK
<1>6. CASE UNCHANGED phase
  BY <1>6
<1>7. CASE TickStep(t)
  <2>1. CASE TickStart(t) \/ PhaseOf(t) \/ AdvanceOnce(t) \/ Collect(t) \/ Joined(t) \/ Receipt(t)
    BY <1>6, <2>1 DEF TickStart, PhaseOf, AdvanceOnce, EvaluateGates, CheckBackoff, TryAllocate,
                      DecideRetry, Collect, Joined, Receipt, stateVars
  <2>2. CASE ApplyResult(t)
    BY <1>3, <1>4, <1>6, <2>2 DEF ApplyResult, RecordFailure, ResetAttempts, Release, stateVars
  <2> QED
    BY <1>2, <1>7, <2>1, <2>2 DEF TickStep
<1>8. CASE TaskStep(t)
  BY <1>6, <1>8 DEF TaskStep, Return, Panic, stateVars
<1>9. CASE \E o \in Operators : OperatorStep(o)
  BY <1>5, <1>6, <1>9 DEF OperatorStep, OperatorRead, OperatorEmit, stateVars
<1>10. CASE \/ \E k \in Jobs : RegisterJob(k)
            \/ \E x \in Gates, v \in GateOutcome : ChangeVerdict(x, v)
            \/ ClockAdvances \/ UNCHANGED vars
  BY <1>6, <1>10 DEF RegisterJob, ChangeVerdict, ClockAdvances, vars, stateVars
<1> QED
  BY <1>7, <1>8, <1>9, <1>10 DEF Next, Solo

(* With one tick at a time, a job leaves Retrying by BackoffElapsed only,  *)
(* and not before its deadline.                                            *)
THEOREM BackoffKept == ASSUME NEW t, Solo(t) PROVE Spec => BackoffRespected
<1>1. SoloInv(t) /\ [Next]_vars =>
        [\A j \in Jobs : phase[j] = "Retrying" /\ phase'[j] # "Retrying" => now >= until[j]]_vars
  BY BackoffStep
<1> QED
  BY <1>1, SoloInvariant, PTL DEF Spec, BackoffRespected
-----------------------------------------------------------------------------
(* The budget of one tick: what is counted is what is Running or held. *)

Held(t, e) == IF HoldsSlot(t) /\ e \in EnvelopesOf[job[t]] THEN 1 ELSE 0

Exact(t, e) == running[e] = Cardinality(RunningIn(e)) + Held(t, e)

ExactInv(t) == SoloInv(t) /\ \A e \in Envelopes : Exact(t, e)

(* No phase, no counter and no slot of the tick moves. *)
LEMMA ExactQuiet ==
  ASSUME NEW t, NEW e \in Envelopes, Exact(t, e), UNCHANGED <<running, phase>>,
         ~HoldsSlot(t), ~(HoldsSlot(t)')
  PROVE  Exact(t, e)'
BY DEF Exact, Held, RunningIn

(* A slot is taken off the counter for the job it is taken for. *)
LEMMA ExactAllocate ==
  ASSUME NEW t \in Tickers, NEW e \in Envelopes, SoloInv(t), Exact(t, e), TryAllocate(t)
  PROVE  Exact(t, e)'
<1>1. RunningIn(e)' = RunningIn(e) /\ Cardinality(RunningIn(e)) \in Nat /\ running[e] \in Nat
  BY CoverFinite DEF TryAllocate, stateVars, RunningIn, SoloInv, TypeOK, DataOK
<1>2. ~HoldsSlot(t)
  BY DEF TryAllocate, HoldsSlot
<1>3. CASE running' = try_allocate(running, job[t]) /\ Decide(t, "AllocateBudget", 0)
  <2>1. HoldsSlot(t)' /\ job'[t] = job[t]
    BY <1>3 DEF Decide, HoldsSlot, SoloInv, TypeOK, ControlOK, DataOK
  <2>2. running'[e] = running[e] + (IF e \in EnvelopesOf[job[t]] THEN 1 ELSE 0)
    BY <1>3 DEF try_allocate
  <2> QED
    BY <1>1, <1>2, <2>1, <2>2 DEF Exact, Held
<1>4. CASE UNCHANGED running /\ NoProgress(t)
  <2>1. pc'[t] \in Calm
    BY <1>4, CalmMoves DEF NoProgress
  <2> QED
    BY <1>2, <1>4, <2>1, ExactQuiet DEF TryAllocate, stateVars, HoldsSlot, Calm
<1> QED
  BY <1>3, <1>4 DEF TryAllocate

(* The slot in the tick's hands becomes the Running job's. *)
LEMMA ExactDispatch ==
  ASSUME NEW t \in Tickers, NEW e \in Envelopes, SoloInv(t), Exact(t, e), Dispatch(t)
  PROVE  Exact(t, e)'
<1> DEFINE j == job[t]
           R == RunningIn(e)
<1>1. /\ j \in Jobs /\ Fits(j, signal[t]) /\ phase[j] \in JobPhase /\ phase[j] # "Running"
      /\ phase' = [phase EXCEPT ![j] = advance(phase[j], signal[t])]
      /\ Progressed(t) /\ UNCHANGED running
  BY FittingSignal DEF Dispatch, Transition, SoloInv, SignalFresh, TypeOK, ControlOK, DataOK
<1>2. pc'[t] \in Calm /\ Held(t, e)' = 0
  BY <1>1, CalmMoves DEF Calm, Held, HoldsSlot
<1>3. IsFiniteSet(R) /\ Cardinality(R) \in Nat /\ running[e] \in Nat
  BY CoverFinite DEF SoloInv, TypeOK, DataOK
<1>4. CASE signal[t] = "AllocateBudget" /\ e \in EnvelopesOf[j]
  <2>1. advance(phase[j], signal[t]) = "Running"
    BY <1>1, <1>4 DEF Fits, GateAggregate, advance, Regatable
  <2>2. RunningIn(e)' = R \cup {j} /\ j \notin R
    BY <1>1, <1>4, <2>1 DEF RunningIn, SoloInv, TypeOK, DataOK
  <2>3. Held(t, e) = 1
    BY <1>4 DEF Held, HoldsSlot, Dispatch
  <2> HIDE DEF R
  <2>4. Cardinality(R \cup {j}) = Cardinality(R) + 1
    BY <1>3, <2>2, FS_AddElement
  <2>5. running[e] = Cardinality(R) + 1
    BY <2>3 DEF Exact, R
  <2> QED
    BY <1>1, <1>2, <1>3, <2>2, <2>4, <2>5 DEF Exact
<1>5. CASE signal[t] # "AllocateBudget" \/ e \notin EnvelopesOf[j]
  <2>1. advance(phase[j], signal[t]) # "Running" \/ e \notin EnvelopesOf[j]
    BY <1>1, <1>5, AdvanceRunning
  <2>2. RunningIn(e)' = R
    BY <1>1, <2>1 DEF RunningIn, SoloInv, TypeOK, DataOK
  <2>3. Held(t, e) = 0
    BY <1>5 DEF Held, HoldsSlot, Dispatch
  <2> QED
    BY <1>1, <1>2, <2>2, <2>3 DEF Exact
<1> QED
  BY <1>4, <1>5

(* The slot of a job whose execution ended goes into the tick's hands. *)
LEMMA ExactEnd ==
  ASSUME NEW t \in Tickers, NEW e \in Envelopes, SoloInv(t), Exact(t, e), NEW j \in Jobs,
         pc[t] \in {"apply", "failed"}, pc'[t] \in {"reset", "release"}, job'[t] = j,
         phase[j] = "Running", phase'[j] # "Running", UNCHANGED running,
         \A k \in Jobs \ {j} : phase'[k] = phase[k]
  PROVE  Exact(t, e)'
<1> DEFINE R == RunningIn(e)
<1>1. IsFiniteSet(R) /\ Cardinality(R) \in Nat /\ running[e] \in Nat
  BY CoverFinite DEF SoloInv, TypeOK, DataOK
<1>2. running[e] = Cardinality(R)
  BY <1>1 DEF Exact, Held, HoldsSlot
<1>3. Held(t, e)' = IF e \in EnvelopesOf[j] THEN 1 ELSE 0
  BY DEF Held, HoldsSlot
<1>4. CASE e \in EnvelopesOf[j]
  <2>1. j \in R /\ RunningIn(e)' = R \ {j}
    BY <1>4 DEF RunningIn
  <2> HIDE DEF R
  <2>2. Cardinality(R \ {j}) = Cardinality(R) - 1
    BY <1>1, <2>1, FS_RemoveElement
  <2> QED
    BY <1>1, <1>2, <1>3, <1>4, <2>1, <2>2 DEF Exact
<1>5. CASE e \notin EnvelopesOf[j]
  <2>1. RunningIn(e)' = R
    BY <1>5 DEF RunningIn
  <2> QED
    BY <1>1, <1>2, <1>3, <1>5, <2>1 DEF Exact
<1> QED
  BY <1>4, <1>5

(* A release takes off the counter what the tick held. *)
LEMMA ExactRelease ==
  ASSUME NEW t \in Tickers, NEW e \in Envelopes, SoloInv(t), Exact(t, e), Release(t)
  PROVE  Exact(t, e)'
<1>1. RunningIn(e)' = RunningIn(e) /\ Cardinality(RunningIn(e)) \in Nat /\ running[e] \in Nat
  BY CoverFinite DEF Release, stateVars, RunningIn, SoloInv, TypeOK, DataOK
<1>2. Held(t, e)' = 0
  <2>1. pc'[t] \in Calm \cup {"apply"}
    BY CalmMoves DEF Release, SoloInv, TypeOK, ControlOK
  <2> QED
    BY <2>1 DEF Calm, Held, HoldsSlot
<1>3. Held(t, e) = IF e \in EnvelopesOf[job[t]] THEN 1 ELSE 0
  BY DEF Held, HoldsSlot, Release
<1>4. running'[e] = IF e \in EnvelopesOf[job[t]] /\ running[e] > 0 THEN running[e] - 1 ELSE running[e]
  BY DEF Release, release
<1> QED
  BY <1>1, <1>2, <1>3, <1>4 DEF Exact

LEMMA ExactApply ==
  ASSUME NEW t \in Tickers, NEW e \in Envelopes, SoloInv(t), Exact(t, e), ApplyResult(t)
  PROVE  Exact(t, e)'
<1>1. ASSUME NEW j \in Jobs, ApplyOk(t, j) PROVE Exact(t, e)'
  <2>1. pc[t] = "apply" /\ phase[j] = "Running"
    BY <1>1 DEF ApplyOk, SoloInv, ResultsFresh
  <2>2. /\ phase' = [phase EXCEPT ![j] = "Succeeded"] /\ UNCHANGED running
        /\ pc' = [pc EXCEPT ![t] = "reset"] /\ job' = [job EXCEPT ![t] = j]
    BY <1>1, <2>1, AdvanceFromRunning DEF ApplyOk, Transition, Legal, IllegalTransition
  <2>3. /\ pc'[t] = "reset" /\ job'[t] = j
        /\ phase'[j] = "Succeeded" /\ \A k \in Jobs \ {j} : phase'[k] = phase[k]
    BY <2>2 DEF SoloInv, TypeOK, ControlOK, DataOK
  <2> QED
    BY <2>1, <2>2, <2>3, ExactEnd
<1>2. CASE ApplyErr(t)
  <2>1. pc[t] = "failed" /\ phase[job[t]] = "Running" /\ job[t] \in Jobs
    BY <1>2 DEF ApplyErr, SoloInv, ResultsFresh, TypeOK, ControlOK
  <2>2. /\ phase' = [phase EXCEPT ![job[t]] = "Failed"] /\ UNCHANGED <<running, job>>
        /\ pc' = [pc EXCEPT ![t] = "release"]
    BY <1>2, <2>1, AdvanceFromRunning DEF ApplyErr, Transition, Legal, IllegalTransition
  <2>3. /\ pc'[t] = "release" /\ job'[t] = job[t]
        /\ phase'[job[t]] = "Failed" /\ \A k \in Jobs \ {job[t]} : phase'[k] = phase[k]
    BY <2>1, <2>2 DEF SoloInv, TypeOK, ControlOK, DataOK
  <2> QED
    BY <2>1, <2>2, <2>3, ExactEnd
<1>3. ASSUME NEW j \in Jobs, RecordFailure(t, j) PROVE Exact(t, e)'
  <2>1. pc[t] = "apply" /\ pc'[t] = "failed" /\ UNCHANGED <<running, phase>>
    BY <1>3 DEF RecordFailure, SoloInv, TypeOK, ControlOK
  <2> QED
    BY <2>1, ExactQuiet DEF HoldsSlot
<1>4. CASE ResetAttempts(t)
  <2>1. /\ pc[t] = "reset" /\ pc'[t] = "release" /\ UNCHANGED <<running, phase, job>>
    BY <1>4 DEF ResetAttempts, SoloInv, TypeOK, ControlOK
  <2> QED
    BY <2>1 DEF Exact, Held, HoldsSlot, RunningIn
<1> QED
  BY <1>1, <1>2, <1>3, <1>4, ExactRelease DEF ApplyResult

LEMMA ExactStep ==
  ASSUME NEW t, Solo(t), SoloInv(t), NEW e \in Envelopes, Exact(t, e), [Next]_vars
  PROVE  Exact(t, e)'
<1>1. t \in Tickers
  BY DEF Solo
<1>2. CASE TickStart(t) \/ PhaseOf(t) \/ Collect(t) \/ Joined(t) \/ Receipt(t)
  <2>1. UNCHANGED <<phase, running>> /\ ~HoldsSlot(t)
    BY <1>2 DEF TickStart, PhaseOf, Collect, Joined, Receipt, stateVars, HoldsSlot
  <2>2. pc'[t] \in Calm \cup {"advance", "join", "apply"}
    BY <1>1, <1>2, CalmMoves
       DEF TickStart, PhaseOf, Collect, Joined, Receipt, SoloInv, TypeOK, ControlOK, Calm
  <2> QED
    BY <2>1, <2>2, ExactQuiet DEF HoldsSlot, Calm
<1>3. CASE EvaluateGates(t) \/ CheckBackoff(t) \/ DecideRetry(t)
  <2>1. /\ UNCHANGED <<phase, running>> /\ pc[t] = "advance"
        /\ NoProgress(t) \/ \E s, d : s # "AllocateBudget" /\ Decide(t, s, d)
    BY <1>3, ReduceType
       DEF EvaluateGates, CheckBackoff, DecideRetry, stateVars, evaluate_gates, GateAggregate
  <2>2. ~HoldsSlot(t) /\ ~(HoldsSlot(t)')
    <3>1. CASE NoProgress(t)
      BY <1>1, <2>1, <3>1, CalmMoves DEF NoProgress, HoldsSlot, Calm
    <3>2. CASE \E s, d : s # "AllocateBudget" /\ Decide(t, s, d)
      BY <1>1, <2>1, <3>2 DEF Decide, HoldsSlot, SoloInv, TypeOK, ControlOK, DataOK
    <3> QED
      BY <2>1, <3>1, <3>2
  <2> QED
    BY <2>1, <2>2, ExactQuiet
<1>4. ASSUME NEW o \in Operators, OperatorWrite(o) PROVE Exact(t, e)'
  <2>1. phase[op[o].job] = "Deadlettered" /\ phase' = [phase EXCEPT ![op[o].job] = "Pending"]
    BY <1>4 DEF OperatorWrite, SoloInv, OperatorFresh
  <2>2. RunningIn(e)' = RunningIn(e)
    BY <2>1 DEF RunningIn, SoloInv, TypeOK, DataOK
  <2> QED
    BY <1>4, <2>2 DEF OperatorWrite, tickVars, Exact, Held, HoldsSlot
<1>5. CASE UNCHANGED <<phase, running, pc, signal, job>>
  BY <1>5 DEF Exact, Held, HoldsSlot, RunningIn
<1>6. CASE TickStep(t)
  BY <1>1, <1>2, <1>3, <1>6, ExactAllocate, ExactDispatch, ExactApply DEF TickStep, AdvanceOnce
<1>7. CASE TaskStep(t)
  BY <1>5, <1>7 DEF TaskStep, Return, Panic, stateVars
<1>8. CASE \E o \in Operators : OperatorStep(o)
  BY <1>4, <1>5, <1>8 DEF OperatorStep, OperatorRead, OperatorEmit, stateVars, tickVars
<1>9. CASE \/ \E j \in Jobs : RegisterJob(j)
           \/ \E x \in Gates, v \in GateOutcome : ChangeVerdict(x, v)
           \/ ClockAdvances \/ UNCHANGED vars
  BY <1>5, <1>9 DEF RegisterJob, ChangeVerdict, ClockAdvances, vars, stateVars, tickVars
<1> QED
  BY <1>6, <1>7, <1>8, <1>9 DEF Next, Solo

(* With one tick at a time no slot is lost: a budget counter is exactly    *)
(* the jobs that are Running plus the slot in the tick's hands.            *)
THEOREM BudgetKept == ASSUME NEW t, Solo(t) PROVE Spec => []BudgetExact
<1>1. Init => ExactInv(t)
  <2> SUFFICES ASSUME Init PROVE ExactInv(t)
    OBVIOUS
  <2>1. t \in Tickers
    BY DEF Solo
  <2>2. ASSUME NEW e \in Envelopes PROVE RunningIn(e) = {} /\ Held(t, e) = 0 /\ running[e] = 0
    BY <2>1 DEF Init, RunningIn, Held, HoldsSlot
  <2> QED
    BY <2>1, <2>2, FS_EmptySet, SoloInit DEF ExactInv, Exact
<1>2. ExactInv(t) /\ [Next]_vars => ExactInv(t)'
  <2> SUFFICES ASSUME ExactInv(t), [Next]_vars PROVE ExactInv(t)'
    OBVIOUS
  <2>1. ASSUME NEW e \in Envelopes PROVE Exact(t, e)'
    BY ExactStep DEF ExactInv
  <2> QED
    BY <2>1, SoloStep DEF ExactInv
<1>3. ExactInv(t) => BudgetExact
  <2> SUFFICES ASSUME ExactInv(t), NEW e \in Envelopes
               PROVE  running[e] = Cardinality(RunningIn(e)) + Cardinality(HoldersIn(e))
    BY DEF BudgetExact
  <2>1. HoldersIn(e) = IF Held(t, e) = 1 THEN {t} ELSE {}
    BY DEF Solo, HoldersIn, Held
  <2>2. Cardinality(HoldersIn(e)) = Held(t, e)
    BY <2>1, FS_EmptySet, FS_Singleton DEF Held
  <2> QED
    BY <2>2 DEF ExactInv, Exact
<1> QED
  BY <1>1, <1>2, <1>3, PTL DEF Spec

(* "Allocate on Ready -> Running, release on Running -> terminal" holds as  *)
(* said for a scheduler that is ticked by one caller: between two ticks    *)
(* the counters are the Running jobs.  (A second ticker loses slots.)      *)
THEOREM SlotsReturned == ASSUME NEW t, Solo(t) PROVE Spec => []NoSlotLost
<1>1. TypeOK /\ BudgetExact => NoSlotLost
  <2> SUFFICES ASSUME TypeOK, BudgetExact, \A u \in Tickers : pc[u] = "idle", NEW e \in Envelopes
               PROVE  running[e] = Cardinality(RunningIn(e))
    BY DEF NoSlotLost
  <2>1. HoldersIn(e) = {}
    BY DEF HoldersIn, HoldsSlot
  <2>2. running[e] = Cardinality(RunningIn(e)) + 0
    BY <2>1, FS_EmptySet DEF BudgetExact
  <2> QED
    BY <2>2, CoverFinite
<1> QED
  BY <1>1, TypeCorrect, BudgetKept, PTL

-----------------------------------------------------------------------------
(* Executions, when no task panics. *)

(* b[j] bounds the executions of j that no tick of this process waits for: *)
(* 0 here, one per restart in RecoveryProofs.  A Running job that has been *)
(* executed oftener is one the tick waits for or has still to apply the    *)
(* result of.                                                              *)
Awaited(t, b) ==
  \A j \in Jobs : phase[j] = "Running" /\ executions[j] > b[j] =>
    \/ j \in tasks[t]
    \/ \E r \in Outcomes : <<j, r>> \in results[t]
    \/ pc[t] = "failed" /\ job[t] = j

OnceMore(b) == \A j \in Jobs : executions[j] <= 1 + b[j]

OnceInv(t, b) == SoloInv(t) /\ Awaited(t, b) /\ OnceMore(b)

(* A job that becomes Running has not been executed yet. *)
Afresh == \A j \in Jobs : phase[j] # "Running" /\ phase'[j] = "Running" => executions'[j] = 0

(* A step that starts no execution and takes nothing off what is awaited.  *)
LEMMA OnceQuiet ==
  ASSUME NEW t \in Tickers, NEW b \in [Jobs -> Nat], OnceInv(t, b),
         UNCHANGED <<executions, tasks, results>>, pc[t] # "failed",
         \A j \in Jobs : phase'[j] = "Running" => phase[j] = "Running"
  PROVE  Awaited(t, b)' /\ OnceMore(b)' /\ Afresh
BY DEF OnceInv, Awaited, OnceMore, Afresh

LEMMA OnceCollect ==
  ASSUME NEW t \in Tickers, NEW b \in [Jobs -> Nat], OnceInv(t, b), Collect(t)
  PROVE  Awaited(t, b)' /\ OnceMore(b)' /\ Afresh
<1>1. \A j \in Jobs : executions[j] \in Nat /\ (phase[j] = "Running" => executions[j] <= b[j])
  <2>1. pc[t] = "collect" /\ tasks[t] = {} /\ results[t] = {}
    BY NoResults DEF Collect, OnceInv
  <2>2. \A j \in Jobs : executions[j] \in 0 .. MaxExecutions
    BY DEF OnceInv, SoloInv, TypeOK, DataOK
  <2> QED
    BY <2>1, <2>2, SchedulerAssumption DEF OnceInv, Awaited
<1>2. \A j \in Jobs :
        \/ executions'[j] = executions[j]
        \/ phase[j] = "Running" /\ executions'[j] = executions[j] + 1 /\ j \in tasks'[t]
  BY DEF Collect, OnceInv, SoloInv, TypeOK, DataOK
<1>3. UNCHANGED phase
  BY DEF Collect, stateVars
<1> QED
  BY <1>1, <1>2, <1>3 DEF OnceInv, Awaited, OnceMore, Afresh

LEMMA OnceDispatch ==
  ASSUME NEW t \in Tickers, NEW b \in [Jobs -> Nat], OnceInv(t, b), Dispatch(t)
  PROVE  Awaited(t, b)' /\ OnceMore(b)' /\ Afresh
<1> DEFINE j == job[t]
<1>1. j \in Jobs /\ Fits(j, signal[t]) /\ phase[j] \in JobPhase
  BY DEF Dispatch, OnceInv, SoloInv, SignalFresh, TypeOK, ControlOK, DataOK
<1>2. /\ phase' = [phase EXCEPT ![j] = advance(phase[j], signal[t])]
      /\ executions' = [executions EXCEPT ![j] = IF signal[t] = "AllocateBudget" THEN 0 ELSE @]
      /\ pc[t] = "dispatch" /\ UNCHANGED <<tasks, results>>
  BY <1>1, FittingSignal DEF Dispatch, Transition
<1> HIDE DEF j
<1>3. /\ \A k \in Jobs \ {j} : phase'[k] = phase[k] /\ executions'[k] = executions[k]
      /\ phase'[j] = "Running" => executions'[j] = 0
      /\ executions'[j] \in {0, executions[j]}
  BY <1>1, <1>2, AdvanceRunning DEF OnceInv, SoloInv, TypeOK, DataOK
<1> QED
  BY <1>2, <1>3 DEF OnceInv, Awaited, OnceMore, Afresh

LEMMA OnceApply ==
  ASSUME NEW t \in Tickers, NEW b \in [Jobs -> Nat], OnceInv(t, b), ApplyResult(t)
  PROVE  Awaited(t, b)' /\ OnceMore(b)' /\ Afresh
<1>1. ASSUME NEW j \in Jobs, ApplyOk(t, j) PROVE Awaited(t, b)' /\ OnceMore(b)' /\ Afresh
  <2>1. pc[t] = "apply" /\ phase[j] = "Running"
    BY <1>1 DEF ApplyOk, OnceInv, SoloInv, ResultsFresh
  <2>2. /\ phase' = [phase EXCEPT ![j] = "Succeeded"]
        /\ executions' = [executions EXCEPT ![j] = executions[j]]
        /\ results' = [results EXCEPT ![t] = @ \ {<<j, "Ok">>}] /\ UNCHANGED tasks
    BY <1>1, <2>1, AdvanceFromRunning DEF ApplyOk, Transition, Legal, IllegalTransition
  <2>3. /\ phase'[j] = "Succeeded" /\ \A k \in Jobs \ {j} : phase'[k] = phase[k]
        /\ UNCHANGED executions /\ results'[t] = results[t] \ {<<j, "Ok">>}
    BY <2>2 DEF OnceInv, SoloInv, TypeOK, DataOK
  <2> QED
    BY <2>1, <2>2, <2>3 DEF OnceInv, Awaited, OnceMore, Afresh
<1>2. CASE ApplyErr(t)
  <2>1. pc[t] = "failed" /\ phase[job[t]] = "Running" /\ job[t] \in Jobs
    BY <1>2 DEF ApplyErr, OnceInv, SoloInv, ResultsFresh, TypeOK, ControlOK
  <2>2. /\ phase' = [phase EXCEPT ![job[t]] = "Failed"]
        /\ executions' = [executions EXCEPT ![job[t]] = executions[job[t]]]
        /\ UNCHANGED <<results, tasks>>
    BY <1>2, <2>1, AdvanceFromRunning DEF ApplyErr, Transition, Legal, IllegalTransition
  <2>3. /\ phase'[job[t]] = "Failed" /\ \A k \in Jobs \ {job[t]} : phase'[k] = phase[k]
        /\ UNCHANGED executions
    BY <2>1, <2>2 DEF OnceInv, SoloInv, TypeOK, DataOK
  <2> QED
    BY <2>1, <2>2, <2>3 DEF OnceInv, Awaited, OnceMore, Afresh
<1>3. ASSUME NEW j \in Jobs, RecordFailure(t, j) PROVE Awaited(t, b)' /\ OnceMore(b)' /\ Afresh
  <2>1. /\ pc[t] = "apply" /\ pc'[t] = "failed" /\ job'[t] = j
        /\ results'[t] = results[t] \ {<<j, "Err">>} /\ UNCHANGED <<phase, executions, tasks>>
    BY <1>3 DEF RecordFailure, OnceInv, SoloInv, TypeOK, ControlOK, DataOK
  <2> QED
    BY <2>1 DEF OnceInv, Awaited, OnceMore, Afresh
<1>4. CASE ResetAttempts(t) \/ Release(t)
  BY <1>4, OnceQuiet DEF ResetAttempts, Release, stateVars
<1> QED
  BY <1>1, <1>2, <1>3, <1>4 DEF ApplyResult

LEMMA OnceStep ==
  ASSUME NEW t, Solo(t), NEW b \in [Jobs -> Nat], MayPanic = {}, OnceInv(t, b), [Next]_vars
  PROVE  Awaited(t, b)' /\ OnceMore(b)' /\ Afresh
<1>1. t \in Tickers
  BY DEF Solo
<1>2. CASE TickStart(t) \/ PhaseOf(t) \/ AdvanceOnce(t) \/ Joined(t) \/ Receipt(t)
  <2>1. UNCHANGED <<phase, executions, tasks, results>> /\ pc[t] # "failed"
    BY <1>2 DEF TickStart, PhaseOf, AdvanceOnce, EvaluateGates, CheckBackoff, TryAllocate,
                DecideRetry, Joined, Receipt, stateVars
  <2> QED
    BY <1>1, <2>1, OnceQuiet
<1>3. CASE TaskStep(t)
  <2>1. PICK j \in Jobs, r \in Outcomes : Return(t, j, r)
    BY <1>3 DEF TaskStep, Panic, Outcomes
  <2>2. /\ tasks'[t] = tasks[t] \ {j} /\ results'[t] = results[t] \cup {<<j, r>>}
        /\ UNCHANGED <<phase, executions, pc, job>>
    BY <1>1, <2>1 DEF Return, stateVars, OnceInv, SoloInv, TypeOK, DataOK
  <2> QED
    BY <2>2 DEF OnceInv, Awaited, OnceMore, Afresh
<1>4. ASSUME NEW o \in Operators, OperatorWrite(o) PROVE Awaited(t, b)' /\ OnceMore(b)' /\ Afresh
  <2>1. phase[op[o].job] = "Deadlettered" /\ phase' = [phase EXCEPT ![op[o].job] = "Pending"]
    BY <1>4 DEF OperatorWrite, OnceInv, SoloInv, OperatorFresh
  <2>2. /\ \A j \in Jobs : phase'[j] = "Running" => phase[j] = "Running"
        /\ UNCHANGED <<executions, tasks, results, pc, job>>
    BY <1>4, <2>1 DEF OperatorWrite, tickVars, OnceInv, SoloInv, TypeOK, DataOK
  <2> QED
    BY <2>2 DEF OnceInv, Awaited, OnceMore, Afresh
<1>5. CASE UNCHANGED <<phase, executions, tasks, results, pc, job>>
  BY <1>5 DEF OnceInv, Awaited, OnceMore, Afresh
<1>6. CASE TickStep(t)
  BY <1>1, <1>2, <1>6, OnceCollect, OnceDispatch, OnceApply DEF TickStep
<1>7. CASE \E o \in Operators : OperatorStep(o)
  BY <1>4, <1>5, <1>7 DEF OperatorStep, OperatorRead, OperatorEmit, stateVars, tickVars
<1>8. CASE \/ \E j \in Jobs : RegisterJob(j)
           \/ \E x \in Gates, v \in GateOutcome : ChangeVerdict(x, v)
           \/ ClockAdvances \/ UNCHANGED vars
  BY <1>5, <1>8 DEF RegisterJob, ChangeVerdict, ClockAdvances, vars, stateVars, tickVars
<1> QED
  BY <1>3, <1>6, <1>7, <1>8 DEF Next, Solo

(* With one tick at a time and no panic, execute() is called at most once  *)
(* for every time a job becomes Running.                                   *)
THEOREM ExecutedOnce ==
  ASSUME NEW t, Solo(t), MayPanic = {}
  PROVE  Spec => []ExecuteOncePerRunning
<1> DEFINE none == [j \in Jobs |-> 0]
<1>1. Init => OnceInv(t, none)
  BY SoloInit DEF Solo, Init, OnceInv, Awaited, OnceMore
<1>2. OnceInv(t, none) /\ [Next]_vars => OnceInv(t, none)'
  <2>1. none \in [Jobs -> Nat] /\ none' = none
    OBVIOUS
  <2> HIDE DEF none
  <2> QED
    BY <2>1, OnceStep, SoloStep DEF OnceInv
<1>3. OnceInv(t, none) => ExecuteOncePerRunning
  BY DEF OnceInv, OnceMore, ExecuteOncePerRunning
<1> QED
  BY <1>1, <1>2, <1>3, PTL DEF Spec

-----------------------------------------------------------------------------
(* The failure history, for any number of ticks and operators. *)

(* The numbers of the last HistoryCap of n failures. *)
Latest(n) == [i \in 1 .. Smaller(n, HistoryCap) |-> n - Smaller(n, HistoryCap) + i]

(* One more failure: appended at the end, the oldest record dropped.       *)
LEMMA KeepLastLatest ==
  ASSUME NEW n \in Nat
  PROVE  KeepLast(Append(Latest(n), n + 1)) = Latest(n + 1)
<1>1. HistoryCap \in Nat \ {0}
  BY SchedulerAssumption
<1> DEFINE m == Smaller(n, HistoryCap)
           h == Append(Latest(n), n + 1)
<1>2. m \in Nat /\ m <= HistoryCap /\ m <= n
  BY <1>1 DEF Smaller
<1>3. Latest(n) \in Seq(Nat) /\ Len(Latest(n)) = m /\ \A i \in 1 .. m : Latest(n)[i] = n - m + i
  BY <1>2 DEF Latest
<1>4. /\ h \in Seq(Nat) /\ Len(h) = m + 1
      /\ \A i \in 1 .. m + 1 : h[i] = n - m + i
  BY <1>2, <1>3
<1>5. CASE n < HistoryCap
  <2>1. m = n /\ Smaller(n + 1, HistoryCap) = n + 1
    BY <1>1, <1>5 DEF Smaller
  <2>2. KeepLast(h) = h
    BY <1>1, <1>4, <1>5, <2>1 DEF KeepLast
  <2>3. Latest(n + 1) = [i \in 1 .. n + 1 |-> (n + 1) - (n + 1) + i]
    BY <2>1 DEF Latest
  <2> HIDE DEF m, h
  <2>4. h = [i \in 1 .. n + 1 |-> h[i]]
    BY <1>4, <2>1
  <2>5. \A i \in 1 .. n + 1 : h[i] = (n + 1) - (n + 1) + i
    BY <1>4, <2>1
  <2> QED
    BY <2>2, <2>3, <2>4, <2>5 DEF h
<1>6. CASE n >= HistoryCap
  <2>1. m = HistoryCap /\ Smaller(n + 1, HistoryCap) = HistoryCap
    BY <1>1, <1>6 DEF Smaller
  <2>2. KeepLast(h) = SubSeq(h, 2, HistoryCap + 1)
    <3>1. Len(h) = HistoryCap + 1
      BY <1>4, <2>1
    <3> HIDE DEF m, h
    <3>2. Len(h) > HistoryCap /\ Len(h) - HistoryCap + 1 = 2
      BY <1>1, <3>1
    <3> QED
      BY <3>1, <3>2 DEF KeepLast
  <2>3. Latest(n + 1) = [i \in 1 .. HistoryCap |-> (n + 1) - HistoryCap + i]
    BY <2>1 DEF Latest
  <2> HIDE DEF m, h
  <2>4. SubSeq(h, 2, HistoryCap + 1) = [i \in 1 .. HistoryCap |-> h[i + 1]]
    BY <1>1, <1>4, <2>1
  <2>5. \A i \in 1 .. HistoryCap : h[i + 1] = (n + 1) - HistoryCap + i
    BY <1>1, <1>4, <2>1
  <2> QED
    BY <2>2, <2>3, <2>4, <2>5 DEF h
<1> QED
  BY <1>1, <1>5, <1>6

LEMMA TicksWriteHistory ==
  ASSUME [Next]_vars
  PROVE  \/ UNCHANGED <<attempts, history>>
         \/ \E t \in Tickers : ResetAttempts(t) \/ \E j \in Jobs : RecordFailure(t, j)
<1>1. ASSUME NEW t \in Tickers, TickStep(t)
      PROVE  \/ UNCHANGED <<attempts, history>>
             \/ ResetAttempts(t) \/ \E j \in Jobs : RecordFailure(t, j)
  <2>1. CASE TickStart(t) \/ PhaseOf(t) \/ AdvanceOnce(t) \/ Dispatch(t)
    BY <2>1 DEF TickStart, PhaseOf, AdvanceOnce, EvaluateGates, CheckBackoff, TryAllocate,
                DecideRetry, Dispatch, stateVars
  <2>2. CASE Collect(t) \/ Joined(t) \/ Receipt(t)
    BY <2>2 DEF Collect, Joined, Receipt, stateVars
  <2>3. CASE ApplyResult(t)
    BY <2>3 DEF ApplyResult, ApplyOk, ApplyErr, Release, stateVars
  <2> QED
    BY <1>1, <2>1, <2>2, <2>3 DEF TickStep
<1>2. ASSUME NEW t \in Tickers, TaskStep(t) PROVE UNCHANGED <<attempts, history>>
  BY <1>2 DEF TaskStep, Return, Panic, stateVars
<1>3. ASSUME NEW o \in Operators, OperatorStep(o) PROVE UNCHANGED <<attempts, history>>
  BY <1>3 DEF OperatorStep, OperatorRead, OperatorWrite, OperatorEmit, stateVars
<1>4. CASE \/ \E j \in Jobs : RegisterJob(j)
           \/ \E x \in Gates, v \in GateOutcome : ChangeVerdict(x, v)
           \/ ClockAdvances \/ UNCHANGED vars
  BY <1>4 DEF RegisterJob, ChangeVerdict, ClockAdvances, vars, stateVars
<1> QED
  BY <1>1, <1>2, <1>3, <1>4 DEF Next

(* What the history of a job is, in short. *)
LEMMA HistoryIsLatest == HistoryMatches <=> \A j \in Jobs : history[j] = Latest(attempts[j])
BY DEF HistoryMatches, Latest

LEMMA NoneLatest == Latest(0) = <<>>
<1>1. Smaller(0, HistoryCap) = 0
  BY SchedulerAssumption DEF Smaller
<1> QED
  BY <1>1 DEF Latest

LEMMA HistoryStep == TypeOK /\ HistoryMatches /\ [Next]_vars => HistoryMatches'
<1> SUFFICES ASSUME TypeOK, HistoryMatches, [Next]_vars, NEW j \in Jobs
             PROVE  history'[j] = Latest(attempts'[j])
  BY DEF HistoryMatches, Latest
<1>1. history[j] = Latest(attempts[j]) /\ attempts[j] \in Nat
  BY HistoryIsLatest DEF TypeOK, DataOK
<1>2. ASSUME NEW t \in Tickers, NEW k \in Jobs, RecordFailure(t, k)
      PROVE  history'[j] = Latest(attempts'[j])
  <2>1. /\ j # k => attempts'[j] = attempts[j] /\ history'[j] = history[j]
        /\ j = k => /\ attempts'[j] = attempts[j] + 1
                    /\ history'[j] = KeepLast(Append(history[j], attempts[j] + 1))
    BY <1>2 DEF RecordFailure, TypeOK, DataOK
  <2> QED
    BY <1>1, <2>1, KeepLastLatest
<1>3. ASSUME NEW t \in Tickers, ResetAttempts(t)
      PROVE  history'[j] = Latest(attempts'[j])
  <2>1. /\ j # job[t] => attempts'[j] = attempts[j] /\ history'[j] = history[j]
        /\ j = job[t] => attempts'[j] = 0 /\ history'[j] = <<>>
    BY <1>3 DEF ResetAttempts, TypeOK, DataOK
  <2> QED
    BY <1>1, <2>1, NoneLatest
<1>4. CASE UNCHANGED <<attempts, history>>
  BY <1>1, <1>4
<1> QED
  BY <1>2, <1>3, <1>4, TicksWriteHistory

(* However many ticks share the scheduler, the failure history handed to a *)
(* RetryDecider is the last HistoryCap failures the counter has counted.   *)
THEOREM HistoryKept == Spec => []HistoryMatches
<1>1. Init => HistoryMatches
  BY HistoryIsLatest, NoneLatest DEF Init
<1> QED
  BY <1>1, HistoryStep, TypeCorrect, PTL DEF Spec
=============================================================================
