------------------------------- MODULE JobFsm -------------------------------
(***************************************************************************)
(* The job state machine of shigoto-types: the ten phases, the signals and *)
(* the pure driver `advance'.  Payloads that no decision of the scheduler  *)
(* reads back (a skip's reason, the constant `attempts: 1' of Failed) are  *)
(* left out; the `until_ms' of Retrying travels beside the phase.          *)
(***************************************************************************)

(* The phases. *)
JobPhase == {"Pending", "Gated", "Ready", "Running", "Succeeded", "Failed",
             "Retrying", "Skipped", "WaitingForOperator", "Deadlettered"}

(* The four values of GateAggregate, i.e. the payloads of EvaluateGates. *)
GateAggregate == {"AllPassed", "Vacuous", "SomeWaiting", "GateSkipped"}

(* Mutant: Deadlettered has no way out. *)
OperatorSignalNoRetry == {"OperatorReady", "OperatorSkipped"}

(* The three targets an operator may legally name. *)
OperatorSignal == {"OperatorReady", "OperatorSkipped", "OperatorPending"}

(* The signals a tick can dispatch; Cancel and Timeout exist in the type   *)
(* but the in-process scheduler dispatches neither.                        *)
TickSignal == GateAggregate
                \cup {"AllocateBudget", "ExecutionSucceeded", "ExecutionFailed",
                      "RetryDecideRetry", "RetryDecideDeadletter", "BackoffElapsed"}

Signal == TickSignal \cup OperatorSignal \cup {"Cancel", "Timeout"}

(* What `advance' returns instead of a phase when it refuses the signal. *)
IllegalTransition == "IllegalTransition"

(* Mutants: a Gated job is not evaluated again; a finished job is. *)
RegatableOnce == {"Pending", "Ready", "Retrying"}
RegatableForever == {"Pending", "Gated", "Ready", "Retrying", "Succeeded"}

(* The phases from which a gate evaluation is accepted. *)
Regatable == {"Pending", "Gated", "Ready", "Retrying"}

advance(from, signal) ==
  CASE from \in Regatable /\ signal \in {"AllPassed", "Vacuous"} -> "Ready"
    [] from \in Regatable /\ signal = "SomeWaiting" -> "Gated"
    [] from \in Regatable /\ signal = "GateSkipped" -> "Skipped"
    [] from = "Ready" /\ signal = "AllocateBudget" -> "Running"
    [] from = "Running" /\ signal = "ExecutionSucceeded" -> "Succeeded"
    [] from = "Running" /\ signal \in {"ExecutionFailed", "Cancel", "Timeout"} -> "Failed"
    [] from = "Failed" /\ signal = "RetryDecideRetry" -> "Retrying"
    [] from = "Failed" /\ signal = "RetryDecideDeadletter" -> "Deadlettered"
    [] from = "Retrying" /\ signal = "BackoffElapsed" -> "Pending"
    [] from = "WaitingForOperator" /\ signal = "OperatorReady" -> "Ready"
    [] from = "WaitingForOperator" /\ signal = "OperatorSkipped" -> "Skipped"
    [] from = "Deadlettered" /\ signal = "OperatorPending" -> "Pending"
    [] OTHER -> IllegalTransition

(* The phases a dependent may treat as "finished". *)
is_terminal(phase) == phase \in {"Succeeded", "Skipped", "Deadlettered"}
=============================================================================
