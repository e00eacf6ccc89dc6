-------------------------------- MODULE Gate --------------------------------
(***************************************************************************)
(* shigoto-gate: the outcome of one gate, the reduction of a cohort, and   *)
(* the two standard gates.  The only thing the order of a cohort decides   *)
(* is which skip reason is reported, so a cohort is the SET of outcomes.   *)
(***************************************************************************)
EXTENDS JobFsm

GateOutcome == {"Pass", "Wait", "Skip", "Vacuous"}

(* Worst outcome wins; a cohort that claimed nothing is Vacuous. *)
reduce(outcomes) ==
  CASE "Skip" \in outcomes -> "GateSkipped"
    [] "Skip" \notin outcomes /\ "Wait" \in outcomes -> "SomeWaiting"
    [] outcomes \cap {"Skip", "Wait"} = {} /\ "Pass" \in outcomes -> "AllPassed"
    [] OTHER -> "Vacuous"

(* Mutant: a predecessor that has failed and is not yet given up counts as *)
(* finished.                                                               *)
UpstreamsNotActive(preds, phase) ==
  CASE \E p \in preds : phase[p] \in {"Pending", "Gated", "Ready", "Running", "Retrying"} -> "Wait"
    [] preds = {} -> "Vacuous"
    [] OTHER -> "Pass"

(* The implicit gate: preds are the direct predecessors, phase a snapshot. *)
AllUpstreamsTerminal(preds, phase) ==
  CASE \E p \in preds : ~is_terminal(phase[p]) -> "Wait"
    [] preds = {} -> "Vacuous"
    [] OTHER -> "Pass"
=============================================================================
