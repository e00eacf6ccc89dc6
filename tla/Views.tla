-------------------------------- MODULE Views -------------------------------
(***************************************************************************)
(* What a consumer sees of a scheduler: the Snapshot of shigoto-types, its *)
(* counts and the published SnapshotSummary.  A snapshot is read under one *)
(* lock, so it is a function of the state.                                 *)
(***************************************************************************)
EXTENDS Scheduler

(* The keys of the phase map: what was registered or met by a tick.  (An   *)
(* unregistered job is also there while a tick evaluates its gates for the *)
(* first time.)                                                            *)
Known == registered \cup {j \in Jobs : emitted[j].to # "Pending" \/ emitted[j].from # "Pending"}
snapshot_inner == [j \in Known |-> phase[j]]

failure_set(phases) ==
  {j \in DOMAIN phases : phases[j] \in {"Failed", "Retrying", "Deadlettered"}}

phase_counts(phases) ==
  [p \in JobPhase |-> Cardinality({j \in DOMAIN phases : phases[j] = p})]

(* Mutant: only the phase of that name counts as pending. *)
summary_by_name(phases) ==
  LET counts == phase_counts(phases)
  IN  [total |-> Cardinality(DOMAIN phases), counts |-> counts,
       running |-> counts["Running"], pending |-> counts["Pending"]]

(* The other fields of the summary are those of phase_counts. *)
summary(phases) ==
  LET counts == phase_counts(phases)
  IN  [total |-> Cardinality(DOMAIN phases), counts |-> counts,
       running |-> counts["Running"],
       pending |-> counts["Pending"] + counts["Gated"] + counts["Ready"]]

is_idle(s) == s.running = 0 /\ s.pending = 0

needs_attention(s) ==
  s.counts["Failed"] + s.counts["Retrying"] + s.counts["Deadlettered"]
    + s.counts["WaitingForOperator"]

(* From the moment a reader sees an idle scheduler, whatever ticks and     *)
(* operators are doing, no job it sees moves any more but those it finds   *)
(* in failure_set, and then needs_attention has told it.  (is_idle alone   *)
(* does not mean rest: a Retrying job is neither running nor pending.)     *)
(* Snapshot::summary, SnapshotSummary::is_idle                             *)
IdleIsQuiet ==
  [][LET s == summary(snapshot_inner)
     IN  is_idle(s) =>
           \A j \in Known : phase'[j] # phase[j] =>
              j \in failure_set(snapshot_inner) /\ needs_attention(s) > 0]_vars
=============================================================================
