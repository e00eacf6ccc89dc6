-------------------------------- MODULE MCFsm -------------------------------
(***************************************************************************)
(* Machines for ConvergentFsm: small graphs with every kind of defect, and *)
(* the one lifecycle this repository ships, the `advance' of JobFsm.       *)
(***************************************************************************)
EXTENDS ConvergentFsm, JobFsm, Naturals

CONSTANTS s1, s2, s3,
          MaxEdges,         \* of a small graph
          MaxDisagreements  \* states whose is_terminal() does not fit successors()

Small == {s1, s2, s3}

Graphs == {succ \in [Small -> SUBSET Small] :
             Cardinality({e \in Small \X Small : e[2] \in succ[e[1]]}) <= MaxEdges}

Sinks(succ) == {s \in Small : succ[s] = {}}

SmallMachine(all, succ, wrong, good, resting) ==
  [all |-> all, successors |-> succ,
   is_terminal |-> (Sinks(succ) \ wrong) \cup (wrong \ Sinks(succ)),
   is_good_terminal |-> good, is_good_resting_state |-> resting]

(* all() may be empty or leave out states.  is_good_resting_state is the   *)
(* default, or overridden with the re-entrant s1.                          *)
SmallMachines ==
  {SmallMachine(all, succ, wrong, good, resting) :
     all \in {{}, {s1}, {s1, s2}, Small}, succ \in Graphs,
     wrong \in {w \in SUBSET Small : Cardinality(w) <= MaxDisagreements},
     good \in SUBSET Small, resting \in {{}, {s1}}}

WithDefault(m) == IF m.is_good_resting_state = {}
                    THEN [m EXCEPT !.is_good_resting_state = m.is_good_terminal] ELSE m

PhaseSuccessors(p) == {advance(p, signal) : signal \in Signal} \ {IllegalTransition}

Lifecycle ==
  [all |-> JobPhase,
   successors |-> [p \in JobPhase |-> PhaseSuccessors(p)],
   is_terminal |-> {p \in JobPhase : PhaseSuccessors(p) = {}},
   is_good_terminal |-> {"Succeeded", "Skipped"},
   is_good_resting_state |-> {"Succeeded", "Skipped"}]

MCMachines == {WithDefault(m) : m \in SmallMachines} \cup {Lifecycle}

(* The job lifecycle passes the harness: with an operator who answers, no  *)
(* phase is a trap and every phase leads to Succeeded or Skipped.          *)
LifecycleConverges == pc = "done" /\ fsm.all = JobPhase => defects = {}
=============================================================================
