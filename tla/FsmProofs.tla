----------------------------- MODULE FsmProofs ------------------------------
(***************************************************************************)
(* Proofs about ConvergentFsm, for every machine, finite or not: a walk    *)
(* that ends has decided reachability, and an Ok(()) is the claim of the   *)
(* crate, and no other machine is refused; the lifecycle of a job passes.  *)
(* That every walk ends is left to the model checker.                      *)
(***************************************************************************)
EXTENDS MCFsm, TLAPS

CannotConverge(s) == <<"CannotConverge", s>>

(* The walk under way has only met states it may meet, and has put the     *)
(* successors of what it left behind on the stack.                         *)
Frontier ==
  start # NoState =>
    /\ start \in seen \cup stack
    /\ seen \cup stack \subseteq Reachable(start)
    /\ \A s \in seen : s \notin fsm.is_good_resting_state /\ fsm.successors[s] \subseteq seen \cup stack

(* Every walk that has ended left the right verdict, no other left one. *)
Verdicts ==
  /\ \A s \in fsm.all \ (todo \cup {start}) :
       pc # "assert" => (CannotConverge(s) \in defects <=> ~ Converges(s))
  /\ \A s \in todo \cup {start} : s # NoState => CannotConverge(s) \notin defects

(* What the local checks found is not lost. *)
LocalDefects ==
  /\ pc # "assert" => check_state_space_non_empty \subseteq defects
  /\ pc # "assert" /\ fsm.all # {} =>
       check_graph_closed \cup check_terminals_sound \cup check_no_traps \subseteq defects

Progress ==
  /\ pc = "assert" => defects = {} /\ start = NoState
  /\ pc = "walk" => fsm.all # {}
  /\ pc = "done" => start = NoState /\ (fsm.all = {} \/ todo = {})
  /\ start # NoState => start \notin todo

IInv == TypeOK /\ Frontier /\ Verdicts /\ LocalDefects /\ Progress

(* The graph of a machine is closed under successors, by its type. *)
LEMMA ReachableClosed ==
  ASSUME ConvergentFsm(fsm), NEW s \in States(fsm)
  PROVE  /\ s \in Reachable(s)
         /\ Closed(Reachable(s))
         /\ \A C \in SUBSET States(fsm) : s \in C /\ Closed(C) => Reachable(s) \subseteq C
<1>1. s \in Reachable(s)
  BY DEF Reachable
<1>2. ASSUME NEW u \in Reachable(s) PROVE fsm.successors[u] \subseteq Reachable(s)
  <2>1. u \in States(fsm) /\ fsm.successors[u] \subseteq States(fsm)
    BY <1>2 DEF Reachable, ConvergentFsm
  <2>2. ASSUME NEW v \in fsm.successors[u], NEW C \in SUBSET States(fsm), s \in C, Closed(C)
        PROVE  v \in C
    BY <1>2, <2>2 DEF Reachable, Closed
  <2> QED BY <2>1, <2>2 DEF Reachable
<1>3. \A C \in SUBSET States(fsm) : s \in C /\ Closed(C) => Reachable(s) \subseteq C
  BY DEF Reachable
<1> QED BY <1>1, <1>2, <1>3 DEF Closed

(* The machine never changes, so neither does what it reaches. *)
LEMMA SameMachine ==
  ASSUME fsm' = fsm
  PROVE  /\ \A s : Reachable(s)' = Reachable(s) /\ (Converges(s)' <=> Converges(s))
         /\ check_graph_closed' = check_graph_closed
         /\ check_terminals_sound' = check_terminals_sound
         /\ check_no_traps' = check_no_traps
         /\ check_state_space_non_empty' = check_state_space_non_empty
BY DEF Reachable, Closed, Converges, States, check_graph_closed, check_terminals_sound,
       check_no_traps, check_state_space_non_empty

LEMMA InitOk == Init => IInv
BY FsmAssumption DEF Init, IInv, TypeOK, Frontier, Verdicts, LocalDefects, Progress, CannotConverge,
                     ConvergentFsm, States, DefectKind

LEMMA AssertOk == IInv /\ Assert => IInv'
<1> SUFFICES ASSUME IInv, Assert PROVE IInv'
  OBVIOUS
<1> USE DEF IInv
<1>1. fsm' = fsm /\ start' = NoState /\ start = NoState /\ todo' = fsm.all
      /\ seen' = seen /\ stack' = stack /\ ConvergentFsm(fsm) /\ NoState \notin fsm.all
  BY DEF Assert, Progress, TypeOK, ConvergentFsm
<1>2. \A s : CannotConverge(s) \notin defects'
  BY DEF Assert, check_state_space_non_empty, check_graph_closed, check_terminals_sound,
         check_no_traps, CannotConverge
<1>3. defects' \in SUBSET (DefectKind \X (States(fsm) \cup {NoState}))
  BY <1>1 DEF Assert, check_state_space_non_empty, check_graph_closed, check_terminals_sound,
              check_no_traps, DefectKind, ConvergentFsm
<1>4. TypeOK'
  BY <1>1, <1>3 DEF TypeOK, Assert, States, ConvergentFsm
<1>5. Frontier'
  BY <1>1 DEF Frontier
<1>6. Verdicts'
  BY <1>1, <1>2 DEF Verdicts
<1>7. LocalDefects'
  BY <1>1, SameMachine DEF LocalDefects, Assert, check_state_space_non_empty
<1>8. Progress'
  BY <1>1 DEF Progress, Assert
<1> QED BY <1>4, <1>5, <1>6, <1>7, <1>8

LEMMA StartWalkOk == IInv /\ StartWalk => IInv'
<1> SUFFICES ASSUME IInv, StartWalk PROVE IInv'
  OBVIOUS
<1> USE DEF IInv
<1>1. PICK s \in todo : start' = s /\ todo' = todo \ {s} /\ seen' = {} /\ stack' = {s}
  BY DEF StartWalk
<1>2. fsm' = fsm /\ pc' = pc /\ pc = "walk" /\ defects' = defects /\ start = NoState
  BY DEF StartWalk
<1>3. s \in States(fsm) /\ s \in fsm.all /\ s # NoState /\ ConvergentFsm(fsm)
  BY <1>1 DEF TypeOK, ConvergentFsm
<1>4. TypeOK'
  BY <1>1, <1>2, <1>3 DEF TypeOK, States, ConvergentFsm
<1>5. s \in Reachable(s)
  BY <1>3, ReachableClosed
<1>6. Frontier'
  BY <1>1, <1>2, <1>5, SameMachine DEF Frontier
<1>7. Verdicts'
  <2>1. todo' \cup {start'} = todo /\ NoState \notin fsm.all
    BY <1>1, <1>2, <1>3 DEF TypeOK, ConvergentFsm
  <2>2. fsm.all \ (todo' \cup {start'}) = fsm.all \ (todo \cup {start})
    BY <2>1, <1>2
  <2> QED BY <2>1, <2>2, <1>2, SameMachine DEF Verdicts
<1>8. LocalDefects'
  BY <1>2, SameMachine DEF LocalDefects
<1>9. Progress'
  BY <1>1, <1>2 DEF Progress
<1> QED BY <1>4, <1>6, <1>7, <1>8, <1>9

(* A walk that meets a resting state ends, without a defect: its start     *)
(* converges.  Any other step keeps the frontier.                          *)
LEMMA PopOk == IInv /\ Pop => IInv'
<1> SUFFICES ASSUME IInv, Pop PROVE IInv'
  OBVIOUS
<1> USE DEF IInv
<1>1. PICK s \in stack :
        /\ seen' = seen \cup {s}
        /\ \/ s \in seen /\ stack' = stack \ {s} /\ start' = start
           \/ /\ s \notin seen /\ s \in fsm.is_good_resting_state
              /\ stack' = {} /\ start' = NoState
           \/ /\ s \notin seen /\ s \notin fsm.is_good_resting_state
              /\ stack' = (stack \ {s}) \cup fsm.successors[s] /\ start' = start
  BY DEF Pop
<1>2. fsm' = fsm /\ pc' = pc /\ defects' = defects /\ todo' = todo
  BY DEF Pop
<1>3. start # NoState /\ start \in States(fsm) /\ ConvergentFsm(fsm) /\ s \in States(fsm)
      /\ pc = "walk"
  BY <1>1 DEF TypeOK, Progress, ConvergentFsm
<1>4. s \in Reachable(start) /\ fsm.successors[s] \subseteq Reachable(start)
  BY <1>1, <1>3, ReachableClosed DEF Frontier, Closed
<1>5. fsm.successors[s] \subseteq States(fsm)
  BY <1>3 DEF ConvergentFsm
<1>6. TypeOK'
  BY <1>1, <1>2, <1>3, <1>5 DEF TypeOK, States, ConvergentFsm
<1>7. Frontier'
  <2>1. start' # NoState => seen' \cup stack' \subseteq Reachable(start)
    BY <1>1, <1>3, <1>4 DEF Frontier
  <2>2. start' # NoState => \A u \in seen' : /\ u \notin fsm.is_good_resting_state
                                           /\ fsm.successors[u] \subseteq seen' \cup stack'
    BY <1>1, <1>3 DEF Frontier
  <2>3. start' # NoState => start' = start /\ start \in seen' \cup stack'
    BY <1>1, <1>3 DEF Frontier
  <2> QED BY <2>1, <2>2, <2>3, <1>2, SameMachine DEF Frontier
<1>8. Verdicts'
  <2>1. CASE start' = start
    BY <2>1, <1>2, SameMachine DEF Verdicts
  <2>2. CASE start' # start
    <3>1. start' = NoState /\ s \in fsm.is_good_resting_state
      BY <2>2, <1>1
    <3>2. Converges(start)
      BY <3>1, <1>4 DEF Converges
    <3>3. CannotConverge(start) \notin defects
      BY <1>3 DEF Verdicts
    <3>4. NoState \notin fsm.all /\ start \notin todo
      BY <1>3 DEF TypeOK, ConvergentFsm, Progress
    <3> QED BY <3>1, <3>2, <3>3, <3>4, <1>2, SameMachine DEF Verdicts
  <2> QED BY <2>1, <2>2
<1>9. LocalDefects'
  BY <1>2, SameMachine DEF LocalDefects
<1>10. Progress'
  BY <1>1, <1>2, <1>3 DEF Progress
<1> QED BY <1>6, <1>7, <1>8, <1>9, <1>10

(* An empty stack means that what was seen is closed, and so is all that   *)
(* can be reached; no resting state is among it.                           *)
LEMMA ExhaustedOk == IInv /\ Exhausted => IInv'
<1> SUFFICES ASSUME IInv, Exhausted PROVE IInv'
  OBVIOUS
<1> USE DEF IInv
<1>1. /\ fsm' = fsm /\ pc' = pc /\ todo' = todo /\ seen' = seen /\ stack' = stack
      /\ pc = "walk" /\ start # NoState /\ stack = {} /\ start' = NoState
      /\ defects' = defects \cup {CannotConverge(start)}
  BY DEF Exhausted, CannotConverge
<1>2. start \in fsm.all /\ start \in States(fsm) /\ ConvergentFsm(fsm) /\ start \notin todo
  BY <1>1 DEF TypeOK, ConvergentFsm, Progress
<1>3. seen \in SUBSET States(fsm) /\ start \in seen /\ Closed(seen)
  BY <1>1 DEF TypeOK, Frontier, Closed
<1>4. Reachable(start) \subseteq seen
  BY <1>2, <1>3, ReachableClosed
<1>5. ~ Converges(start)
  BY <1>1, <1>4 DEF Converges, Frontier
<1>6. TypeOK'
  BY <1>1, <1>2 DEF TypeOK, States, ConvergentFsm, CannotConverge, DefectKind
<1>7. Frontier'
  BY <1>1 DEF Frontier
<1>8. \A s : s # start => (CannotConverge(s) \in defects' <=> CannotConverge(s) \in defects)
  BY <1>1 DEF CannotConverge
<1>9. Verdicts'
  BY <1>1, <1>2, <1>5, <1>8, SameMachine DEF Verdicts
<1>10. LocalDefects'
  BY <1>1, SameMachine DEF LocalDefects
<1>11. Progress'
  BY <1>1 DEF Progress
<1> QED BY <1>6, <1>7, <1>9, <1>10, <1>11

LEMMA ReturnOk == IInv /\ Return => IInv'
<1> SUFFICES ASSUME IInv, Return PROVE IInv'
  OBVIOUS
<1> USE DEF IInv
<1>1. /\ fsm' = fsm /\ defects' = defects /\ todo' = todo /\ start' = start /\ seen' = seen
      /\ stack' = stack /\ pc = "walk" /\ pc' = "done" /\ start = NoState /\ todo = {}
  BY DEF Return
<1> QED BY <1>1, SameMachine DEF Return, TypeOK, Frontier, Verdicts, LocalDefects, Progress,
                              States, ConvergentFsm

LEMMA StutterOk == IInv /\ UNCHANGED vars => IInv'
<1> SUFFICES ASSUME IInv, UNCHANGED vars PROVE IInv'
  OBVIOUS
<1> QED BY SameMachine DEF vars, IInv, TypeOK, Frontier, Verdicts, LocalDefects, Progress,
                           States, ConvergentFsm

THEOREM Invariant == Spec => []IInv
<1>1. IInv /\ [Next]_vars => IInv'
  BY AssertOk, StartWalkOk, PopOk, ExhaustedOk, ReturnOk, StutterOk DEF Next
<1> QED BY InitOk, <1>1, PTL DEF Spec

-----------------------------------------------------------------------------
(* In any graph, finite or not, and for any order of successors, the walk  *)
(* that check_all_converge makes decides whether a good resting state can  *)
(* be reached.                                                             *)
THEOREM WalkDecides == Spec => []WalkExact
<1>1. IInv => WalkExact
  BY DEF IInv, WalkExact, Verdicts, Progress, CannotConverge, TypeOK, ConvergentFsm
<1> QED BY Invariant, <1>1, PTL

(* What Ok(()) promises: nothing reachable from all() is outside of it,    *)
(* stuck, or a dead end that is not a good terminal.                       *)
THEOREM OkIsAPromise == Spec => []OkIsConvergent
<1>1. ASSUME IInv, pc = "done", defects = {} PROVE fsm.all # {}
  BY <1>1 DEF IInv, LocalDefects, check_state_space_non_empty
<1>2. ASSUME IInv, pc = "done", defects = {}, NEW s \in fsm.all, NEW u \in Reachable(s)
      PROVE  u \in fsm.all /\ Converges(u) /\ (fsm.successors[u] = {} => u \in fsm.is_good_terminal)
  <2>1. ConvergentFsm(fsm) /\ fsm.all \in SUBSET States(fsm) /\ s \in States(fsm)
    BY <1>2 DEF IInv, TypeOK, ConvergentFsm
  <2>2. check_graph_closed = {} /\ check_terminals_sound = {} /\ fsm.all # {}
    BY <1>1, <1>2 DEF IInv, LocalDefects
  <2>3. Closed(fsm.all)
    BY <2>2 DEF Closed, check_graph_closed
  <2>4. u \in fsm.all
    BY <1>2, <2>1, <2>3, ReachableClosed
  <2>5. Converges(u)
    <3>1. start = NoState /\ todo = {} /\ u # NoState
      BY <1>2, <2>1, <2>2, <2>4 DEF IInv, Progress, TypeOK
    <3> QED BY <3>1, <1>2, <2>4 DEF IInv, Verdicts
  <2>6. u \in fsm.is_terminal <=> fsm.successors[u] = {}
    BY <2>2, <2>4 DEF check_terminals_sound
  <2>7. u \in fsm.is_terminal => u \in fsm.is_good_terminal
    BY <2>2, <2>4 DEF check_terminals_sound
  <2> QED BY <2>4, <2>5, <2>6, <2>7
<1>3. IInv => OkIsConvergent
  BY <1>1, <1>2 DEF OkIsConvergent
<1> QED BY Invariant, <1>3, PTL
-----------------------------------------------------------------------------
(* Defects name states of the machine, and a walk stays inside of it.      *)
THEOREM TypeCorrect == Spec => []TypeOK
<1>1. IInv => TypeOK
  BY DEF IInv
<1> QED BY Invariant, <1>1, PTL

(* The machine under test is one of those handed to the harness, and every *)
(* defect it is charged with is one of its own.                            *)
Charges ==
  /\ fsm \in Machines
  /\ defects \subseteq check_state_space_non_empty \cup check_graph_closed \cup check_terminals_sound
                        \cup check_no_traps \cup {CannotConverge(s) : s \in fsm.all}

LEMMA ChargesHold == Spec => []Charges
<1>1. Init => Charges
  BY DEF Init, Charges
<1>2. IInv /\ Charges /\ [Next]_vars => Charges'
  <2> SUFFICES ASSUME IInv, Charges, [Next]_vars PROVE Charges'
    OBVIOUS
  <2>1. fsm' = fsm
    BY DEF Next, Assert, StartWalk, Pop, Exhausted, Return, vars
  <2>2. CASE Assert
    BY <2>1, <2>2, SameMachine DEF Assert, Charges
  <2>3. CASE StartWalk \/ Pop \/ Return \/ UNCHANGED vars
    <3>1. defects' = defects
      BY <2>3 DEF StartWalk, Pop, Return, vars
    <3> QED BY <2>1, <3>1, SameMachine DEF Charges
  <2>4. CASE Exhausted
    <3>1. start \in fsm.all
      BY <2>4 DEF Exhausted, IInv, TypeOK
    <3> QED BY <2>1, <2>4, <3>1, SameMachine DEF Exhausted, Charges, CannotConverge
  <2> QED BY <2>2, <2>3, <2>4 DEF Next
<1> QED BY <1>1, <1>2, Invariant, PTL DEF Spec

(* The way of a job to its success. *)
LEMMA LifecycleEdges ==
  /\ States(Lifecycle) = JobPhase
  /\ \A p \in JobPhase : Lifecycle.successors[p] = PhaseSuccessors(p)
  /\ "Ready" \in PhaseSuccessors("Pending") /\ "Ready" \in PhaseSuccessors("Gated")
  /\ "Running" \in PhaseSuccessors("Ready") /\ "Succeeded" \in PhaseSuccessors("Running")
  /\ "Retrying" \in PhaseSuccessors("Failed") /\ "Pending" \in PhaseSuccessors("Retrying")
  /\ "Ready" \in PhaseSuccessors("WaitingForOperator")
  /\ "Pending" \in PhaseSuccessors("Deadlettered")
  /\ PhaseSuccessors("Succeeded") = {} /\ PhaseSuccessors("Skipped") = {}
<1>1. States(Lifecycle) = JobPhase
      /\ \A p \in JobPhase : Lifecycle.successors[p] = PhaseSuccessors(p)
  BY DEF States, Lifecycle
<1>2. {"AllPassed", "AllocateBudget", "ExecutionSucceeded", "RetryDecideRetry", "BackoffElapsed",
       "OperatorReady", "OperatorPending"} \subseteq Signal
  BY DEF Signal, TickSignal, OperatorSignal, GateAggregate
<1>3. /\ advance("Pending", "AllPassed") = "Ready" /\ advance("Gated", "AllPassed") = "Ready"
      /\ advance("Ready", "AllocateBudget") = "Running"
      /\ advance("Running", "ExecutionSucceeded") = "Succeeded"
  BY DEF advance, Regatable
<1>4. /\ advance("Failed", "RetryDecideRetry") = "Retrying"
      /\ advance("Retrying", "BackoffElapsed") = "Pending"
      /\ advance("WaitingForOperator", "OperatorReady") = "Ready"
      /\ advance("Deadlettered", "OperatorPending") = "Pending"
  BY DEF advance, Regatable
<1>5. \A s \in Signal : /\ advance("Succeeded", s) = IllegalTransition
                       /\ advance("Skipped", s) = IllegalTransition
  BY DEF advance, Regatable
<1> QED BY <1>1, <1>2, <1>3, <1>4, <1>5 DEF PhaseSuccessors, IllegalTransition

LEMMA LifecycleReaches ==
  ASSUME fsm = Lifecycle, NEW p \in JobPhase
  PROVE  Converges(p)
<1>1. "Succeeded" \in JobPhase /\ "Skipped" \in JobPhase /\ "Pending" \in JobPhase
      /\ "Ready" \in JobPhase /\ "Running" \in JobPhase /\ "Retrying" \in JobPhase
      /\ fsm.is_good_resting_state = {"Succeeded", "Skipped"}
  BY DEF JobPhase, Lifecycle
<1>2. CASE p = "Skipped"
  BY <1>1, <1>2, LifecycleEdges DEF Converges, Reachable
<1>3. CASE p # "Skipped"
  <2>1. ASSUME NEW C \in SUBSET JobPhase, p \in C, Closed(C) PROVE "Succeeded" \in C
    <3>1. \A q \in C : PhaseSuccessors(q) \subseteq C
      BY <2>1, LifecycleEdges DEF Closed
    <3> QED BY <1>3, <2>1, <3>1, LifecycleEdges DEF JobPhase
  <2>2. "Succeeded" \in Reachable(p)
    BY <1>1, <2>1, LifecycleEdges DEF Reachable
  <2> QED BY <1>1, <2>2 DEF Converges
<1> QED BY <1>2, <1>3

LEMMA LifecycleSound ==
  ASSUME fsm = Lifecycle
  PROVE  /\ check_state_space_non_empty = {} /\ check_graph_closed = {}
         /\ check_terminals_sound = {} /\ check_no_traps = {}
<1>1. /\ fsm.all = JobPhase /\ JobPhase # {}
      /\ fsm.is_terminal = {p \in JobPhase : PhaseSuccessors(p) = {}}
      /\ fsm.is_good_terminal = {"Succeeded", "Skipped"}
      /\ \A p \in JobPhase : fsm.successors[p] = PhaseSuccessors(p)
  BY LifecycleEdges DEF Lifecycle, JobPhase
<1>2. \A p \in JobPhase : PhaseSuccessors(p) \subseteq JobPhase
  <2> SUFFICES ASSUME NEW p \in JobPhase, NEW s \in Signal, advance(p, s) # IllegalTransition
               PROVE  advance(p, s) \in JobPhase
    BY DEF PhaseSuccessors
  <2> QED BY DEF advance, JobPhase
<1>3. \A p \in JobPhase : PhaseSuccessors(p) = {} => p \in {"Succeeded", "Skipped"}
  BY LifecycleEdges DEF JobPhase
<1>4. check_graph_closed = {} /\ check_state_space_non_empty = {} /\ check_no_traps = {}
  BY <1>1, <1>2 DEF check_graph_closed, check_state_space_non_empty, check_no_traps
<1>5. check_terminals_sound = {}
  BY <1>1, <1>3 DEF check_terminals_sound
<1> QED BY <1>4, <1>5

(* The lifecycle this repository ships passes its own harness, whatever    *)
(* other machines are looked at and in whatever order the walks go         *)
(* (JobPhase::advance, assert_convergent_fsm).                             *)
THEOREM LifecyclePasses ==
  ASSUME \A m \in Machines : m.all = JobPhase => m = Lifecycle
  PROVE  Spec => []LifecycleConverges
<1>1. IInv /\ Charges /\ WalkExact => LifecycleConverges
  <2> SUFFICES ASSUME IInv, Charges, WalkExact, pc = "done", fsm.all = JobPhase
               PROVE  defects = {}
    BY DEF LifecycleConverges
  <2>1. fsm = Lifecycle
    BY DEF Charges
  <2>2. \A s \in fsm.all : CannotConverge(s) \notin defects
    BY <2>1, LifecycleReaches DEF WalkExact, CannotConverge
  <2> QED BY <2>1, <2>2, LifecycleSound DEF Charges
<1> QED BY <1>1, Invariant, ChargesHold, WalkDecides, PTL
=============================================================================
