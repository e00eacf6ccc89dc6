--------------------------- MODULE ConvergentFsm ----------------------------
(***************************************************************************)
(* shigoto-fsm: the harness that decides whether a consumer's lifecycle    *)
(* converges.  A run starts with any of the Machines, a consumer's         *)
(* implementation of the trait, makes the checks in the order of           *)
(* assert_convergent_fsm and walks the graph from every state in all().    *)
(* The order of a Vec of successors is the consumer's, so the stack of the *)
(* walk is the set of states on it and any of them may be on top.          *)
(***************************************************************************)
EXTENDS FiniteSets

CONSTANTS
  Machines,   \* the implementations of the trait that are looked at
  NoState

(* The consumer's type: every value that has successors, listed by all()   *)
(* or not.                                                                 *)
States(m) == DOMAIN m.successors

(* The accessors; a predicate on states is the set where it is true. *)
ConvergentFsm(m) ==
  /\ m.successors \in [States(m) -> SUBSET States(m)]
  /\ m.all \subseteq States(m)
  /\ m.is_terminal \subseteq States(m)
  /\ m.is_good_terminal \subseteq States(m)
  /\ m.is_good_resting_state \subseteq States(m)

ASSUME FsmAssumption == \A m \in Machines : ConvergentFsm(m) /\ NoState \notin States(m)

DefectKind == {"EmptyStateSpace", "DanglingEdge", "TerminalMismatch", "BadTerminalSink",
               "DeadEndTrap", "CannotConverge"}

VARIABLES
  fsm,       \* the machine under test
  pc,        \* "assert", "walk" or "done"
  defects,   \* the kind and the state of every defect found so far
  todo,      \* the states whose walk is still to come
  start,     \* where the walk under way began
  seen, stack

vars == <<fsm, pc, defects, todo, start, seen, stack>>

TypeOK ==
  /\ ConvergentFsm(fsm) /\ NoState \notin States(fsm)
  /\ pc \in {"assert", "walk", "done"}
  /\ defects \in SUBSET (DefectKind \X (States(fsm) \cup {NoState}))
  /\ todo \subseteq fsm.all
  /\ start \in fsm.all \cup {NoState}
  /\ seen \subseteq States(fsm) /\ stack \subseteq States(fsm)
  /\ start = NoState => stack = {}

Init ==
  /\ fsm \in Machines
  /\ pc = "assert"
  /\ defects = {} /\ todo = {} /\ start = NoState
  /\ seen = {} /\ stack = {}

check_state_space_non_empty == IF fsm.all = {} THEN {<<"EmptyStateSpace", NoState>>} ELSE {}

check_graph_closed ==
  {<<"DanglingEdge", s>> : s \in {u \in fsm.all : ~ fsm.successors[u] \subseteq fsm.all}}

(* Mutant: only a terminal with edges is reported, not one that hides. *)
terminals_with_edges ==
  LET Mismatch == {u \in fsm.all : u \in fsm.is_terminal /\ fsm.successors[u] # {}}
  IN  {<<"TerminalMismatch", s>> : s \in Mismatch}

check_terminals_sound ==
  LET Mismatch == {u \in fsm.all : (u \in fsm.is_terminal) # (fsm.successors[u] = {})}
      BadSink == (fsm.all \cap fsm.is_terminal) \ fsm.is_good_terminal
  IN  {<<"TerminalMismatch", s>> : s \in Mismatch} \cup {<<"BadTerminalSink", s>> : s \in BadSink}

check_no_traps ==
  {<<"DeadEndTrap", s>> : s \in {u \in fsm.all \ fsm.is_terminal : fsm.successors[u] = {}}}

(* An empty state space ends the run; otherwise the local checks are made  *)
(* and check_all_converge begins.                                          *)
Assert ==
  /\ pc = "assert"
  /\ IF fsm.all = {}
       THEN /\ defects' = check_state_space_non_empty
            /\ pc' = "done"
       ELSE /\ defects' = check_graph_closed \cup check_terminals_sound \cup check_no_traps
            /\ pc' = "walk"
  /\ todo' = fsm.all
  /\ UNCHANGED <<fsm, start, seen, stack>>

(* for &start in all(): reaches_good_terminal(start) *)
StartWalk ==
  /\ pc = "walk" /\ start = NoState
  /\ \E s \in todo :
       /\ start' = s
       /\ todo' = todo \ {s}
       /\ seen' = {} /\ stack' = {s}
  /\ UNCHANGED <<fsm, pc, defects>>

(* Mutants: the walk does not look at what it has seen, and a cycle keeps  *)
(* it going; the start itself does not count as a resting state.           *)
PopForever ==
  \E s \in stack :
    /\ seen' = seen \cup {s}
    /\ IF s \in fsm.is_good_resting_state
         THEN stack' = {} /\ start' = NoState
         ELSE stack' = (stack \ {s}) \cup fsm.successors[s] /\ start' = start
    /\ UNCHANGED <<fsm, pc, defects, todo>>

PopAfterStart ==
  \E s \in stack :
    /\ seen' = seen \cup {s}
    /\ IF s # start /\ s \in fsm.is_good_resting_state
         THEN stack' = {} /\ start' = NoState
         ELSE stack' = (stack \ {s}) \cup (IF s \in seen THEN {} ELSE fsm.successors[s]) /\ start' = start
    /\ UNCHANGED <<fsm, pc, defects, todo>>

(* One turn of the loop: the state on top is dropped if it was seen, ends  *)
(* the walk if it is a good resting state, and makes way for its           *)
(* successors otherwise.                                                   *)
Pop ==
  \E s \in stack :
    /\ seen' = seen \cup {s}
    /\ \/ /\ s \in seen
          /\ stack' = stack \ {s} /\ start' = start
       \/ /\ s \notin seen /\ s \in fsm.is_good_resting_state
          /\ stack' = {} /\ start' = NoState
       \/ /\ s \notin seen /\ s \notin fsm.is_good_resting_state
          /\ stack' = (stack \ {s}) \cup fsm.successors[s] /\ start' = start
    /\ UNCHANGED <<fsm, pc, defects, todo>>

(* Mutant: the loop is left at a state that was seen: `break' for `continue'. *)
ExhaustedAtSeen ==
  /\ pc = "walk" /\ start # NoState
  /\ stack = {} \/ stack \cap seen # {}
  /\ defects' = defects \cup {<<"CannotConverge", start>>}
  /\ start' = NoState
  /\ UNCHANGED <<fsm, pc, todo, seen, stack>>

(* The stack is empty and no resting state was met. *)
Exhausted ==
  /\ pc = "walk" /\ start # NoState /\ stack = {}
  /\ defects' = defects \cup {<<"CannotConverge", start>>}
  /\ start' = NoState
  /\ UNCHANGED <<fsm, pc, todo, seen, stack>>

(* Ok(()) when there are no defects, else Err with all of them. *)
Return ==
  /\ pc = "walk" /\ start = NoState /\ todo = {}
  /\ pc' = "done"
  /\ UNCHANGED <<fsm, defects, todo, start, seen, stack>>

Next == Assert \/ StartWalk \/ Pop \/ Exhausted \/ Return

(* The harness is one sequential call. *)
Spec == Init /\ [][Next]_vars /\ WF_vars(Next)

-----------------------------------------------------------------------------
(* Properties *)

Closed(S) == \A s \in S : fsm.successors[s] \subseteq S

(* The states that can be reached from s: those no closed set with s omits. *)
Reachable(s) == {u \in States(fsm) : \A C \in SUBSET States(fsm) : s \in C /\ Closed(C) => u \in C}

Converges(s) == Reachable(s) \cap fsm.is_good_resting_state # {}

(* Whatever order the states come in and however the graph loops, the walk *)
(* reports exactly the states that cannot reach a good resting state.      *)
WalkExact ==
  pc = "done" => \A s \in fsm.all : <<"CannotConverge", s>> \in defects <=> ~ Converges(s)

(* Ok(()) is the claim of the crate: all() is not empty, and whatever is   *)
(* reachable from it is in it, converges, and is a good terminal if no     *)
(* edge leaves it.                                                         *)
OkIsConvergent ==
  pc = "done" /\ defects = {} =>
    /\ fsm.all # {}
    /\ \A s \in fsm.all : \A u \in Reachable(s) :
         /\ u \in fsm.all
         /\ Converges(u)
         /\ fsm.successors[u] = {} => u \in fsm.is_good_terminal

(* The walks come to an end also in graphs with cycles. *)
Terminates == <>(pc = "done")
=============================================================================
