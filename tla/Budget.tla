------------------------------- MODULE Budget -------------------------------
(***************************************************************************)
(* shigoto-budget: the three-dimension envelope.  A dimension is one       *)
(* counter with its cap: the global one, one per job kind, one per scope.  *)
(* EnvelopesOf[j] are the three counters job j is charged to; a kind or    *)
(* scope without a BudgetSpec has cap Unbounded.  The counters are u32 in  *)
(* the code and are bounded here by the number of slots taken, so their    *)
(* width is never reached.                                                 *)
(***************************************************************************)
EXTENDS Integers

CONSTANTS
  Jobs,          \* the JobIds of the Dag
  Envelopes,     \* the budget counters: global, by kind, by scope
  EnvelopesOf,   \* the counters a job is charged to
  Cap,           \* max_concurrent of a counter, or Unbounded
  Unbounded      \* an absent BudgetSpec

ASSUME BudgetAssumption ==
  /\ Unbounded \notin Nat
  /\ EnvelopesOf \in [Jobs -> SUBSET Envelopes]
  /\ Cap \in [Envelopes -> Nat \cup {Unbounded}]

(* Mutant: one job more than the cap. *)
HasSlackOrFull(running, e) == Cap[e] # Unbounded => running[e] <= Cap[e]

HasSlack(running, e) == Cap[e] # Unbounded => running[e] < Cap[e]

(* Every applicable dimension is checked before any counter moves. *)
CanAllocate(running, j) == \A e \in EnvelopesOf[j] : HasSlack(running, e)

(* Mutant: only the bounded dimensions are counted. *)
try_allocate_bounded(running, j) ==
  [e \in Envelopes |->
     running[e] + (IF e \in EnvelopesOf[j] /\ Cap[e] # Unbounded THEN 1 ELSE 0)]

try_allocate(running, j) ==
  [e \in Envelopes |-> running[e] + (IF e \in EnvelopesOf[j] THEN 1 ELSE 0)]

(* Mutants: nothing is released; every dimension is, without saturation. *)
release_nothing(running, j) == running
release_everywhere(running, j) == [e \in Envelopes |-> running[e] - 1]

(* saturating_sub: a release of what was never taken leaves 0. *)
release(running, j) ==
  [e \in Envelopes |->
     IF e \in EnvelopesOf[j] /\ running[e] > 0 THEN running[e] - 1 ELSE running[e]]
=============================================================================
