----------------------------- MODULE MCReconcile ----------------------------
(***************************************************************************)
(* Instances of Reconcile for TLC: a pool of at most two of three          *)
(* addresses, two alternative settings, two errors.                        *)
(***************************************************************************)
EXTENDS Reconcile

CONSTANTS throttled, denied, pager

MCDefaults == [min_size |-> 1, max_size |-> 2, desired_size |-> 1, cooldown_secs |-> 0]
MCUnset == [f \in DOMAIN MCDefaults |-> Unset]

(* The fleet asks for three at once, the pool itself for one and a         *)
(* cooldown; the last choice leaves a slot empty.                          *)
Fleet == [MCUnset EXCEPT !.desired_size = 3, !.cooldown_secs = 0]
Pool == [MCUnset EXCEPT !.desired_size = 1, !.cooldown_secs = 1]
MCLayerChoices == {<<Fleet, Pool>>, <<Fleet, NoLayer>>}

(* `denied' is declarative; `throttled' is an own rule in front of it.     *)
MCClassify ==
  ChainedClassifier(with_rule(Chain(FailureClassifier), phrase_rule(throttled, "Transient")))

(* The lowest n addresses. *)
MCPicks(S, n) ==
  {F \in SUBSET S : Cardinality(F) = n /\ \A a \in F, b \in S \ F : a < b}

MCRetryWith == Fixed(2, 1)

MCRules == <<WatchRule("Retrying", 2, Suspend), WatchRule("Running", 1, Alert({pager})),
             WatchRule("Deadlettered", 1, Page({pager})),
             WatchRule("Deadlettered", 0, Alert({pager}))>>

(* The laws of the settings; a window is open or closed once it has begun. *)
ASSUME MCAssumption ==
  /\ \A choice \in MCLayerChoices :
       assert_cascade_laws_with_default(MCDefaults, SelectSeq(choice, LAMBDA l : l # NoLayer))
  /\ \A since \in 0 .. MaxAge : is_in_window(Window, since) # is_window_closed(Window, since)
=============================================================================
