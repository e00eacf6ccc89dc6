-------------------------------- MODULE Watch -------------------------------
(***************************************************************************)
(* shigoto-types' watch.rs: TimeoutWatcher and ScheduleWindow.  Only       *)
(* differences of times matter, so a time is given as what has passed      *)
(* since, which is negative when the clock was set back.                   *)
(***************************************************************************)
EXTENDS Integers, Sequences, FiniteSetsExt

CONSTANT Routes      \* where an escalation can be sent

(* EscalationRouting: the routes that are configured. *)
EscalationRouting == SUBSET Routes
is_empty(routing) == routing = {}

(* WatchAction; Suspend carries no routing. *)
Alert(routing) == [kind |-> "Alert", routing |-> routing]
Page(routing) == [kind |-> "Page", routing |-> routing]
Suspend == [kind |-> "Suspend", routing |-> {}]
NoWatchAction == [kind |-> "None", routing |-> {}]

WatchRule(state, threshold, action) ==
  [state |-> state, threshold |-> threshold, action |-> action]

(* A clock that was set back counts as no time at all. *)
elapsed_nonneg(delta) == IF delta < 0 THEN 0 ELSE delta

Fires(rule, state, delta) == rule.state = state /\ elapsed_nonneg(delta) >= rule.threshold

(* TimeoutWatcher::evaluate: the first rule, in declared order, that fires. *)
escalation(rules, state, delta) ==
  LET firing == {i \in DOMAIN rules : Fires(rules[i], state, delta)}
  IN  IF firing = {} THEN NoWatchAction ELSE rules[Min(firing)].action

-----------------------------------------------------------------------------
(* since is the time that passed since scheduled_at; both ends belong to   *)
(* the window.                                                             *)
is_in_window(window, since) == since >= 0 /\ since <= window
is_window_closed(window, since) == since >= 0 /\ since > window
=============================================================================
