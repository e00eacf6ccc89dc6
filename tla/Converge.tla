------------------------------ MODULE Converge ------------------------------
(***************************************************************************)
(* shigoto-types' converge.rs: the data that crosses a Reconciler's        *)
(* border.  A plan's changes are a set: nothing in converge.rs depends on  *)
(* their order.  The JSON before and after a change travels with its       *)
(* address, and the times of a plan and an outcome are left out, as        *)
(* derive_id leaves out created_at.                                        *)
(***************************************************************************)

Action == {"Create", "Update", "Delete", "Replace", "NoOp"}
ChangeSeverity == {"Cosmetic", "Functional", "Critical"}

change_with_severity(address, action, severity) ==
  [address |-> address, action |-> action, severity |-> severity]

DefaultSeverity ==
  [action \in Action |-> CASE action \in {"Create", "Update"} -> "Functional"
                           [] action \in {"Delete", "Replace"} -> "Critical"
                           [] action = "NoOp" -> "Cosmetic"]

change(address, action) == change_with_severity(address, action, DefaultSeverity[action])

(* A hash without collisions is its argument. *)
derive_id(kind, changes) == <<kind, changes>>

Plan(kind, changes) == [id |-> derive_id(kind, changes), kind |-> kind, changes |-> changes]

(* The changes that change_count() counts; is_noop() says there are none.  *)
effective(plan) == {c \in plan.changes : c.action # "NoOp"}
is_noop(plan) == effective(plan) = {}

AppliedChange(c) == [address |-> c.address, action |-> c.action]
FailedChange(c, error) == [address |-> c.address, action |-> c.action, error |-> error]

build_outcome(plan, applied, failed) ==
  [plan_id |-> plan.id, kind |-> plan.kind, applied |-> applied, failed |-> failed]

fully_succeeded(outcome) == outcome.failed = {}
=============================================================================
