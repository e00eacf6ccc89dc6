------------------------------ MODULE Policies ------------------------------
(***************************************************************************)
(* shigoto-types' policy.rs and decision.rs: layered settings, the law     *)
(* harness of testing.rs for them, and the pool decision.                  *)
(***************************************************************************)
EXTENDS Integers, Sequences, SequencesExt

CONSTANTS
  Unset,     \* a field that a layer leaves alone
  NoLayer    \* a layer slot without a layer

(* Mutant: the outermost layer wins. *)
merge_outermost(self, layer) ==
  [f \in DOMAIN self |-> IF self[f] # Unset THEN self[f] ELSE layer[f]]

(* CascadePolicy::merge, as the per-field `if let Some(v)' of its docs. *)
merge(self, layer) == [f \in DOMAIN self |-> IF layer[f] # Unset THEN layer[f] ELSE self[f]]

merge_slot(self, slot) == IF slot = NoLayer THEN self ELSE merge(self, slot)

resolve(layers, default) == FoldLeft(merge_slot, default, layers)

(* testing.rs: the laws assert_cascade_laws_with_default checks over some  *)
(* sample layers.                                                          *)
ResolveIdentity(default) == resolve(<<>>, default) = default
MergeIdempotent(default, l) == merge(merge(default, l), l) = merge(default, l)
MergeSelfIdentity(l) == merge(l, l) = l
FoldOrder(default, layers) == resolve(layers, default) = FoldLeft(merge, default, layers)
EmptyLayer(default) == resolve(<<[f \in DOMAIN default |-> Unset]>>, default) = default

assert_cascade_laws(default, layers) ==
  /\ ResolveIdentity(default)
  /\ \A l \in ToSet(layers) : MergeIdempotent(default, l) /\ MergeSelfIdentity(l)
  /\ FoldOrder(default, layers)

assert_cascade_laws_with_default(default, layers) ==
  assert_cascade_laws(default, layers) /\ EmptyLayer(default)

-----------------------------------------------------------------------------
(* PoolDecisionDemo *)

NoOpDecision == [kind |-> "NoOp", count |-> 0]
Spawn(n) == [kind |-> "Spawn", count |-> n]
ReapExcess(n) == [kind |-> "ReapExcess", count |-> n]

(* Ord::clamp, for min <= max: it panics otherwise. *)
clamp(n, min, max) == IF n < min THEN min ELSE IF n > max THEN max ELSE n

(* Mutants: the desired size is not clamped; as many are spawned as are    *)
(* desired.                                                                *)
Resize_unclamped(ctx) ==
  CASE ctx.current_members < ctx.desired_size -> Spawn(ctx.desired_size - ctx.current_members)
    [] ctx.current_members > ctx.desired_size -> ReapExcess(ctx.current_members - ctx.desired_size)
    [] OTHER -> NoOpDecision
Resize_to_desired(ctx) ==
  LET desired == clamp(ctx.desired_size, ctx.min_size, ctx.max_size)
  IN  CASE ctx.current_members < desired -> Spawn(desired)
        [] ctx.current_members > desired -> ReapExcess(ctx.current_members - desired)
        [] OTHER -> NoOpDecision

Resize(ctx) ==
  LET desired == clamp(ctx.desired_size, ctx.min_size, ctx.max_size)
  IN  CASE ctx.current_members < desired -> Spawn(desired - ctx.current_members)
        [] ctx.current_members > desired -> ReapExcess(ctx.current_members - desired)
        [] OTHER -> NoOpDecision

(* now - last_scaled_at may be negative after the clock was set back: that *)
(* is a running cooldown, too.                                             *)
decide(ctx) ==
  IF ctx.now - ctx.last_scaled_at < ctx.cooldown_secs THEN NoOpDecision ELSE Resize(ctx)
=============================================================================
