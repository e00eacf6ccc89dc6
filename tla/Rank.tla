-------------------------------- MODULE Rank --------------------------------
(***************************************************************************)
(* shigoto-rank: the order in which waiting units are served, and rounds   *)
(* of a consumer that serves them.  A round dispatches what `pick' returns *)
(* and keeps the fairness deficit the trait asks for: the number of rounds *)
(* a unit has been passed over.  Between rounds units drift, fall behind,  *)
(* go into backoff and come back.                                          *)
(***************************************************************************)
EXTENDS Naturals, FiniteSets

CONSTANTS
  Units,           \* sched_id; ids are ordered, so they are numbers
  ClassOf,         \* of every unit, its PriorityClass
  Slots,           \* how many units a round dispatches
  Weights,         \* one of UrgencyWeights
  MaxStaleness, MaxDrift,  \* the largest values a unit reports
  MaxBacklog,      \* the largest urgency a unit has without a deficit
  MaxDeficit,      \* where the counter of a unit stops
  U64Max

(* The hard tiers; the lower discriminant goes first. *)
PriorityClass == [Critical |-> 0, High |-> 1, Normal |-> 2, Low |-> 3]

UrgencyWeights == [staleness : Nat, behind_target : Nat, drift : Nat, fairness_deficit : Nat]

ASSUME RankAssumption ==
  /\ Units \subseteq Nat /\ IsFiniteSet(Units)
  /\ ClassOf \in [Units -> DOMAIN PriorityClass]
  /\ Slots \in Nat \ {0}
  /\ Weights \in UrgencyWeights /\ Weights.fairness_deficit > 0
  /\ MaxStaleness \in [Units -> Nat] /\ MaxDrift \in [Units -> Nat]
  /\ MaxBacklog \in Nat /\ MaxDeficit \in Nat /\ U64Max \in Nat
  /\ \A u \in Units : MaxStaleness[u] * Weights.staleness + Weights.behind_target
                        + MaxDrift[u] * Weights.drift <= MaxBacklog

VARIABLES
  staleness, behind, drift,  \* what a unit has to catch up with
  deficit,                   \* the rounds it has been passed over
  eligible                   \* the units that may run now

vars == <<staleness, behind, drift, deficit, eligible>>

Saturated(n) == IF n > U64Max THEN U64Max ELSE n

(* Staleness, being behind, and drift: saturating_mul and saturating_add. *)
Backlog(u) ==
  LET w == Weights
      stale == Saturated(staleness[u] * w.staleness)
      late == IF behind[u] THEN Saturated(stale + w.behind_target) ELSE stale
  IN  Saturated(late + Saturated(drift[u] * w.drift))

(* Mutant: the deficit does not count. *)
urgency_of_backlog(u) == Backlog(u)

urgency(u) == Saturated(Backlog(u) + Saturated(deficit[u] * Weights.fairness_deficit))

Tier(u) == PriorityClass[ClassOf[u]]

(* The order of the keys (class, Reverse(urgency), id). *)
rank_key_less(u, v) ==
  \/ Tier(u) < Tier(v)
  \/ Tier(u) = Tier(v) /\ urgency(u) > urgency(v)
  \/ Tier(u) = Tier(v) /\ urgency(u) = urgency(v) /\ u < v

(* rank() sorts the eligible units; pick() keeps the first Slots of them. *)
pick == {u \in eligible : Cardinality({v \in eligible : rank_key_less(v, u)}) < Slots}

PassedOver(d) == IF d = MaxDeficit THEN d ELSE d + 1

Init ==
  /\ staleness = [u \in Units |-> 0] /\ behind = [u \in Units |-> FALSE]
  /\ drift = [u \in Units |-> 0] /\ deficit = [u \in Units |-> 0]
  /\ eligible \in SUBSET Units

(* One round: the picked units run and reach their goal, the eligible      *)
(* others have been passed over once more.                                 *)
Round ==
  /\ eligible # {}
  /\ LET picked == pick
     IN  /\ staleness' = [u \in Units |-> IF u \in picked THEN 0 ELSE staleness[u]]
         /\ behind' = [u \in Units |-> behind[u] /\ u \notin picked]
         /\ drift' = [u \in Units |-> IF u \in picked THEN 0 ELSE drift[u]]
         /\ deficit' = [u \in Units |-> CASE u \in picked -> 0
                                          [] u \in eligible \ picked -> PassedOver(deficit[u])
                                          [] OTHER -> deficit[u]]
  /\ UNCHANGED eligible

(* The world moves: what the accessors of a unit answer changes. *)
Observe(u) ==
  /\ \E n \in 0..MaxStaleness[u] : staleness' = [staleness EXCEPT ![u] = n]
  /\ \E b \in BOOLEAN : behind' = [behind EXCEPT ![u] = b]
  /\ \E n \in 0..MaxDrift[u] : drift' = [drift EXCEPT ![u] = n]
  /\ UNCHANGED <<deficit, eligible>>

(* A unit goes into backoff, or its dependencies are met again. *)
ToggleEligible(u) ==
  /\ eligible' = (eligible \ {u}) \cup ({u} \ eligible)
  /\ UNCHANGED <<staleness, behind, drift, deficit>>

Next == Round \/ \E u \in Units : Observe(u) \/ ToggleEligible(u)

Spec == Init /\ [][Next]_vars

-----------------------------------------------------------------------------
(* Properties *)

TopTier == {u \in Units : \A v \in Units : Tier(u) <= Tier(v)}

(* The deficit that outweighs any backlog. *)
Patience == (MaxBacklog \div Weights.fairness_deficit) + 1

(* "A unit that keeps losing accrues deficit until it wins": in the highest *)
(* tier, no unit is passed over more often than a deficit takes to outweigh *)
(* a backlog, for each of its peers, however they drift, back off and       *)
(* return.                                                                  *)
BoundedWait == \A u \in TopTier : deficit[u] <= Patience * (Cardinality(TopTier) - 1)
=============================================================================
