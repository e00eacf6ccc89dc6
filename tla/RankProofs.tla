------------------------------ MODULE RankProofs ------------------------------
(***************************************************************************)
(* How long a unit of the highest tier waits, for any number of units and  *)
(* slots, any weights and any backlog: `BoundedWait' of Rank.              *)
(***************************************************************************)
EXTENDS Rank, FiniteSetTheorems, WellFoundedInduction, TLAPS

(* What the accessors of a unit answer stays within its largest values. *)
TypeInv ==
  /\ staleness \in [Units -> Nat]
  /\ \A u \in Units : staleness[u] <= MaxStaleness[u]
  /\ behind \in [Units -> BOOLEAN]
  /\ drift \in [Units -> Nat]
  /\ \A u \in Units : drift[u] <= MaxDrift[u]
  /\ deficit \in [Units -> Nat]
  /\ eligible \subseteq Units

(* The wait of a set of n units of the highest tier: its least deficit. *)
WaitOf(n) == Patience * (Cardinality(TopTier) - n)

(* The larger a set of top units, the better off is the best of them: of a *)
(* set that is passed over some unit outside it was picked, and with that  *)
(* unit the set is one larger.  A bound on every unit alone is not         *)
(* inductive: two units that wait together must not both be near it.       *)
WaitInv ==
  \A S \in SUBSET TopTier :
    S # {} => \E u \in S : deficit[u] <= WaitOf(Cardinality(S))

(* Sixty-four bits hold a full backlog on top of the longest wait, so that *)
(* no saturating_mul or saturating_add makes two such units look alike.    *)
UrgencyFits ==
  MaxBacklog + Weights.fairness_deficit * WaitOf(1) <= U64Max

-----------------------------------------------------------------------------
(* Arithmetic *)

(* A larger factor, a larger product. *)
LEMMA TimesMonotone ==
  ASSUME NEW a \in Nat, NEW b \in Int, NEW c \in Int, b <= c
  PROVE  a * b <= a * c
<1>1. c - b \in Nat
  OBVIOUS
<1>2. a * (c - b) >= 0
  BY <1>1
<1>3. a * (c - b) = a * c - a * b
  OBVIOUS
<1> QED
  BY <1>2, <1>3

(* A deficit outweighs a backlog of b at most b \div c times. *)
LEMMA DeficitOutweighs ==
  ASSUME NEW c \in Nat \ {0}, NEW b \in Nat, NEW d \in Nat, NEW e \in Nat,
         c * d <= b + c * e
  PROVE  d <= e + (b \div c)
<1> DEFINE q == b \div c
<1>1. q \in Nat /\ b < c * q + c
  OBVIOUS
<1>2. SUFFICES ASSUME d >= e + q + 1 PROVE FALSE
  BY <1>1
<1> HIDE DEF q
<1>3. c * d >= c * (e + q + 1)
  BY <1>1, <1>2, TimesMonotone
<1>4. c * (e + q + 1) = c * e + c * q + c
  BY <1>1
<1> QED
  BY <1>1, <1>3, <1>4

-----------------------------------------------------------------------------
(* The order of the keys *)

LEMMA SaturatedBounds ==
  ASSUME NEW n \in Nat
  PROVE  Saturated(n) \in Nat /\ Saturated(n) <= n /\ Saturated(n) <= U64Max
BY RankAssumption DEF Saturated

(* Without its deficit no unit is more urgent than a full backlog. *)
LEMMA BacklogBounds ==
  ASSUME TypeInv, NEW u \in Units
  PROVE  Backlog(u) \in Nat /\ Backlog(u) <= MaxBacklog
<1> DEFINE w == Weights
           a == staleness[u] * w.staleness
           d == drift[u] * w.drift
           late == IF behind[u] THEN Saturated(Saturated(a) + w.behind_target)
                                ELSE Saturated(a)
<1>1. /\ w.staleness \in Nat /\ w.behind_target \in Nat /\ w.drift \in Nat
      /\ staleness[u] \in Nat /\ drift[u] \in Nat
      /\ MaxStaleness[u] \in Nat /\ MaxDrift[u] \in Nat
  BY RankAssumption DEF TypeInv, UrgencyWeights
<1>2. a \in Nat /\ d \in Nat
  BY <1>1
<1>3. a <= MaxStaleness[u] * w.staleness
  <2>1. w.staleness * staleness[u] <= w.staleness * MaxStaleness[u]
    BY <1>1, TimesMonotone DEF TypeInv
  <2> QED
    BY <1>1, <2>1
<1>4. d <= MaxDrift[u] * w.drift
  <2>1. w.drift * drift[u] <= w.drift * MaxDrift[u]
    BY <1>1, TimesMonotone DEF TypeInv
  <2> QED
    BY <1>1, <2>1
<1>5. a + w.behind_target + d <= MaxBacklog
  <2>1. MaxStaleness[u] * w.staleness + w.behind_target + MaxDrift[u] * w.drift <= MaxBacklog
    BY RankAssumption
  <2>2. MaxStaleness[u] * w.staleness \in Nat /\ MaxDrift[u] * w.drift \in Nat
    BY <1>1
  <2> HIDE DEF a, d
  <2> QED
    BY <1>1, <1>2, <1>3, <1>4, <2>1, <2>2, RankAssumption
<1>6. Backlog(u) = Saturated(late + Saturated(d))
  BY DEF Backlog
<1> HIDE DEF a, d, w
<1>7. late \in Nat /\ late <= a + w.behind_target
  BY <1>1, <1>2, SaturatedBounds
<1> HIDE DEF late
<1>8. Saturated(d) \in Nat /\ Saturated(d) <= d
  BY <1>2, SaturatedBounds
<1>9. late + Saturated(d) \in Nat /\ late + Saturated(d) <= MaxBacklog
  BY <1>1, <1>2, <1>5, <1>7, <1>8, RankAssumption
<1>10. Saturated(late + Saturated(d)) \in Nat
       /\ Saturated(late + Saturated(d)) <= late + Saturated(d)
  BY <1>9, SaturatedBounds
<1> QED
  BY <1>6, <1>9, <1>10, RankAssumption

LEMMA UrgencyType ==
  ASSUME TypeInv, NEW u \in Units
  PROVE  urgency(u) \in Nat
<1>1. deficit[u] * Weights.fairness_deficit \in Nat
  BY RankAssumption DEF TypeInv, UrgencyWeights
<1>2. Backlog(u) + Saturated(deficit[u] * Weights.fairness_deficit) \in Nat
  BY <1>1, BacklogBounds, SaturatedBounds
<1> QED
  BY <1>2, SaturatedBounds DEF urgency

LEMMA PatienceType ==
  /\ Patience \in Nat \ {0}
  /\ Cardinality(TopTier) \in Nat /\ IsFiniteSet(TopTier)
<1>1. Weights.fairness_deficit \in Nat \ {0}
  BY RankAssumption DEF UrgencyWeights
<1>2. MaxBacklog \div Weights.fairness_deficit \in Nat
  BY <1>1, RankAssumption
<1>3. TopTier \in SUBSET Units
  BY DEF TopTier
<1>4. IsFiniteSet(TopTier) /\ Cardinality(TopTier) \in Nat
  BY <1>3, RankAssumption, FS_Subset, FS_CardinalityType
<1>5. Patience \in Nat \ {0}
  BY <1>2 DEF Patience
<1> QED
  BY <1>4, <1>5

(* Within the longest wait the urgency of a unit is exact: nothing        *)
(* saturates.                                                              *)
LEMMA UrgencyExact ==
  ASSUME TypeInv, UrgencyFits, NEW u \in Units, deficit[u] <= WaitOf(1)
  PROVE  urgency(u) = Backlog(u) + Weights.fairness_deficit * deficit[u]
<1> DEFINE c == Weights.fairness_deficit
           k == c * deficit[u]
<1>1. c \in Nat /\ deficit[u] \in Nat
  BY RankAssumption DEF TypeInv, UrgencyWeights
<1>2. k \in Nat /\ deficit[u] * c = k
  BY <1>1
<1>3. WaitOf(1) \in Int
  BY PatienceType DEF WaitOf
<1>4. k <= c * WaitOf(1)
  BY <1>1, <1>3, TimesMonotone
<1>5. c * WaitOf(1) \in Int
  BY <1>1, <1>3
<1>6. urgency(u) = Saturated(Backlog(u) + Saturated(k))
  BY <1>2 DEF urgency
<1>7. MaxBacklog + c * WaitOf(1) <= U64Max
  BY DEF UrgencyFits
<1> HIDE DEF k, c
<1>8. Backlog(u) \in Nat /\ Backlog(u) <= MaxBacklog
  BY BacklogBounds
<1>9. k <= U64Max /\ Backlog(u) + k <= U64Max
  BY <1>2, <1>4, <1>5, <1>7, <1>8, RankAssumption
<1>10. Saturated(k) = k
  BY <1>2, <1>9, RankAssumption DEF Saturated
<1>11. Saturated(Backlog(u) + k) = Backlog(u) + k
  BY <1>2, <1>8, <1>9, RankAssumption DEF Saturated
<1> QED
  BY <1>6, <1>10, <1>11 DEF k, c

LEMMA TierType ==
  ASSUME NEW u \in Units
  PROVE  Tier(u) \in 0..3
<1>1. ClassOf[u] \in {"Critical", "High", "Normal", "Low"}
  BY RankAssumption DEF PriorityClass
<1> QED
  BY <1>1 DEF Tier, PriorityClass

(* rank() sorts by a strict order. *)
LEMMA KeysOrdered ==
  ASSUME TypeInv, NEW u \in Units, NEW v \in Units, NEW w \in Units
  PROVE  /\ ~ rank_key_less(u, u)
         /\ rank_key_less(u, v) /\ rank_key_less(v, w) => rank_key_less(u, w)
<1>1. \A x \in {u, v, w} : Tier(x) \in Int /\ urgency(x) \in Int /\ x \in Int
  BY TierType, UrgencyType, RankAssumption
<1>2. ~ rank_key_less(u, u)
  BY <1>1 DEF rank_key_less
<1> DEFINE t(x) == Tier(x)
           g(x) == urgency(x)
<1>3. ASSUME rank_key_less(u, v), rank_key_less(v, w)
      PROVE  rank_key_less(u, w)
  <2>1. \/ t(u) < t(v)
        \/ t(u) = t(v) /\ g(u) > g(v)
        \/ t(u) = t(v) /\ g(u) = g(v) /\ u < v
    BY <1>3 DEF rank_key_less
  <2>2. \/ t(v) < t(w)
        \/ t(v) = t(w) /\ g(v) > g(w)
        \/ t(v) = t(w) /\ g(v) = g(w) /\ v < w
    BY <1>3 DEF rank_key_less
  <2>3. \A x \in {u, v, w} : t(x) \in Int /\ g(x) \in Int /\ x \in Int
    BY <1>1
  <2> HIDE DEF t, g
  <2>4. \/ t(u) < t(w)
        \/ t(u) = t(w) /\ g(u) > g(w)
        \/ t(u) = t(w) /\ g(u) = g(w) /\ u < w
    BY <2>1, <2>2, <2>3
  <2> QED
    BY <2>4 DEF rank_key_less, t, g
<1> QED
  BY <1>2, <1>3

(* Of the eligible units of the highest tier, if any, one goes first. *)
LEMMA SomeUnitFirst ==
  ASSUME TypeInv, NEW E, E \subseteq Units, E # {}
  PROVE  \E m \in E : \A v \in E : ~ rank_key_less(v, m)
<1> DEFINE Ahead(u) == {v \in E : rank_key_less(v, u)}
           T == {Ahead(u) : u \in E}
<1>1. IsFiniteSet(E)
  BY RankAssumption, FS_Subset
<1>2. T \subseteq FiniteSubsetsOf(E) /\ T # {}
  <2>1. FiniteSubsetsOf(E) = SUBSET E
    BY <1>1, FS_FiniteSubsetsOfFinite
  <2>2. T \subseteq SUBSET E
    OBVIOUS
  <2>3. PICK u \in E : TRUE
    OBVIOUS
  <2>4. Ahead(u) \in T
    OBVIOUS
  <2> QED
    BY <2>1, <2>2, <2>4
<1>3. PICK A \in T : \A B \in T : ~ (<<B, A>> \in StrictSubsetOrdering(E))
  <2> HIDE DEF T
  <2> QED
    BY <1>2, FS_StrictSubsetOrderingWellFounded, WFMin
<1>4. PICK m \in E : A = Ahead(m)
  BY <1>3
<1>5. SUFFICES ASSUME NEW v \in E, rank_key_less(v, m) PROVE FALSE
  BY <1>4
<1>6. Ahead(v) \subseteq Ahead(m)
  BY <1>4, <1>5, KeysOrdered
<1>7. v \in Ahead(m) /\ v \notin Ahead(v)
  BY <1>4, <1>5, KeysOrdered
<1>8. <<Ahead(v), Ahead(m)>> \in StrictSubsetOrdering(E)
  BY <1>6, <1>7 DEF StrictSubsetOrdering
<1> QED
  BY <1>3, <1>4, <1>5, <1>8

(* A round that may run a unit of the highest tier runs one, and it is at  *)
(* least as urgent as every other that may run.                            *)
LEMMA TopUnitPicked ==
  ASSUME TypeInv, eligible \cap TopTier # {}
  PROVE  \E m \in pick \cap TopTier :
           \A v \in eligible \cap TopTier : urgency(v) <= urgency(m)
<1>0. eligible \subseteq Units /\ TopTier \subseteq Units
  BY DEF TypeInv, TopTier
<1>1. PICK m \in eligible \cap TopTier :
        \A v \in eligible \cap TopTier : ~ rank_key_less(v, m)
  <2> DEFINE E == eligible \cap TopTier
  <2>1. E \subseteq Units /\ E # {}
    BY <1>0
  <2> HIDE DEF E
  <2>2. \E m \in E : \A v \in E : ~ rank_key_less(v, m)
    BY <2>1, SomeUnitFirst
  <2> QED
    BY <2>2 DEF E
<1>2. \A v \in TopTier : Tier(v) = Tier(m)
  BY <1>0, <1>1, TierType DEF TopTier
<1>3. {v \in eligible : rank_key_less(v, m)} = {}
  <2> SUFFICES ASSUME NEW v \in eligible, rank_key_less(v, m) PROVE FALSE
    OBVIOUS
  <2>1. v \notin TopTier /\ v \in Units
    BY <1>0, <1>1
  <2>2. PICK w \in Units : ~ (Tier(v) <= Tier(w))
    BY <2>1 DEF TopTier
  <2>3. Tier(m) <= Tier(w)
    BY <1>1 DEF TopTier
  <2>4. Tier(m) \in Int /\ Tier(v) \in Int /\ Tier(w) \in Int
    BY <1>0, <1>1, <2>1, TierType
  <2>5. Tier(m) < Tier(v)
    BY <2>2, <2>3, <2>4
  <2> QED
    BY <2>4, <2>5 DEF rank_key_less
<1>4. m \in pick
  BY <1>1, <1>3, FS_EmptySet, RankAssumption DEF pick
<1>5. \A v \in eligible \cap TopTier : urgency(v) <= urgency(m)
  BY <1>0, <1>1, <1>2, UrgencyType DEF rank_key_less
<1> QED
  BY <1>1, <1>4, <1>5

-----------------------------------------------------------------------------
(* The inductive invariant *)

LEMMA TypeInitially == Init => TypeInv
BY RankAssumption DEF Init, TypeInv

LEMMA TypeKept == TypeInv /\ [Next]_vars => TypeInv'
<1> SUFFICES ASSUME TypeInv, [Next]_vars
             PROVE  TypeInv'
  OBVIOUS
<1>1. CASE Round
  <2>1. deficit' \in [Units -> Nat]
    BY <1>1, RankAssumption DEF TypeInv, Round, PassedOver
  <2>2. /\ staleness' \in [Units -> Nat]
        /\ \A u \in Units : staleness'[u] <= MaxStaleness[u]
    BY <1>1, RankAssumption DEF TypeInv, Round
  <2>3. /\ drift' \in [Units -> Nat]
        /\ \A u \in Units : drift'[u] <= MaxDrift[u]
    BY <1>1, RankAssumption DEF TypeInv, Round
  <2>4. behind' \in [Units -> BOOLEAN]
    BY <1>1, Zenon DEF TypeInv, Round
  <2> QED
    BY <1>1, <2>1, <2>2, <2>3, <2>4 DEF TypeInv, Round
<1>2. ASSUME NEW u \in Units, Observe(u) PROVE TypeInv'
  BY <1>2, RankAssumption DEF TypeInv, Observe
<1>3. ASSUME NEW u \in Units, ToggleEligible(u) PROVE TypeInv'
  BY <1>3 DEF TypeInv, ToggleEligible
<1>4. CASE UNCHANGED vars
  BY <1>4 DEF vars, TypeInv
<1> QED
  BY <1>1, <1>2, <1>3, <1>4 DEF Next

LEMMA TypeCorrect == Spec => []TypeInv
BY TypeInitially, TypeKept, PTL DEF Spec

(* How long is the wait of a set one larger. *)
LEMMA WaitOfMore ==
  ASSUME NEW n \in Nat
  PROVE  WaitOf(n) \in Int /\ WaitOf(n) = WaitOf(n + 1) + Patience
BY PatienceType DEF WaitOf

LEMMA WaitOfAny ==
  ASSUME NEW n \in Nat \ {0}
  PROVE  WaitOf(n) <= WaitOf(1)
<1>1. Cardinality(TopTier) - n <= Cardinality(TopTier) - 1
  BY PatienceType
<1> QED
  BY <1>1, PatienceType, TimesMonotone DEF WaitOf

LEMMA WaitInitially == Init => WaitInv
<1> SUFFICES ASSUME Init, NEW S \in SUBSET TopTier, S # {}
             PROVE  \E u \in S : deficit[u] <= WaitOf(Cardinality(S))
  BY DEF WaitInv
<1>1. PICK u \in S : deficit[u] = 0
  BY DEF Init, TopTier
<1>2. Cardinality(S) \in Nat /\ Cardinality(S) <= Cardinality(TopTier)
  BY PatienceType, FS_Subset, FS_CardinalityType
<1>3. WaitOf(Cardinality(S)) >= 0
  <2>1. Patience * 0 <= Patience * (Cardinality(TopTier) - Cardinality(S))
    BY <1>2, PatienceType, TimesMonotone
  <2> QED
    BY <2>1, PatienceType DEF WaitOf
<1> QED
  BY <1>1, <1>3

(* What a round does to the deficit of a unit. *)
LEMMA RoundDeficit ==
  ASSUME TypeInv, Round, NEW u \in Units
  PROVE  /\ u \in pick => deficit'[u] = 0
         /\ deficit'[u] <= deficit[u] + 1
         /\ u \notin eligible => deficit'[u] = deficit[u]
<1>1. pick \subseteq eligible
  BY DEF pick
<1>2. deficit'[u] = CASE u \in pick -> 0
                      [] u \in eligible \ pick -> PassedOver(deficit[u])
                      [] OTHER -> deficit[u]
  BY DEF Round
<1>3. deficit[u] \in Nat /\ PassedOver(deficit[u]) <= deficit[u] + 1
  BY RankAssumption DEF TypeInv, PassedOver
<1> QED
  BY <1>1, <1>2, <1>3

(* Who was passed over although it may run was no more urgent than the     *)
(* unit that ran instead: its deficit is the other's and a backlog's worth *)
(* at most.                                                                *)
LEMMA PassedOverWithin ==
  ASSUME TypeInv, UrgencyFits, NEW m \in Units, NEW v \in Units,
         deficit[m] <= WaitOf(1), deficit[v] <= WaitOf(1),
         urgency(v) <= urgency(m)
  PROVE  deficit[v] + 1 <= deficit[m] + Patience
<1> DEFINE c == Weights.fairness_deficit
<1>1. c \in Nat \ {0} /\ deficit[v] \in Nat /\ deficit[m] \in Nat
  BY RankAssumption DEF TypeInv, UrgencyWeights
<1>2. Backlog(v) + c * deficit[v] <= Backlog(m) + c * deficit[m]
  BY UrgencyExact
<1>3. /\ Backlog(v) \in Nat
      /\ Backlog(m) \in Nat /\ Backlog(m) <= MaxBacklog /\ MaxBacklog \in Nat
  BY BacklogBounds, RankAssumption
<1>4. c * deficit[v] \in Nat /\ c * deficit[m] \in Nat
  BY <1>1
<1>5. Patience = (MaxBacklog \div c) + 1
  BY DEF Patience
<1> HIDE DEF c
<1>6. c * deficit[v] <= MaxBacklog + c * deficit[m]
  BY <1>2, <1>3, <1>4
<1>7. deficit[v] <= deficit[m] + (MaxBacklog \div c)
  BY <1>1, <1>3, <1>6, DeficitOutweighs
<1>8. MaxBacklog \div c \in Nat
  BY <1>1, <1>3
<1> QED
  BY <1>1, <1>5, <1>7, <1>8

LEMMA RoundKeepsWait ==
  ASSUME TypeInv, UrgencyFits, WaitInv, Round
  PROVE  WaitInv'
<1> SUFFICES ASSUME NEW S \in SUBSET TopTier, S # {}
             PROVE  \E u \in S : deficit'[u] <= WaitOf(Cardinality(S))
  BY DEF WaitInv, TopTier, Tier, WaitOf, Patience
<1> DEFINE n == Cardinality(S)
<1>1. TopTier \subseteq Units
  BY DEF TopTier
<1>2. IsFiniteSet(S) /\ n \in Nat \ {0}
  BY PatienceType, FS_Subset, FS_CardinalityType, FS_EmptySet
<1>3. PICK v \in S : deficit[v] <= WaitOf(n)
  BY DEF WaitInv
<1>4. v \in Units /\ deficit[v] \in Nat /\ deficit'[v] <= deficit[v] + 1
  BY <1>1, RoundDeficit DEF TypeInv
<1>5. WaitOf(n) \in Int /\ WaitOf(n + 1) \in Int /\ WaitOf(n) = WaitOf(n + 1) + Patience
  BY <1>2, WaitOfMore
<1>6. Patience \in Nat \ {0}
  BY PatienceType
<1>7. 0 <= WaitOf(n)
  BY <1>3, <1>4, <1>5
<1>8. CASE S \cap pick # {}
  BY <1>1, <1>7, <1>8, RoundDeficit
<1>9. CASE S \cap pick = {} /\ eligible \cap TopTier = {}
  BY <1>1, <1>3, <1>9, RoundDeficit
<1>10. CASE S \cap pick = {} /\ eligible \cap TopTier # {}
  <2>1. PICK m \in pick \cap TopTier :
          \A u \in eligible \cap TopTier : urgency(u) <= urgency(m)
    BY <1>10, TopUnitPicked
  <2>2. m \notin S /\ m \in Units
    BY <1>1, <1>10, <2>1
  <2> DEFINE T == S \cup {m}
  <2>3. Cardinality(T) = n + 1
    BY <1>2, <2>2, FS_AddElement
  <2>4. T \in SUBSET TopTier /\ T # {}
    BY <2>1
  <2> HIDE DEF n
  <2>5. PICK u \in T : deficit[u] <= WaitOf(n + 1)
    <3> HIDE DEF T
    <3> QED
      BY <2>3, <2>4 DEF WaitInv
  <2>6. CASE u \in S
    <3>1. u \in Units /\ deficit[u] \in Nat
      BY <1>1, <2>6 DEF TypeInv
    <3>2. deficit'[u] <= deficit[u] + 1
      BY <3>1, RoundDeficit
    <3>3. deficit'[u] \in Nat
      BY <3>1, TypeKept DEF TypeInv, Next
    <3>4. deficit'[u] <= WaitOf(n)
      BY <1>5, <1>6, <2>5, <3>1, <3>2, <3>3
    <3> QED
      BY <2>6, <3>4 DEF n
  <2>7. CASE u = m
    <3>1. deficit[m] \in Nat /\ deficit[m] <= WaitOf(n + 1)
      BY <2>2, <2>5, <2>7 DEF TypeInv
    <3>2. deficit'[v] \in Nat
      BY <1>4, TypeKept DEF TypeInv, Next
    <3>3. CASE v \notin eligible
      BY <1>3, <1>4, <3>3, RoundDeficit DEF n
    <3>4. CASE v \in eligible
      <4>1. urgency(v) <= urgency(m)
        BY <2>1, <3>4
      <4>2. WaitOf(n) <= WaitOf(1) /\ WaitOf(1) \in Int
        BY <1>2, WaitOfAny, WaitOfMore
      <4>3. deficit[m] <= WaitOf(1) /\ deficit[v] <= WaitOf(1)
        BY <1>3, <1>4, <1>5, <1>6, <3>1, <4>2
      <4>4. deficit[v] + 1 <= deficit[m] + Patience
        BY <1>4, <2>2, <4>1, <4>3, PassedOverWithin
      <4>5. deficit'[v] <= WaitOf(n)
        BY <1>4, <1>5, <1>6, <3>1, <3>2, <4>4
      <4> QED
        BY <4>5 DEF n
    <3> QED
      BY <3>3, <3>4
  <2> QED
    BY <2>6, <2>7
<1> QED
  BY <1>8, <1>9, <1>10

LEMMA WaitKept ==
  ASSUME UrgencyFits
  PROVE  TypeInv /\ WaitInv /\ [Next]_vars => WaitInv'
<1> SUFFICES ASSUME TypeInv, WaitInv, [Next]_vars
             PROVE  WaitInv'
  OBVIOUS
<1>1. CASE Round
  BY <1>1, RoundKeepsWait
<1>2. CASE UNCHANGED deficit
  BY <1>2 DEF WaitInv, TopTier, Tier, WaitOf, Patience
<1>3. Round \/ UNCHANGED deficit
  BY DEF Next, Observe, ToggleEligible, vars
<1> QED
  BY <1>1, <1>2, <1>3

(* Alone, every unit of the highest tier is within the wait of one. *)
LEMMA WaitBounds == WaitInv => BoundedWait
<1> SUFFICES ASSUME WaitInv, NEW u \in TopTier
             PROVE  deficit[u] <= Patience * (Cardinality(TopTier) - 1)
  BY DEF BoundedWait
<1>1. {u} \in SUBSET TopTier /\ {u} # {} /\ Cardinality({u}) = 1
  BY FS_Singleton
<1>2. \E v \in {u} : deficit[v] <= WaitOf(1)
  <2> DEFINE S == {u}
  <2>1. S \in SUBSET TopTier /\ S # {} /\ Cardinality(S) = 1
    BY <1>1
  <2> HIDE DEF S
  <2>2. \E v \in S : deficit[v] <= WaitOf(Cardinality(S))
    BY <2>1 DEF WaitInv
  <2> QED
    BY <2>1, <2>2 DEF S
<1> QED
  BY <1>2 DEF WaitOf

(* "A unit that keeps losing accrues deficit until it wins": rank() and    *)
(* pick() pass over no unit of the highest tier more often than Patience   *)
(* times for each of its peers, for any number of units and slots, however *)
(* they drift, back off and return, as long as the sums of urgency() do    *)
(* not reach the value at which they saturate.                             *)
THEOREM WaitIsBounded ==
  ASSUME UrgencyFits
  PROVE  Spec => []BoundedWait
<1>1. Init => TypeInv /\ WaitInv
  BY TypeInitially, WaitInitially
<1>2. TypeInv /\ WaitInv /\ [Next]_vars => (TypeInv /\ WaitInv)'
  BY TypeKept, WaitKept
<1> QED
  BY <1>1, <1>2, WaitBounds, PTL DEF Spec
=============================================================================
