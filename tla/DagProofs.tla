------------------------------ MODULE DagProofs ------------------------------
(***************************************************************************)
(* Theorems about Dag, for any number of jobs and edges and whatever order *)
(* petgraph returns: the waves of a call are the layers of the graph, the  *)
(* same for every order, and only later in a larger graph; and validate()  *)
(* finds every cycle.                                                      *)
(*                                                                         *)
(* Where one would argue by induction over a finite set, these proofs take *)
(* a counterexample that comes first.                                      *)
(***************************************************************************)
EXTENDS Dag, FiniteSetTheorems, WellFoundedInduction, TLAPS

-----------------------------------------------------------------------------
(* Finite sets *)

(* Among finitely many things one has the least number. *)
LEMMA LeastOf ==
  ASSUME NEW C, IsFiniteSet(C), C # {}, NEW f \in [C -> Int]
  PROVE  \E c \in C : \A d \in C : f[c] <= f[d]
<1> DEFINE Below(c) == {d \in C : f[d] < f[c]}
           T == {Below(c) : c \in C}
<1>1. T \subseteq FiniteSubsetsOf(C) /\ T # {}
  <2>1. FiniteSubsetsOf(C) = SUBSET C
    BY FS_FiniteSubsetsOfFinite
  <2>2. T \subseteq SUBSET C
    OBVIOUS
  <2>3. PICK c \in C : TRUE
    OBVIOUS
  <2>4. Below(c) \in T
    OBVIOUS
  <2> QED
    BY <2>1, <2>2, <2>4
<1>2. PICK A \in T : \A B \in T : ~ (<<B, A>> \in StrictSubsetOrdering(C))
  <2> HIDE DEF T
  <2> QED
    BY <1>1, FS_StrictSubsetOrderingWellFounded, WFMin
<1>3. PICK c \in C : A = Below(c)
  BY <1>2
<1>4. SUFFICES ASSUME NEW d \in C, f[d] < f[c] PROVE FALSE
  BY <1>3
<1>5. Below(d) \subseteq Below(c) /\ d \in Below(c) /\ d \notin Below(d)
  BY <1>4
<1>6. <<Below(d), Below(c)>> \in StrictSubsetOrdering(C)
  BY <1>5 DEF StrictSubsetOrdering
<1> QED
  BY <1>2, <1>3, <1>4, <1>6

LEMMA MaxIsMember ==
  ASSUME NEW S \in SUBSET Int, IsFiniteSet(S), S # {}
  PROVE  Max(S) \in S /\ \A y \in S : y <= Max(S)
<1> DEFINE f == [x \in S |-> 0 - x]
<1>1. f \in [S -> Int]
  OBVIOUS
<1>2. PICK c \in S : \A d \in S : f[c] <= f[d]
  <2> HIDE DEF f
  <2> QED
    BY <1>1, LeastOf
<1>3. \A d \in S : c >= d
  BY <1>2
<1>4. \E x \in S : \A y \in S : x >= y
  BY <1>3
<1>5. Max(S) \in S /\ \A y \in S : Max(S) >= y
  BY <1>4 DEF Max
<1> QED
  BY <1>5

(* The values of finitely many arguments. *)
LEMMA FiniteValues ==
  ASSUME NEW P, IsFiniteSet(P), NEW f
  PROVE  IsFiniteSet({f[x] : x \in P})
<1> DEFINE S == {f[x] : x \in P}
           g == [x \in P |-> f[x]]
<1>1. g \in Surjection(P, S)
  BY DEF Surjection
<1> HIDE DEF g, S
<1>2. IsFiniteSet(S)
  BY <1>1, FS_Surjection
<1> QED
  BY <1>2 DEF S

-----------------------------------------------------------------------------
(* Layerings *)

(* Every job of f lies deeper than its predecessors in f. *)
Layered(f) ==
  \A id \in DOMAIN f : \A p \in predecessors(id) \cap DOMAIN f : f[p] < f[id]

(* None lies deeper than it must. *)
Tight(f) ==
  \A id \in DOMAIN f : f[id] > 0 =>
    \E p \in predecessors(id) \cap DOMAIN f : f[id] = f[p] + 1

(* A tight numbering is below every layering of as many jobs or more. *)
LEMMA TightIsLeast ==
  ASSUME NEW D, IsFiniteSet(D), NEW E, D \subseteq E,
         NEW f \in [D -> Nat], NEW g \in [E -> Nat], Tight(f), Layered(g)
  PROVE  \A id \in D : f[id] <= g[id]
<1> DEFINE C == {id \in D : f[id] > g[id]}
<1>1. SUFFICES ASSUME C # {} PROVE FALSE
  OBVIOUS
<1>2. PICK c \in C : \A d \in C : f[c] <= f[d]
  <2> DEFINE h == [x \in C |-> f[x]]
  <2>1. h \in [C -> Int] /\ IsFiniteSet(C)
    BY FS_Subset
  <2> HIDE DEF C
  <2>2. \A x \in C : h[x] = f[x]
    OBVIOUS
  <2> HIDE DEF h
  <2>3. \E c \in C : \A d \in C : h[c] <= h[d]
    BY <1>1, <2>1, LeastOf
  <2> QED
    BY <2>2, <2>3
<1>3. c \in D /\ f[c] > g[c] /\ f[c] \in Nat /\ g[c] \in Nat
  OBVIOUS
<1>4. PICK p \in predecessors(c) \cap D : f[c] = f[p] + 1
  BY <1>3 DEF Tight
<1>5. f[p] \in Nat /\ g[p] \in Nat
  OBVIOUS
<1>6. p \notin C
  BY <1>2, <1>4, <1>5
<1>7. f[p] <= g[p]
  BY <1>5, <1>6
<1>8. g[p] < g[c]
  BY <1>3, <1>4 DEF Layered
<1> QED
  BY <1>3, <1>4, <1>5, <1>7, <1>8

-----------------------------------------------------------------------------
(* The invariant *)

(* What a call has done so far: it has been through the order up to `at',  *)
(* so that whoever precedes a job it has met has been met.                 *)
LoopInv ==
  pc = "loop" =>
    /\ order \in toposort
    /\ DOMAIN wave_of = {id \in want : \E i \in DOMAIN order : i < at /\ order[i] = id}
    /\ Layered(wave_of) /\ Tight(wave_of)

(* What was answered once stays tight in a growing graph; a layering it is *)
(* as long as the graph is the same.                                       *)
AnswerInv ==
  /\ Tight(answer.wave_of)
  /\ answer.same => Layered(answer.wave_of)

Answers == [want : SUBSET nodes, wave_of : UNION {[S -> Nat] : S \in SUBSET nodes}, same : BOOLEAN]

Inv == TypeOK /\ answer \in Answers /\ LoopInv /\ AnswerInv

LEMMA NodesFinite ==
  ASSUME TypeOK
  PROVE  /\ IsFiniteSet(nodes) /\ Cardinality(nodes) \in Nat
         /\ \A S \in SUBSET nodes : IsFiniteSet(S)
BY DagAssumption, FS_Subset, FS_CardinalityType DEF TypeOK

LEMMA OrderType ==
  ASSUME NEW f \in toposort
  PROVE  f \in [1 .. Cardinality(nodes) -> nodes]
BY DEF toposort, Enumerations

(* As many places as nodes, and no node twice: all of them are there. *)
LEMMA OrderCovers ==
  ASSUME TypeOK, NEW f \in toposort, NEW id \in nodes
  PROVE  \E i \in DOMAIN f : f[i] = id
<1> DEFINE S == 1 .. Cardinality(nodes)
<1>1. IsFiniteSet(S) /\ Cardinality(S) = Cardinality(nodes)
  BY NodesFinite, FS_Interval
<1>2. f \in Injection(S, nodes) /\ DOMAIN f = S
  BY OrderType DEF toposort, Enumerations, Injection, IsInjective
<1> HIDE DEF S
<1>3. f \in Surjection(S, nodes)
  BY <1>1, <1>2, NodesFinite, FS_Injection
<1> QED
  BY <1>2, <1>3 DEF Surjection

(* The depth of a job that is met now. *)
LEMMA DepthOf ==
  ASSUME TypeOK, NEW id
  PROVE  /\ Depth(id) \in Nat
         /\ \A p \in predecessors(id) \cap DOMAIN wave_of : wave_of[p] < Depth(id)
         /\ Depth(id) > 0 =>
              \E p \in predecessors(id) \cap DOMAIN wave_of : Depth(id) = wave_of[p] + 1
<1> DEFINE parents == predecessors(id) \cap DOMAIN wave_of
           S == {wave_of[p] : p \in parents}
<1>1. CASE parents = {}
  BY <1>1 DEF Depth
<1>2. CASE parents # {}
  <2>1. Depth(id) = Max(S) + 1
    BY <1>2 DEF Depth
  <2>2. S \in SUBSET Int /\ S # {} /\ \A y \in S : y \in Nat
    BY <1>2 DEF TypeOK
  <2>3. IsFiniteSet(S)
    <3>1. IsFiniteSet(parents)
      BY NodesFinite DEF predecessors
    <3> HIDE DEF parents
    <3> QED
      BY <3>1, FiniteValues
  <2> HIDE DEF S
  <2>4. Max(S) \in S /\ \A y \in S : y <= Max(S)
    BY <2>2, <2>3, MaxIsMember
  <2>5. Max(S) \in Nat
    BY <2>2, <2>4
  <2>6. \A p \in parents : wave_of[p] \in Nat /\ wave_of[p] <= Max(S)
    BY <2>2, <2>4 DEF S
  <2>7. PICK q \in parents : Max(S) = wave_of[q]
    BY <2>4 DEF S
  <2>8. Depth(id) \in Nat /\ \A p \in parents : wave_of[p] < Depth(id)
    BY <2>1, <2>5, <2>6
  <2> QED
    BY <2>1, <2>7, <2>8
<1> QED
  BY <1>1, <1>2

LEMMA InitInv == Init => Inv
<1> SUFFICES ASSUME Init PROVE Inv
  OBVIOUS
<1>1. Cardinality(nodes) = 0
  BY FS_EmptySet DEF Init
<1>2. TypeOK
  BY <1>1 DEF Init, TypeOK, NoWaves
<1>3. answer \in Answers
  <2>1. NoWaves \in [{} -> Nat]
    BY DEF NoWaves
  <2> QED
    BY <2>1 DEF Init, Answers
<1>4. LoopInv /\ AnswerInv
  BY DEF Init, LoopInv, AnswerInv, Tight, Layered, NoWaves
<1> QED
  BY <1>2, <1>3, <1>4 DEF Inv

(* Graphs only grow: predecessors stay, and without new edges they are the *)
(* same.                                                                   *)
LEMMA Growing ==
  ASSUME TypeOK, nodes \subseteq nodes', edges \subseteq edges'
  PROVE  /\ \A id : predecessors(id) \subseteq predecessors(id)'
         /\ UNCHANGED edges => \A id : predecessors(id)' = predecessors(id)
BY DEF predecessors, TypeOK

LEMMA AnswerStays ==
  ASSUME TypeOK, AnswerInv, nodes \subseteq nodes', edges \subseteq edges',
         answer'.wave_of = answer.wave_of, answer'.same => answer.same /\ UNCHANGED edges
  PROVE  AnswerInv'
<1>1. Tight(answer.wave_of)'
  BY Growing DEF AnswerInv, Tight
<1>2. answer'.same => Layered(answer.wave_of)'
  BY Growing DEF AnswerInv, Layered
<1> QED
  BY <1>1, <1>2 DEF AnswerInv

(* ensure_node and add_edge. *)
LEMMA GraphStep ==
  ASSUME Inv, pc = "idle",
         nodes \subseteq nodes', nodes' \subseteq Ids,
         declared' \in SUBSET nodes', edges' \in SUBSET (nodes' \X nodes'), edges \subseteq edges',
         UNCHANGED call,
         answer' = [answer EXCEPT !.same = @ /\ edges' = edges]
  PROVE  Inv'
<1>1. Cardinality(nodes) <= Cardinality(nodes') /\ Cardinality(nodes') \in Nat
      /\ Cardinality(nodes) \in Nat
  BY DagAssumption, FS_Subset, FS_CardinalityType DEF Inv, TypeOK
<1>2. /\ answer'.want = answer.want /\ answer'.wave_of = answer.wave_of
      /\ answer'.same = (answer.same /\ edges' = edges)
      /\ answer' \in Answers'
  BY DEF Inv, Answers
<1>3. TypeOK'
  <2>1. at' \in 1 .. Cardinality(nodes') + 1
    BY <1>1 DEF Inv, TypeOK, call
  <2>2. /\ answer'.want \in SUBSET nodes' /\ answer'.wave_of \in [answer'.want -> Nat]
        /\ answer'.same \in BOOLEAN
    BY <1>2 DEF Inv, TypeOK
  <2> QED
    BY <2>1, <2>2 DEF Inv, TypeOK, call
<1>4. AnswerInv'
  BY <1>2, AnswerStays DEF Inv
<1>5. LoopInv'
  BY DEF LoopInv, call
<1> QED
  BY <1>2, <1>3, <1>4, <1>5 DEF Inv

LEMMA BeginStep ==
  ASSUME Inv, NEW affected, waves_begin(affected)
  PROVE  Inv'
<1>1. UNCHANGED <<nodes, declared, edges, answer>>
  BY DEF waves_begin, graph
<1>2. order' \in toposort' /\ pc' = "loop" /\ at' = 1 /\ wave_of' = NoWaves
      /\ want' \in SUBSET nodes
  BY <1>1 DEF waves_begin, toposort, Enumerations
<1>3. TypeOK'
  <2>1. order' \in [1 .. Cardinality(nodes') -> nodes']
    BY <1>2 DEF toposort, Enumerations
  <2>2. at' \in 1 .. Cardinality(nodes') + 1
    BY <1>1, <1>2, NodesFinite DEF Inv
  <2>3. DOMAIN wave_of' = {} /\ wave_of' \in [DOMAIN wave_of' -> Nat]
    BY <1>2 DEF NoWaves
  <2> QED
    BY <1>1, <1>2, <2>1, <2>2, <2>3 DEF Inv, TypeOK
<1>4. LoopInv'
  <2>1. DOMAIN wave_of' = {}
    BY <1>2 DEF NoWaves
  <2>2. \A i \in DOMAIN order' : ~ (i < at')
    BY <1>2 DEF toposort, Enumerations
  <2> QED
    BY <1>2, <2>1, <2>2 DEF LoopInv, Layered, Tight
<1>5. AnswerInv'
  BY <1>1 DEF Inv, AnswerInv, Tight, Layered, predecessors
<1>6. (answer \in Answers)'
  BY <1>1 DEF Inv, Answers
<1> QED
  BY <1>3, <1>4, <1>5, <1>6 DEF Inv

LEMMA VisitStep == ASSUME Inv, waves_visit PROVE Inv'
<1> DEFINE id == order[at]
<1>1. /\ UNCHANGED <<nodes, declared, edges, order, want, answer, pc>>
      /\ pc = "loop" /\ at \in DOMAIN order /\ at' = at + 1
  BY DEF waves_visit, graph
<1>2. /\ order \in toposort /\ order \in [1 .. Cardinality(nodes) -> nodes]
      /\ at \in 1 .. Cardinality(nodes) /\ DOMAIN order = 1 .. Cardinality(nodes)
      /\ Cardinality(nodes) \in Nat /\ id \in nodes
  BY <1>1, OrderType, NodesFinite DEF Inv, LoopInv
<1>3. /\ DOMAIN wave_of = {n \in want : \E i \in DOMAIN order : i < at /\ order[i] = n}
      /\ Layered(wave_of) /\ Tight(wave_of)
  BY <1>1 DEF Inv, LoopInv
<1>4. id \notin DOMAIN wave_of
  BY <1>2, <1>3 DEF toposort, Enumerations
<1>5. ASSUME NEW q \in DOMAIN wave_of \cup {id}
      PROVE  id \notin predecessors(q)
  <2>1. PICK i \in DOMAIN order : i <= at /\ order[i] = q
    BY <1>2, <1>3
  <2> QED
    BY <1>2, <2>1 DEF predecessors, toposort
<1>6. \A n : predecessors(n)' = predecessors(n)
  BY <1>1 DEF predecessors
<1> DEFINE D == IF id \in want THEN DOMAIN wave_of \cup {id} ELSE DOMAIN wave_of
<1>7. /\ DOMAIN wave_of' = D
      /\ \A n \in DOMAIN wave_of : wave_of'[n] = wave_of[n]
      /\ id \in want => wave_of'[id] = Depth(id)
      /\ wave_of' \in [D -> Nat]
  <2>1. wave_of' = IF id \in want
                   THEN [n \in DOMAIN wave_of \cup {id} |-> IF n = id THEN Depth(id) ELSE wave_of[n]]
                   ELSE wave_of
    BY DEF waves_visit
  <2>2. Depth(id) \in Nat /\ wave_of \in [DOMAIN wave_of -> Nat]
    BY DepthOf DEF Inv, TypeOK
  <2> HIDE DEF id
  <2> QED
    BY <1>4, <2>1, <2>2
<1>8. D = {n \in want : \E i \in DOMAIN order : i < at + 1 /\ order[i] = n}
  <2>1. \A i \in DOMAIN order : i < at + 1 <=> i < at \/ i = at
    BY <1>2
  <2> QED
    BY <1>2, <1>3, <2>1
<1> HIDE DEF id, D
<1>9. Layered(wave_of)'
  <2> SUFFICES ASSUME NEW n \in D, NEW p \in predecessors(n) \cap D
               PROVE  wave_of'[p] < wave_of'[n]
    BY <1>6, <1>7 DEF Layered
  <2>1. p # id
    BY <1>5 DEF D
  <2>2. p \in DOMAIN wave_of
    BY <2>1 DEF D
  <2>3. CASE n \in DOMAIN wave_of
    BY <1>3, <1>7, <2>2, <2>3 DEF Layered
  <2>4. CASE n = id /\ id \in want
    BY <1>7, <2>2, <2>4, DepthOf DEF Inv
  <2> QED
    BY <2>3, <2>4 DEF D
<1>10. Tight(wave_of)'
  <2> SUFFICES ASSUME NEW n \in D, wave_of'[n] > 0
               PROVE  \E p \in predecessors(n) \cap D : wave_of'[n] = wave_of'[p] + 1
    BY <1>6, <1>7 DEF Tight
  <2>0. DOMAIN wave_of \subseteq D
    BY DEF D
  <2>1. CASE n \in DOMAIN wave_of
    <3>1. PICK p \in predecessors(n) \cap DOMAIN wave_of : wave_of[n] = wave_of[p] + 1
      BY <1>3, <1>7, <2>1 DEF Tight
    <3> QED
      BY <1>7, <2>0, <2>1, <3>1
  <2>2. CASE n = id /\ id \in want
    <3>1. PICK p \in predecessors(id) \cap DOMAIN wave_of : Depth(id) = wave_of[p] + 1
      BY <1>7, <2>2, DepthOf DEF Inv
    <3> QED
      BY <1>7, <2>0, <2>2, <3>1
  <2> QED
    BY <2>1, <2>2 DEF D
<1>11. TypeOK'
  <2>1. at' \in 1 .. Cardinality(nodes') + 1
    BY <1>1, <1>2
  <2>2. D \subseteq want
    BY <1>8
  <2> QED
    BY <1>1, <1>2, <1>7, <2>1, <2>2 DEF Inv, TypeOK
<1>12. LoopInv'
  <2>1. order' \in toposort'
    BY <1>1, <1>2 DEF toposort, Enumerations
  <2> QED
    BY <1>1, <1>7, <1>8, <1>9, <1>10, <2>1 DEF LoopInv
<1>13. AnswerInv' /\ (answer \in Answers)'
  BY <1>1 DEF Inv, AnswerInv, Tight, Layered, predecessors, Answers
<1> QED
  BY <1>11, <1>12, <1>13 DEF Inv

(* At the end of the order every wanted job has been met. *)
LEMMA AllMet ==
  ASSUME Inv, waves_return
  PROVE  DOMAIN wave_of = want
<1>1. /\ order \in toposort /\ DOMAIN order = 1 .. Cardinality(nodes)
      /\ at \in 1 .. Cardinality(nodes) + 1 /\ at \notin DOMAIN order
      /\ Cardinality(nodes) \in Nat /\ want \subseteq nodes
      /\ DOMAIN wave_of = {n \in want : \E i \in DOMAIN order : i < at /\ order[i] = n}
  BY OrderType, NodesFinite DEF Inv, LoopInv, TypeOK, waves_return
<1>2. \A i \in DOMAIN order : i < at
  BY <1>1
<1> QED
  BY <1>1, <1>2, OrderCovers DEF Inv

LEMMA ReturnStep == ASSUME Inv, waves_return PROVE Inv'
<1>1. /\ UNCHANGED <<nodes, declared, edges>>
      /\ pc' = "idle" /\ at' = 1 /\ want' = {} /\ wave_of' = NoWaves
      /\ answer' = [want |-> want, wave_of |-> wave_of, same |-> TRUE]
  BY DEF waves_return, graph
<1>2. wave_of \in [want -> Nat] /\ want \in SUBSET nodes
  BY AllMet DEF Inv, TypeOK
<1>3. Layered(wave_of) /\ Tight(wave_of)
  BY DEF Inv, LoopInv, waves_return
<1>4. (answer \in Answers)'
  BY <1>1, <1>2 DEF Answers
<1>5. TypeOK'
  <2>1. at' \in 1 .. Cardinality(nodes') + 1
    BY <1>1, NodesFinite DEF Inv
  <2>2. DOMAIN wave_of' = {} /\ wave_of' \in [DOMAIN wave_of' -> Nat]
    BY <1>1 DEF NoWaves
  <2> QED
    BY <1>1, <1>2, <2>1, <2>2 DEF Inv, TypeOK
<1>6. LoopInv'
  BY <1>1 DEF LoopInv
<1>7. AnswerInv'
  BY <1>1, <1>3 DEF AnswerInv, Layered, Tight, predecessors
<1> QED
  BY <1>4, <1>5, <1>6, <1>7 DEF Inv

LEMMA StepInv == Inv /\ [Next]_vars => Inv'
<1> SUFFICES ASSUME Inv, [Next]_vars PROVE Inv'
  OBVIOUS
<1>1. ASSUME NEW id \in Ids, ensure_node(id) PROVE Inv'
  <2>1. answer' = [answer EXCEPT !.same = @ /\ edges' = edges]
    BY <1>1 DEF ensure_node, Inv, Answers
  <2> QED
    BY <1>1, <2>1, GraphStep DEF ensure_node, Inv, TypeOK
<1>2. ASSUME NEW from \in Ids, NEW to \in Ids, add_edge(from, to) PROVE Inv'
  <2>1. edges' \in SUBSET (nodes' \X nodes')
    BY <1>2 DEF add_edge, Inv, TypeOK
  <2> QED
    BY <1>2, <2>1, GraphStep DEF add_edge, Inv, TypeOK
<1>3. ASSUME NEW affected \in SUBSET Ids, waves_begin(affected) PROVE Inv'
  BY <1>3, BeginStep
<1>4. CASE UNCHANGED vars
  <2>1. UNCHANGED <<nodes, declared, edges, pc, order, at, want, wave_of, answer>>
    BY <1>4 DEF vars, graph, call
  <2>2. TypeOK' /\ (answer \in Answers)'
    BY <2>1 DEF Inv, TypeOK, Answers
  <2>3. LoopInv'
    BY <2>1 DEF Inv, LoopInv, Tight, Layered, predecessors, toposort, Enumerations
  <2>4. AnswerInv'
    BY <2>1 DEF Inv, AnswerInv, Tight, Layered, predecessors
  <2> QED
    BY <2>2, <2>3, <2>4 DEF Inv
<1> QED
  BY <1>1, <1>2, <1>3, <1>4, VisitStep, ReturnStep DEF Next

LEMMA Invariant == Spec => []Inv
BY InitInv, StepInv, PTL DEF Spec

(* Dag's fields keep their types: every edge joins nodes, a call of        *)
(* waves() orders all nodes, and an answer numbers who was asked for.      *)
THEOREM TypeCorrect == Spec => []TypeOK
<1>1. Inv => TypeOK
  BY DEF Inv
<1> QED
  BY <1>1, Invariant, PTL

-----------------------------------------------------------------------------
(* The waves of an answer *)

(* There are as many as the deepest job needs. *)
LEMMA WavesAre ==
  ASSUME Inv
  PROVE  \E M \in Nat :
           /\ waves = [n \in 1 .. M + 1 |-> {id \in answer.want : answer.wave_of[id] = n - 1}]
           /\ \A id \in answer.want : answer.wave_of[id] <= M
           /\ M = 0 \/ \E id \in answer.want : answer.wave_of[id] = M
<1> DEFINE V == {answer.wave_of[id] : id \in answer.want}
           S == {0} \cup V
<1>1. IsFiniteSet(answer.want) /\ \A id \in answer.want : answer.wave_of[id] \in Nat
  BY NodesFinite DEF Inv, TypeOK
<1>2. IsFiniteSet(V)
  <2>1. IsFiniteSet(answer.want)
    BY <1>1
  <2> QED
    BY <2>1, FiniteValues
<1>3. V \in SUBSET Nat
  BY <1>1
<1>4. waves = [n \in 1 .. Max(S) + 1 |-> {id \in answer.want : answer.wave_of[id] = n - 1}]
  BY DEF waves
<1>5. IsFiniteSet(S) /\ S # {} /\ S \in SUBSET Int
  <2> HIDE DEF V
  <2> QED
    BY <1>2, <1>3, FS_AddElement, FS_Singleton, FS_Union
<1>6. PICK M : M = Max(S) /\ M \in S /\ \A y \in S : y <= M
  <2> HIDE DEF S
  <2> QED
    BY <1>5, MaxIsMember
<1>7. M \in Nat /\ (M = 0 \/ M \in V)
  <2>1. M = 0 \/ M \in V
    BY <1>6
  <2> QED
    BY <1>3, <2>1
<1>8. \A id \in answer.want : answer.wave_of[id] <= M
  BY <1>6
<1>9. waves = [n \in 1 .. M + 1 |-> {id \in answer.want : answer.wave_of[id] = n - 1}]
  <2> HIDE DEF S
  <2> QED
    BY <1>4, <1>6
<1> QED
  BY <1>7, <1>8, <1>9

(* No wave before the last is empty, for a job sits on one of the wave     *)
(* before.                                                                 *)
LEMMA NoHole ==
  ASSUME Inv, NEW M \in Nat, NEW top \in answer.want, answer.wave_of[top] = M
  PROVE  \A n \in 0 .. M : \E id \in answer.want : answer.wave_of[id] = n
<1> DEFINE f == answer.wave_of
           C == {n \in 0 .. M : ~ \E id \in answer.want : f[id] = n}
<1>1. SUFFICES ASSUME C # {} PROVE FALSE
  OBVIOUS
<1>2. C \in SUBSET Int /\ IsFiniteSet(C)
  <2>1. IsFiniteSet(0 .. M)
    BY FS_Interval
  <2> QED
    BY <2>1, FS_Subset
<1>3. PICK c \in C : \A y \in C : y <= c
  <2> HIDE DEF C
  <2> QED
    BY <1>1, <1>2, MaxIsMember
<1>4. c \in 0 .. M /\ c # M /\ c + 1 \notin C
  BY <1>3
<1>5. PICK id \in answer.want : f[id] = c + 1
  BY <1>4
<1>6. PICK p \in predecessors(id) \cap answer.want : f[id] = f[p] + 1
  BY <1>4, <1>5 DEF Inv, TypeOK, AnswerInv, Tight
<1>7. f[p] = c /\ p \in answer.want
  BY <1>4, <1>5, <1>6 DEF Inv, TypeOK
<1> QED
  BY <1>3, <1>7

LEMMA LayeredWaves == ASSUME Inv PROVE WavesLayered
<1> SUFFICES ASSUME answer.same PROVE WavesLayered
  BY DEF WavesLayered
<1> DEFINE f == answer.wave_of
<1>1. PICK M \in Nat :
        /\ waves = [n \in 1 .. M + 1 |-> {id \in answer.want : f[id] = n - 1}]
        /\ \A id \in answer.want : f[id] <= M
        /\ M = 0 \/ \E id \in answer.want : f[id] = M
  BY WavesAre
<1>2. /\ f \in [answer.want -> Nat] /\ Layered(f) /\ Tight(f)
      /\ \A id \in answer.want : f[id] \in Nat
      /\ DOMAIN waves = 1 .. M + 1
  BY <1>1 DEF Inv, AnswerInv, TypeOK
<1>3. ASSUME NEW id \in answer.want PROVE InWave(id) = {f[id] + 1}
  <2>1. \A n \in 1 .. M + 1 : id \in waves[n] <=> f[id] = n - 1
    BY <1>1
  <2>2. f[id] \in 0 .. M
    BY <1>1, <1>2
  <2> HIDE DEF f
  <2>3. \A n \in 1 .. M + 1 : id \in waves[n] <=> n = f[id] + 1
    BY <2>1, <2>2
  <2>4. f[id] + 1 \in 1 .. M + 1
    BY <2>2
  <2> QED
    BY <1>2, <2>3, <2>4 DEF InWave
<1>4. ASSUME NEW id \in answer.want
      PROVE  \E n \in DOMAIN waves :
               /\ InWave(id) = {n}
               /\ \A p \in predecessors(id) \cap answer.want : \E m \in InWave(p) : m < n
               /\ n > 1 => \E p \in predecessors(id) \cap answer.want : p \in waves[n - 1]
  <2>1. f[id] + 1 \in DOMAIN waves
    BY <1>1, <1>2
  <2>2. ASSUME NEW p \in predecessors(id) \cap answer.want
        PROVE  \E m \in InWave(p) : m < f[id] + 1
    <3>1. f[p] < f[id]
      BY <1>2 DEF Layered
    <3>2. f[p] + 1 \in InWave(p) /\ f[p] + 1 < f[id] + 1
      BY <1>2, <1>3, <3>1
    <3> QED
      BY <3>2
  <2> DEFINE n == f[id] + 1
  <2>3. n > 1 => \E p \in predecessors(id) \cap answer.want : p \in waves[n - 1]
    <3>0. SUFFICES ASSUME n > 1
                   PROVE  \E p \in predecessors(id) \cap answer.want : p \in waves[n - 1]
      OBVIOUS
    <3>1. PICK p \in predecessors(id) \cap answer.want : f[id] = f[p] + 1
      BY <1>2, <3>0 DEF Tight
    <3>2. f[p] \in Nat /\ f[p] + 1 \in 1 .. M + 1 /\ n - 1 = f[p] + 1
      BY <1>1, <1>2, <3>1
    <3>3. p \in waves[f[p] + 1]
      BY <1>1, <3>2
    <3> QED
      BY <3>2, <3>3
  <2>4. /\ n \in DOMAIN waves /\ InWave(id) = {n}
        /\ \A p \in predecessors(id) \cap answer.want : \E m \in InWave(p) : m < n
        /\ n > 1 => \E p \in predecessors(id) \cap answer.want : p \in waves[n - 1]
    <3>1. n \in DOMAIN waves
      BY <2>1
    <3>2. InWave(id) = {n}
      BY <1>3
    <3>3. \A p \in predecessors(id) \cap answer.want : \E m \in InWave(p) : m < n
      BY <2>2
    <3>4. n > 1 => \E p \in predecessors(id) \cap answer.want : p \in waves[n - 1]
      BY <2>3
    <3> QED
      BY <3>1, <3>2, <3>3, <3>4
  <2> HIDE DEF n
  <2> QED
    BY <2>4
<1>5. ASSUME answer.want # {}, NEW n \in DOMAIN waves PROVE waves[n] # {}
  <2>1. PICK top \in answer.want : f[top] = M
    <3>1. CASE M = 0
      BY <1>1, <1>2, <1>5, <3>1
    <3> QED
      BY <1>1, <3>1
  <2>2. n - 1 \in 0 .. M
    BY <1>2
  <2>3. \E id \in answer.want : f[id] = n - 1
    BY <2>1, <2>2, NoHole
  <2> QED
    BY <1>1, <1>2, <2>3
<1> QED
  BY <1>4, <1>5 DEF WavesLayered

(* waves() partitions: until the graph changes, each job that was asked    *)
(* for is in one wave, after its wanted predecessors, directly after one   *)
(* of them or first; and there is no empty wave between.                   *)
THEOREM WavesAreLayers == Spec => []WavesLayered
BY LayeredWaves, Invariant, PTL

(* Only a call that returns changes what was answered. *)
LEMMA AnswerChanges ==
  ASSUME Inv, [Next]_vars, ~ waves_return
  PROVE  answer'.want = answer.want /\ answer'.wave_of = answer.wave_of
<1>1. CASE UNCHANGED vars
  BY <1>1 DEF vars
<1>2. ASSUME NEW id \in Ids, ensure_node(id) PROVE UNCHANGED answer
  BY <1>2 DEF ensure_node
<1>3. ASSUME NEW from \in Ids, NEW to \in Ids, add_edge(from, to)
      PROVE  answer'.want = answer.want /\ answer'.wave_of = answer.wave_of
  BY <1>3 DEF add_edge, Inv, Answers
<1>4. ASSUME NEW affected \in SUBSET Ids, waves_begin(affected) PROVE UNCHANGED answer
  BY <1>4 DEF waves_begin
<1>5. CASE waves_visit
  BY <1>5 DEF waves_visit
<1> QED
  BY <1>1, <1>2, <1>3, <1>4, <1>5 DEF Next

(* The new answer against the old one. *)
LEMMA Returned ==
  ASSUME Inv, waves_return
  PROVE  /\ answer'.want = want /\ answer'.wave_of = wave_of
         /\ wave_of \in [want -> Nat] /\ Layered(wave_of) /\ Tight(wave_of)
         /\ answer.wave_of \in [answer.want -> Nat] /\ Tight(answer.wave_of)
         /\ IsFiniteSet(want) /\ IsFiniteSet(answer.want)
BY AllMet, NodesFinite DEF Inv, TypeOK, LoopInv, AnswerInv, waves_return

LEMMA OnlyDelay ==
  ASSUME Inv, [Next]_vars, answer.want \subseteq answer'.want
  PROVE  \A id \in answer.want : answer.wave_of[id] <= answer'.wave_of[id]
<1>1. CASE waves_return
  <2>1. answer.want \subseteq want
    BY <1>1, Returned
  <2> QED
    BY <1>1, <2>1, Returned, TightIsLeast
<1>2. CASE ~ waves_return
  <2>1. \A id \in answer.want : answer.wave_of[id] \in Nat
    BY DEF Inv, TypeOK
  <2> QED
    BY <1>2, <2>1, AnswerChanges
<1> QED
  BY <1>1, <1>2

(* add_edge() and waves(): as the graph grows between calls, and with more *)
(* jobs asked for, a job moves to a later wave or stays, never to an       *)
(* earlier one.                                                            *)
THEOREM EdgesDelay == Spec => EdgesOnlyDelay
<1>1. Inv /\ [Next]_vars =>
        [answer.want \subseteq answer'.want =>
           \A id \in answer.want : answer.wave_of[id] <= answer'.wave_of[id]]_vars
  BY OnlyDelay
<1> QED
  BY <1>1, Invariant, PTL DEF Spec, EdgesOnlyDelay

LEMMA Determined ==
  ASSUME Inv, [Next]_vars, answer.same, answer'.want = answer.want
  PROVE  waves' = waves
<1>1. CASE waves_return
  <2>1. want = answer.want
    BY <1>1, Returned
  <2>2. Layered(answer.wave_of)
    BY DEF Inv, AnswerInv
  <2>3. \A id \in want : answer.wave_of[id] <= wave_of[id]
    BY <1>1, <2>1, Returned, TightIsLeast
  <2>4. \A id \in want : wave_of[id] <= answer.wave_of[id]
    BY <1>1, <2>1, <2>2, Returned, TightIsLeast
  <2>5. \A id \in want : wave_of[id] \in Nat /\ answer.wave_of[id] \in Nat
    BY <1>1, <2>1, Returned
  <2>6. \A id \in want : wave_of[id] = answer.wave_of[id]
    BY <2>3, <2>4, <2>5
  <2>7. answer'.wave_of = answer.wave_of
    BY <1>1, <2>1, <2>6, Returned
  <2> QED
    BY <2>7 DEF waves
<1>2. CASE ~ waves_return
  BY <1>2, AnswerChanges DEF waves
<1> QED
  BY <1>1, <1>2

(* waves() over toposort(): whichever order petgraph returns, a second     *)
(* call for the same jobs of an unchanged graph gives the same waves.      *)
THEOREM OrderIsIrrelevant == Spec => WavesDetermined
<1>1. Inv /\ [Next]_vars =>
        [answer.same /\ answer'.same /\ answer'.want = answer.want => waves' = waves]_vars
  BY Determined
<1> QED
  BY <1>1, Invariant, PTL DEF Spec, WavesDetermined

-----------------------------------------------------------------------------
(* validate() *)

(* Everyone before a job of S, and before the job itself, is in S. *)
Closed(id, S) ==
  /\ predecessors(id) \subseteq S
  /\ \A p \in S : predecessors(p) \subseteq S

LEMMA AncestorsLeast ==
  ASSUME NEW id
  PROVE  /\ Ancestors(id) \in SUBSET nodes /\ Closed(id, Ancestors(id))
         /\ \A T \in SUBSET nodes : Closed(id, T) => Ancestors(id) \subseteq T
<1> DEFINE Least(S) ==
             /\ predecessors(id) \subseteq S
             /\ \A p \in S : predecessors(p) \subseteq S
             /\ \A T \in SUBSET nodes :
                  predecessors(id) \subseteq T /\ (\A p \in T : predecessors(p) \subseteq T)
                    => S \subseteq T
           A == {n \in nodes : \A T \in SUBSET nodes : Closed(id, T) => n \in T}
<1>1. A \in SUBSET nodes /\ Least(A)
  <2>1. \A n : predecessors(n) \subseteq nodes
    BY DEF predecessors
  <2>2. predecessors(id) \subseteq A
    BY <2>1 DEF Closed
  <2>3. \A p \in A : predecessors(p) \subseteq A
    BY <2>1 DEF Closed
  <2>4. \A T \in SUBSET nodes :
          predecessors(id) \subseteq T /\ (\A p \in T : predecessors(p) \subseteq T) => A \subseteq T
    BY DEF Closed
  <2> QED
    BY <2>2, <2>3, <2>4
<1>2. Ancestors(id) = CHOOSE S \in SUBSET nodes : Least(S)
  BY DEF Ancestors
<1> HIDE DEF Least
<1>3. Ancestors(id) \in SUBSET nodes /\ Least(Ancestors(id))
  BY <1>1, <1>2
<1> QED
  BY <1>3 DEF Least, Closed

(* Where an order exists, what stands before a job is closed. *)
LEMMA OrderShowsAcyclic ==
  ASSUME TypeOK, NEW f \in toposort, NEW id \in nodes
  PROVE  id \notin Ancestors(id)
<1>1. PICK i \in DOMAIN f : f[i] = id
  BY OrderCovers
<1> DEFINE T == {n \in nodes : \E k \in DOMAIN f : k < i /\ f[k] = n}
<1>2. /\ DOMAIN f = 1 .. Cardinality(nodes) /\ DOMAIN f \subseteq Int
      /\ \A k, l \in DOMAIN f : <<f[k], f[l]>> \in edges => k < l
      /\ \A k, l \in DOMAIN f : f[k] = f[l] => k = l
  BY NodesFinite, OrderType DEF toposort, Enumerations
<1>3. ASSUME NEW k \in DOMAIN f, k <= i PROVE predecessors(f[k]) \subseteq T
  <2> SUFFICES ASSUME NEW p \in predecessors(f[k]) PROVE p \in T
    OBVIOUS
  <2>1. PICK l \in DOMAIN f : f[l] = p
    BY OrderCovers DEF predecessors
  <2>2. l < k
    BY <1>2, <2>1 DEF predecessors
  <2>3. l < i
    BY <1>1, <1>2, <1>3, <2>2
  <2> QED
    BY <2>1, <2>3 DEF predecessors
<1>4. predecessors(id) \subseteq T
  BY <1>1, <1>2, <1>3
<1>5. ASSUME NEW p \in T PROVE predecessors(p) \subseteq T
  <2>1. PICK k \in DOMAIN f : k < i /\ f[k] = p
    BY <1>5
  <2>2. k <= i
    BY <1>1, <1>2, <2>1
  <2> QED
    BY <1>3, <2>1, <2>2
<1>6. Ancestors(id) \subseteq T
  <2>1. Closed(id, T)
    BY <1>4, <1>5 DEF Closed
  <2>2. T \in SUBSET nodes
    OBVIOUS
  <2> HIDE DEF T
  <2> QED
    BY <2>1, <2>2, AncestorsLeast
<1>7. id \notin T
  BY <1>1, <1>2
<1> QED
  BY <1>6, <1>7

(* T can be listed in order, with nobody of it waiting for the rest. *)
Listed(T) ==
  /\ \A n \in T : predecessors(n) \subseteq T
  /\ \E f \in [1 .. Cardinality(T) -> T] :
       /\ \A i, k \in DOMAIN f : f[i] = f[k] => i = k
       /\ \A i, k \in DOMAIN f : <<f[i], f[k]>> \in edges => i < k

LEMMA EmptyListed == Listed({})
<1>1. Cardinality({}) = 0
  BY FS_EmptySet
<1>2. [i \in {} |-> 0] \in [1 .. 0 -> {}]
  OBVIOUS
<1> QED
  BY <1>1, <1>2 DEF Listed

LEMMA ListedMore ==
  ASSUME TypeOK, NEW T \in SUBSET nodes, Listed(T), NEW x \in nodes \ T,
         predecessors(x) \subseteq T
  PROVE  Listed(T \cup {x})
<1> DEFINE c == Cardinality(T)
<1>1. PICK f \in [1 .. c -> T] :
        /\ \A i, k \in DOMAIN f : f[i] = f[k] => i = k
        /\ \A i, k \in DOMAIN f : <<f[i], f[k]>> \in edges => i < k
  BY DEF Listed
<1>2. c \in Nat /\ Cardinality(T \cup {x}) = c + 1
  BY NodesFinite, FS_CardinalityType, FS_AddElement
<1> DEFINE g == [i \in 1 .. c + 1 |-> IF i = c + 1 THEN x ELSE f[i]]
<1> HIDE DEF c
<1>3. /\ g \in [1 .. c + 1 -> T \cup {x}] /\ DOMAIN g = 1 .. c + 1
      /\ g[c + 1] = x
      /\ \A i \in 1 .. c + 1 : i = c + 1 \/ (i \in 1 .. c /\ g[i] = f[i] /\ g[i] \in T)
  BY <1>1, <1>2
<1> HIDE DEF g
<1>4. \A i, k \in DOMAIN g : g[i] = g[k] => i = k
  BY <1>1, <1>3
<1>5. ASSUME NEW i \in DOMAIN g, NEW k \in DOMAIN g, <<g[i], g[k]>> \in edges
      PROVE  i < k
  <2>1. i \in 1 .. c
    <3>1. SUFFICES ASSUME i = c + 1 PROVE FALSE
      BY <1>3
    <3>2. x \in predecessors(g[k])
      BY <1>3, <1>5, <3>1 DEF predecessors
    <3>3. g[k] \in T \/ g[k] = x
      BY <1>3
    <3>4. x \in T
      BY <3>2, <3>3 DEF Listed
    <3> QED
      BY <3>4
  <2>2. CASE k = c + 1
    BY <1>2, <2>1, <2>2
  <2>3. CASE k # c + 1
    <3>1. k \in DOMAIN f /\ i \in DOMAIN f /\ g[i] = f[i] /\ g[k] = f[k]
      BY <1>1, <1>2, <1>3, <2>1, <2>3
    <3> QED
      BY <1>1, <1>5, <3>1
  <2> QED
    BY <2>2, <2>3
<1>6. \A n \in T \cup {x} : predecessors(n) \subseteq T \cup {x}
  BY DEF Listed
<1> QED
  BY <1>2, <1>3, <1>4, <1>5, <1>6 DEF Listed

(* Without a cycle, a list that is as long as can be has every node: of    *)
(* the others, one with the fewest ancestors could be appended.            *)
LEMMA AcyclicIsOrdered ==
  ASSUME TypeOK, \A id \in nodes : id \notin Ancestors(id)
  PROVE  toposort # {}
<1> DEFINE C == {T \in SUBSET nodes : Listed(T)}
           h == [T \in C |-> 0 - Cardinality(T)]
<1>1. \A T \in C : IsFiniteSet(T) /\ Cardinality(T) \in Nat
  BY NodesFinite, FS_CardinalityType
<1>2. h \in [C -> Int] /\ \A T \in C : h[T] = 0 - Cardinality(T)
  BY <1>1
<1>3. IsFiniteSet(C) /\ C # {}
  <2>1. IsFiniteSet(SUBSET nodes)
    BY NodesFinite, FS_SUBSET
  <2>2. C \subseteq SUBSET nodes
    OBVIOUS
  <2>3. IsFiniteSet(C)
    <3> HIDE DEF C
    <3> QED
      BY <2>1, <2>2, FS_Subset
  <2> QED
    BY <2>3, EmptyListed
<1>4. PICK T \in C : \A U \in C : h[T] <= h[U]
  <2> HIDE DEF C, h
  <2> QED
    BY <1>2, <1>3, LeastOf
<1>5. T \in SUBSET nodes /\ Listed(T) /\ IsFiniteSet(T) /\ Cardinality(T) \in Nat
  BY <1>1
<1>6. T = nodes
  <2>1. SUFFICES ASSUME nodes \ T # {} PROVE FALSE
    BY <1>5
  <2> DEFINE R == nodes \ T
             a == [n \in R |-> Cardinality(Ancestors(n))]
  <2>2. \A n \in nodes : IsFiniteSet(Ancestors(n)) /\ Cardinality(Ancestors(n)) \in Nat
    BY NodesFinite, AncestorsLeast, FS_CardinalityType
  <2>3. a \in [R -> Int] /\ IsFiniteSet(R) /\ \A n \in R : a[n] = Cardinality(Ancestors(n))
    BY <2>2, NodesFinite
  <2>4. PICK x \in R : \A y \in R : a[x] <= a[y]
    <3> HIDE DEF R, a
    <3> QED
      BY <2>1, <2>3, LeastOf DEF R
  <2>5. ASSUME NEW p \in predecessors(x) PROVE p \in T
    <3>1. SUFFICES ASSUME p \in R PROVE FALSE
      BY DEF predecessors
    <3>2. p \in Ancestors(x) /\ Closed(p, Ancestors(x))
      BY AncestorsLeast DEF Closed
    <3>3. Ancestors(p) \subseteq Ancestors(x) /\ p \notin Ancestors(p)
      BY <3>1, <3>2, AncestorsLeast
    <3>4. Cardinality(Ancestors(p)) < Cardinality(Ancestors(x))
      <4>1. x \in nodes /\ p \in nodes
        BY DEF predecessors
      <4>2. Ancestors(p) # Ancestors(x)
        BY <3>2, <3>3
      <4>3. /\ Cardinality(Ancestors(p)) <= Cardinality(Ancestors(x))
            /\ Cardinality(Ancestors(p)) # Cardinality(Ancestors(x))
        BY <2>2, <3>3, <4>1, <4>2, FS_Subset
      <4> QED
        BY <2>2, <4>1, <4>3
    <3>5. a[x] <= a[p]
      BY <2>4, <3>1
    <3> QED
      BY <2>2, <2>3, <3>1, <3>4, <3>5
  <2>6. T \cup {x} \in C
    BY <1>5, <2>5, ListedMore
  <2>7. Cardinality(T \cup {x}) = Cardinality(T) + 1
    BY <1>5, FS_AddElement
  <2>8. h[T] <= h[T \cup {x}] /\ h[T] = 0 - Cardinality(T)
        /\ h[T \cup {x}] = 0 - Cardinality(T \cup {x})
    BY <1>2, <1>4, <2>6
  <2> QED
    BY <1>5, <2>7, <2>8
<1>7. PICK f \in [1 .. Cardinality(nodes) -> nodes] :
        /\ \A i, k \in DOMAIN f : f[i] = f[k] => i = k
        /\ \A i, k \in DOMAIN f : <<f[i], f[k]>> \in edges => i < k
  BY <1>5, <1>6 DEF Listed
<1> QED
  BY <1>7 DEF toposort, Enumerations

(* add_edge() interns only what an edge names. *)
Interned == \A n \in nodes : n \in declared \/ \E e \in edges : n \in {e[1], e[2]}

LEMMA InternedStep == Interned /\ [Next]_vars => Interned'
<1> SUFFICES ASSUME Interned, [Next]_vars PROVE Interned'
  OBVIOUS
<1>1. ASSUME NEW id \in Ids, ensure_node(id) PROVE Interned'
  BY <1>1 DEF ensure_node, Interned
<1>2. ASSUME NEW from \in Ids, NEW to \in Ids, add_edge(from, to) PROVE Interned'
  <2>1. /\ nodes' = nodes \cup {from, to} /\ edges' = edges \cup {<<from, to>>}
        /\ declared' = declared
    BY <1>2 DEF add_edge
  <2>2. <<from, to>>[1] = from /\ <<from, to>>[2] = to
    OBVIOUS
  <2> SUFFICES ASSUME NEW n \in nodes', n \notin declared'
               PROVE  \E e \in edges' : n \in {e[1], e[2]}
    BY DEF Interned
  <2>3. CASE n \in {from, to}
    BY <2>1, <2>2, <2>3
  <2>4. CASE n \in nodes
    BY <2>1, <2>4 DEF Interned
  <2> QED
    BY <2>1, <2>3, <2>4
<1>3. CASE UNCHANGED graph
  BY <1>3 DEF graph, Interned
<1> QED
  BY <1>1, <1>2, <1>3 DEF Next, waves_begin, waves_visit, waves_return, vars

LEMMA ExactValidate == TypeOK /\ Interned => ValidateExact
<1> SUFFICES ASSUME TypeOK, Interned PROVE ValidateExact
  OBVIOUS
<1>1. validate = "Ok" <=> nodes \ declared = {} /\ Acyclic
  BY DEF validate
<1>2. nodes \ declared = {} <=> \A e \in edges : e[1] \in declared /\ e[2] \in declared
  <2>1. \A e \in edges : e[1] \in nodes /\ e[2] \in nodes
    BY DEF TypeOK
  <2> QED
    BY <2>1 DEF Interned
<1>3. Acyclic <=> \A id \in nodes : id \notin Ancestors(id)
  BY OrderShowsAcyclic, AcyclicIsOrdered DEF Acyclic
<1> QED
  BY <1>1, <1>2, <1>3 DEF ValidateExact

(* validate() says Ok exactly when every endpoint of every edge went       *)
(* through ensure_node() and no job waits for itself through its           *)
(* predecessors: so a graph that passed has waves.                         *)
THEOREM ValidateFindsAll == Spec => []ValidateExact
<1>1. Init => Interned
  BY DEF Init, Interned
<1>2. Inv => TypeOK
  BY DEF Inv
<1> QED
  BY <1>1, <1>2, InternedStep, ExactValidate, Invariant, PTL DEF Spec
=============================================================================
