-------------------------------- MODULE Dag ---------------------------------
(***************************************************************************)
(* shigoto-dag: the dependency graph a consumer builds and its partition   *)
(* into waves.  petgraph (external) is the graph itself and the order      *)
(* toposort() returns, which may be any topological one.                   *)
(*                                                                         *)
(* waves() is a call of several steps, one per job of the order it walks;  *)
(* it borrows the graph, which therefore does not change under it.  The    *)
(* consumer keeps what the last call returned.                             *)
(***************************************************************************)
EXTENDS Naturals, FiniteSets, FiniteSetsExt

CONSTANTS
  Ids,        \* the JobIds
  MaxEdges    \* bound: edges of a graph

ASSUME DagAssumption == IsFiniteSet(Ids) /\ MaxEdges \in Nat

VARIABLES
  nodes,      \* the keys of `index', i.e. the nodes of `graph'
  declared,   \* the jobs that went through ensure_node
  edges,      \* the edges of `graph', as pairs
  pc,         \* is a call of waves() under way?
  order, at,  \* the order it walks, and where it is
  want,       \* the jobs it was asked for
  wave_of,    \* the wave of every wanted job it has met
  \* history variable: what the last call was asked and found, and whether
  \* the graph is still the one it saw
  answer

graph == <<nodes, declared, edges>>
call == <<pc, order, at, want, wave_of>>
vars == <<graph, call, answer>>

NoWaves == [id \in {} |-> 0]

(* Every edge joins nodes, and what is declared is a node; a call orders   *)
(* all nodes and gives waves to wanted ones.                               *)
TypeOK ==
  /\ nodes \in SUBSET Ids
  /\ declared \in SUBSET nodes
  /\ edges \in SUBSET (nodes \X nodes)
  /\ pc \in {"idle", "loop"}
  /\ pc = "loop" => order \in [1 .. Cardinality(nodes) -> nodes]
  /\ at \in 1 .. Cardinality(nodes) + 1
  /\ want \in SUBSET nodes
  /\ DOMAIN wave_of \subseteq want /\ wave_of \in [DOMAIN wave_of -> Nat]
  /\ answer.want \in SUBSET nodes
  /\ answer.wave_of \in [answer.want -> Nat]
  /\ answer.same \in BOOLEAN

Init ==
  /\ nodes = {} /\ declared = {} /\ edges = {}
  /\ pc = "idle" /\ order = <<>> /\ at = 1 /\ want = {} /\ wave_of = NoWaves
  /\ answer = [want |-> {}, wave_of |-> NoWaves, same |-> TRUE]

-----------------------------------------------------------------------------
(* The graph *)

(* Idempotent, as are both operations. *)
ensure_node(id) ==
  /\ pc = "idle"
  /\ nodes' = nodes \cup {id}
  /\ declared' = declared \cup {id}
  /\ UNCHANGED <<edges, call, answer>>

(* Mutant: only the first endpoint is interned. *)
add_edge_half(from, to) ==
  /\ pc = "idle"
  /\ Cardinality(edges \cup {<<from, to>>}) <= MaxEdges
  /\ nodes' = nodes \cup {from}
  /\ edges' = edges \cup {<<from, to>>}
  /\ answer' = [answer EXCEPT !.same = @ /\ edges' = edges]
  /\ UNCHANGED <<declared, call>>

(* The endpoints are interned but not declared. *)
add_edge(from, to) ==
  /\ pc = "idle"
  /\ Cardinality(edges \cup {<<from, to>>}) <= MaxEdges
  /\ nodes' = nodes \cup {from, to}
  /\ edges' = edges \cup {<<from, to>>}
  /\ answer' = [answer EXCEPT !.same = @ /\ edges' = edges]
  /\ UNCHANGED <<declared, call>>

predecessors(id) == {p \in nodes : <<p, id>> \in edges}

(* The nodes in any order.  (Mutant of toposort: any will do.) *)
Enumerations ==
  {f \in [1 .. Cardinality(nodes) -> nodes] : \A i, k \in DOMAIN f : f[i] = f[k] => i = k}

(* The orders toposort() may return; none when the graph has a cycle. *)
toposort ==
  {f \in Enumerations : \A i, k \in DOMAIN f : <<f[i], f[k]>> \in edges => i < k}

Acyclic == toposort # {}

(* Mutant: a dangling edge is not looked for. *)
validate_cycles == IF Acyclic THEN "Ok" ELSE "Cycle"

validate == CASE nodes \ declared # {} -> "DanglingEdge"
              [] nodes \subseteq declared /\ ~Acyclic -> "Cycle"
              [] OTHER -> "Ok"

-----------------------------------------------------------------------------
(* waves(affected) *)

(* On a cyclic graph the call ends here, with an Err.  What is affected    *)
(* but no node is never met.                                               *)
waves_begin(affected) ==
  /\ pc = "idle"
  /\ order' \in toposort
  /\ want' = affected \cap nodes
  /\ wave_of' = NoWaves /\ at' = 1 /\ pc' = "loop"
  /\ UNCHANGED <<graph, answer>>

(* Mutant: the shallowest parent decides. *)
DepthOfNearest(id) ==
  LET parents == predecessors(id) \cap DOMAIN wave_of
  IN  IF parents = {} THEN 0 ELSE Min({wave_of[p] : p \in parents}) + 1

(* One more than the deepest parent that has been given a wave. *)
Depth(id) ==
  LET parents == predecessors(id) \cap DOMAIN wave_of
  IN  IF parents = {} THEN 0 ELSE Max({wave_of[p] : p \in parents}) + 1

(* An iteration of the loop over the order. *)
waves_visit ==
  /\ pc = "loop" /\ at \in DOMAIN order
  /\ LET id == order[at]
     IN  wave_of' = IF id \in want
                    THEN [n \in DOMAIN wave_of \cup {id} |->
                            IF n = id THEN Depth(id) ELSE wave_of[n]]
                    ELSE wave_of
  /\ at' = at + 1
  /\ UNCHANGED <<graph, pc, order, want, answer>>

waves_return ==
  /\ pc = "loop" /\ at \notin DOMAIN order
  /\ answer' = [want |-> want, wave_of |-> wave_of, same |-> TRUE]
  /\ pc' = "idle" /\ order' = <<>> /\ at' = 1 /\ want' = {} /\ wave_of' = NoWaves
  /\ UNCHANGED graph

(* What the last call returned: wave n is the n-th element.  A call for no *)
(* node has one empty wave.  A wave is sorted by a key that no definition  *)
(* here depends on, so it is left a set.                                   *)
waves ==
  LET depth == answer.wave_of
  IN  [n \in 1 .. Max({0} \cup {depth[id] : id \in answer.want}) + 1 |->
         {id \in answer.want : depth[id] = n - 1}]

Next == \/ \E id \in Ids : ensure_node(id)
        \/ \E from, to \in Ids : add_edge(from, to)
        \/ \E affected \in SUBSET Ids : waves_begin(affected)
        \/ waves_visit \/ waves_return

Spec == Init /\ [][Next]_vars

-----------------------------------------------------------------------------
(* Properties *)

InWave(id) == {n \in DOMAIN waves : id \in waves[n]}

(* waves(): until the graph changes, every job that was asked for is in    *)
(* exactly one wave, after all its wanted predecessors, and no later than  *)
(* they demand: a job that is not in the first wave has a predecessor in   *)
(* the wave just before.  Only who asks for nothing gets an empty wave.    *)
WavesLayered ==
  answer.same =>
    /\ \A id \in answer.want : \E n \in DOMAIN waves :
         /\ InWave(id) = {n}
         /\ \A p \in predecessors(id) \cap answer.want : \E m \in InWave(p) : m < n
         /\ n > 1 => \E p \in predecessors(id) \cap answer.want : p \in waves[n - 1]
    /\ answer.want # {} => \A n \in DOMAIN waves : waves[n] # {}

(* The partition is the graph's, not the traversal's: whichever order      *)
(* petgraph returns, a second call for the same jobs of an unchanged graph *)
(* gives the same waves.                                                   *)
WavesDetermined ==
  [][answer.same /\ answer'.same /\ answer'.want = answer.want => waves' = waves]_vars

(* New edges can only move jobs to later waves, never to earlier ones, and *)
(* so does asking for more jobs: a Dag that grows between ticks does not   *)
(* run a job before its turn.                                              *)
EdgesOnlyDelay ==
  [][answer.want \subseteq answer'.want =>
       \A id \in answer.want : answer.wave_of[id] <= answer'.wave_of[id]]_vars

(* validate() is what a consumer needs to know before ticking: it says Ok  *)
(* exactly when every endpoint of every edge was declared by ensure_node   *)
(* and no job waits for itself through its predecessors.                   *)
Ancestors(id) ==
  CHOOSE S \in SUBSET nodes :
    /\ predecessors(id) \subseteq S
    /\ \A p \in S : predecessors(p) \subseteq S
    /\ \A T \in SUBSET nodes :
         predecessors(id) \subseteq T /\ (\A p \in T : predecessors(p) \subseteq T) => S \subseteq T

ValidateExact ==
  validate = "Ok" <=> /\ \A e \in edges : e[1] \in declared /\ e[2] \in declared
                      /\ \A id \in nodes : id \notin Ancestors(id)
=============================================================================
