------------------------------- MODULE MCRank -------------------------------
(***************************************************************************)
(* Three units of one tier and a fourth below them, and weights under      *)
(* which being passed over once outweighs most of a full backlog.          *)
(***************************************************************************)
EXTENDS Rank

MCClass == [u \in Units |-> IF u = 1 THEN "Low" ELSE "High"]
MCWeights == [staleness |-> 1, behind_target |-> 2, drift |-> 1, fairness_deficit |-> 2]
MCStaleness == [u \in Units |-> 0]
MCDrift == [u \in Units |-> IF u = 2 THEN 1 ELSE 0]
=============================================================================
