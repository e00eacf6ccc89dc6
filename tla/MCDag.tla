------------------------------- MODULE MCDag --------------------------------
(***************************************************************************)
(* Every graph of three jobs, with every self-loop and cycle that four     *)
(* edges allow.  The jobs are alike.                                       *)
(***************************************************************************)
EXTENDS Dag, TLC

Symmetry == Permutations(Ids)
=============================================================================
