----------------------------- MODULE MCRecovery -----------------------------
(***************************************************************************)
(* Instances of Recovery for TLC: the jobs of MCScheduler.                 *)
(***************************************************************************)
EXTENDS MCScheduler, Recovery
=============================================================================
