------------------------------ MODULE WorkGraph -----------------------------
(***************************************************************************)
(* What the scheduler promises its consumers, without ticks, locks, gates  *)
(* or retries: jobs of a dependency graph are started, given back or       *)
(* finished, a job starts only when all its predecessors are done and only *)
(* within every concurrency cap it is charged to, and done is final.       *)
(***************************************************************************)
EXTENDS Naturals, FiniteSets

CONSTANTS Jobs, Preds, Envelopes, EnvelopesOf, Cap, Unbounded

VARIABLE status

Init == status = [j \in Jobs |-> "waiting"]

Busy(e) == {j \in Jobs : status[j] = "running" /\ e \in EnvelopesOf[j]}

Start(j) ==
  /\ status[j] = "waiting"
  /\ \A p \in Preds[j] : status[p] = "done"
  /\ \A e \in EnvelopesOf[j] : Cap[e] # Unbounded => Cardinality(Busy(e)) < Cap[e]
  /\ status' = [status EXCEPT ![j] = "running"]

(* execute() succeeded. *)
Finish(j) == status[j] = "running" /\ status' = [status EXCEPT ![j] = "done"]

(* execute() failed: the job waits for a retry, or to be given up. *)
GiveBack(j) == status[j] = "running" /\ status' = [status EXCEPT ![j] = "waiting"]

(* A gate skipped the job, or its retries are exhausted. *)
Abandon(j) == status[j] = "waiting" /\ status' = [status EXCEPT ![j] = "done"]

Next == \E j \in Jobs : Start(j) \/ Finish(j) \/ GiveBack(j) \/ Abandon(j)

Spec == Init /\ [][Next]_status
=============================================================================
