------------------------------ MODULE Recovery ------------------------------
(***************************************************************************)
(* A scheduler with a SchedulerStore: snapshot_state() and save() while    *)
(* ticks are under way, a process that stops, and a new process that       *)
(* builds a scheduler, load()s and restore_state()s before it ticks.       *)
(*                                                                         *)
(* The store is SnapshotStore with one saver, whose steps interleave with  *)
(* those of the ticks.  The registrations (jobs, gates, policies, budget)  *)
(* are the consumer's code and are the same again.                         *)
(***************************************************************************)
EXTENDS Scheduler

CONSTANTS
  Saver,                      \* the thread that snapshots and saves
  Files, NoFile, Unparseable, \* as in SnapshotStore
  MaxCrashes                  \* bound: restarts in a behaviour

VARIABLES
  path, tmp, content, shared, \* the file system, as in SnapshotStore
  saving, snapshot, open,     \* save(): where it is, what it saves, its file
  up,        \* is the scheduler running, or waiting for restore_state?
  crashes,
  resumed    \* history variable: how often a restart found the job Running since
             \* its last Ready -> Running

fileVars == <<path, tmp, content, shared, saving, snapshot, open>>
storeVars == <<fileVars, up, crashes>>
rvars == <<vars, storeVars, resumed>>

Snapshot == [phase : [Jobs -> JobPhase], until : [Jobs -> Int],
             attempts : [Jobs -> Nat], history : [Jobs -> Seq(Nat)]]

(* The default snapshot of a missing file carries no jobs. *)
EmptySnapshot ==
  [phase |-> [j \in Jobs |-> "Pending"], until |-> [j \in Jobs |-> 0],
   attempts |-> [j \in Jobs |-> 0], history |-> [j \in Jobs |-> <<>>]]

FS == INSTANCE SnapshotStore
        WITH Savers <- {Saver}, Snapshots <- Snapshot, Empty <- EmptySnapshot, pc <- saving

ASSUME RecoveryAssumption == MaxCrashes \in Nat /\ FS!StoreAssumption

(* What load() would return. *)
file == FS!load

(* The types of the scheduler and of the store. *)
RTypeOK ==
  /\ TypeOK
  /\ FS!TypeOK
  /\ up \in BOOLEAN
  /\ crashes \in 0 .. MaxCrashes
  /\ resumed \in [Jobs -> Nat]

RInit ==
  /\ Init
  /\ FS!Init
  /\ up = TRUE
  /\ crashes = 0
  /\ resumed = [j \in Jobs |-> 0]

project == [phase |-> phase, until |-> until, attempts |-> attempts, history |-> history]

(* Mutant: the file itself is written, not its sibling. *)
SnapshotInPlace ==
  /\ up
  /\ FS!CreateInPlace(Saver, project)
  /\ UNCHANGED <<vars, up, crashes, resumed>>

(* snapshot_state(), under one read lock, and save() up to its first write. *)
SnapshotState ==
  /\ up
  /\ FS!CreateTmp(Saver, project)
  /\ UNCHANGED <<vars, up, crashes, resumed>>

(* The rest of save(). *)
Save ==
  /\ up
  /\ FS!Write(Saver) \/ FS!WriteFails(Saver) \/ FS!Rename(Saver)
  /\ UNCHANGED <<vars, up, crashes, resumed>>

(* The process stops; everything but the files, the audit log, the gates'  *)
(* world and the clock is gone.  What has been executed stays executed.    *)
Crash ==
  /\ up /\ crashes < MaxCrashes
  /\ up' = FALSE /\ crashes' = crashes + 1
  /\ FS!Crash
  /\ phase' = [j \in Jobs |-> "Pending"]
  /\ until' = [j \in Jobs |-> 0]
  /\ registered' = Jobs \ Unregistered
  /\ attempts' = [j \in Jobs |-> 0]
  /\ history' = [j \in Jobs |-> <<>>]
  /\ running' = [e \in Envelopes |-> 0]
  /\ pc' = [t \in Tickers |-> "idle"]
  /\ cursor' = [t \in Tickers |-> FirstCursor]
  /\ job' = [t \in Tickers |-> Waves[1][1]]
  /\ view' = [t \in Tickers |-> NoView]
  /\ signal' = [t \in Tickers |-> NoSignal]
  /\ deadline' = [t \in Tickers |-> 0]
  /\ tasks' = [t \in Tickers |-> {}]
  /\ results' = [t \in Tickers |-> {}]
  /\ outcome' = [t \in Tickers |-> "None"]
  /\ unhealed' = [t \in Tickers |-> {}]
  /\ op' = [o \in Operators |-> [op[o] EXCEPT !.pc = "idle"]]
  /\ UNCHANGED <<now, verdict, ops, emitted, executions, resumed>>

Attempts == [j \in Jobs |-> IF file.attempts[j] > 0 THEN file.attempts[j] ELSE attempts[j]]
History == [j \in Jobs |-> IF file.history[j] # <<>> THEN file.history[j] ELSE history[j]]

Restored(phases, counters, slots) ==
  /\ ~up /\ up' = TRUE
  /\ FS!FileParses
  /\ phase' = phases /\ until' = file.until
  /\ attempts' = counters /\ history' = History
  /\ running' = slots
  /\ resumed' = [j \in Jobs |-> IF phases[j] = "Running" THEN resumed[j] + 1 ELSE resumed[j]]
  /\ UNCHANGED <<registered, now, verdict, tickVars, op, ops, emitted, executions,
                 fileVars, crashes>>

(* Mutants: the attempt counters are not restored; only unfinished jobs    *)
(* are; every unfinished job is charged to the budget.                     *)
RestoreWithoutAttempts == Restored(file.phase, attempts, running)
RestoreUnfinished ==
  Restored([j \in Jobs |-> IF is_terminal(file.phase[j]) THEN phase[j] ELSE file.phase[j]],
           Attempts, running)
RestoreCharged ==
  Restored(file.phase, Attempts,
           [e \in Envelopes |->
              Cardinality({j \in Jobs : e \in EnvelopesOf[j] /\ ~is_terminal(file.phase[j])})])

(* load() and restore_state(): a counter or a history that the snapshot    *)
(* does not carry is left as it is; the budget is not touched.  When       *)
(* load() fails nothing is restored.                                       *)
RestoreState == Restored(file.phase, Attempts, running)

(* A job that becomes Running by a transition has not been resumed. *)
Resumption ==
  resumed' = [j \in Jobs |-> IF phase[j] # "Running" /\ phase'[j] = "Running"
                             THEN 0 ELSE resumed[j]]

Live == up /\ Next /\ Resumption /\ UNCHANGED storeVars

RNext == Live \/ SnapshotState \/ Save \/ Crash \/ RestoreState

RSpec == RInit /\ [][RNext]_rvars

(* As for the scheduler; and a process that stopped is started again. *)
RFairness ==
  /\ \A t \in Tickers : WF_rvars(up /\ TickStep(t) /\ Resumption /\ UNCHANGED storeVars)
  /\ \A t \in Tickers, j \in Jobs :
       WF_rvars(/\ up
                /\ Return(t, j, "Ok") \/ Return(t, j, "Err")
                /\ Resumption /\ UNCHANGED storeVars)
  /\ WF_rvars(up /\ ClockAdvances /\ Resumption /\ UNCHANGED storeVars)
  /\ WF_rvars(RestoreState)

FairRSpec == RSpec /\ RFairness

-----------------------------------------------------------------------------
(* Properties *)

(* "A crash mid-write never leaves a half-written, unparseable snapshot    *)
(* behind": at every step of save(), tick() and a crash, what load() will  *)
(* find parses (JsonFileSchedulerStore::save).                             *)
FileParses == FS!FileParses

(* save() replaces what was stored with the snapshot it was called with,   *)
(* in one step, or leaves it as it was, whatever fails or stops on the way. *)
SavesAtomically == FS!SavesAtomically

(* What the stored snapshot says is finished stays finished: no restart    *)
(* runs a job again that a saved snapshot carries as Succeeded.            *)
StoredSuccessStays ==
  up => \A j \in Jobs : file.phase[j] = "Succeeded" => phase[j] = "Succeeded"

(* Over all processes, execute() is called for one Ready -> Running once,  *)
(* and once more for every restart that finds the job Running: "a          *)
(* scheduler that crashes between completing a side effect and emitting    *)
(* Succeeded will re-invoke execute on the next cycle" (Job), and nothing  *)
(* else does while no task panics (execute_concurrent, restore_state).     *)
ReexecutedOnlyByRestart == \A j \in Jobs : executions[j] <= 1 + resumed[j]

(* A restart neither forgets nor invents failures: through save, crash and *)
(* restore the retry account of a job still fits its phase (RetryAccount   *)
(* without the reset that a snapshot may catch half done), and the history *)
(* is still the last failures of the counter.                              *)
RestoredAccount ==
  /\ HistoryMatches
  /\ \A j \in Jobs :
       /\ phase[j] \in {"Retrying", "Failed", "Deadlettered"} => attempts[j] > 0
       /\ phase[j] = "Retrying" => ~Deadletters(Policy[j], attempts[j], "Transient")
       /\ phase[j] = "Deadlettered" => Deadletters(Policy[j], attempts[j], "Transient")
=============================================================================
