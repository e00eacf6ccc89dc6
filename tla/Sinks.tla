------------------------------- MODULE Sinks --------------------------------
(***************************************************************************)
(* The sinks of shigoto-types and shigoto-emit.  Concurrent recorders hand *)
(* their events to one MultiSink with two children, an InMemorySink and an *)
(* AuditFileSink, and the outputs of their jobs to the output map, while a *)
(* consumer drains both.  A mutex guards each; none spans two of them.     *)
(*                                                                         *)
(* The audit file (external) is what write(2) has appended to it: `writeln!' *)
(* on an unbuffered File writes the line and the newline in two calls, and *)
(* either may fail, the first one also half way through.                   *)
(***************************************************************************)
EXTENDS Naturals, Sequences, FiniteSets

CONSTANTS
  Recorders,   \* threads that record; each runs one job, again and again
  MaxEvents,   \* how many events a recorder records
  MaxFailures, \* how many writes fail
  MaxDrains,   \* how often the consumer drains
  Nobody

ASSUME SinksAssumption ==
  /\ MaxEvents \in Nat /\ MaxFailures \in Nat /\ MaxDrains \in Nat
  /\ Nobody \notin Recorders

VARIABLES
  pc,       \* of a recorder: the child its MultiSink::record has come to
  count,    \* events a recorder has begun to record
  events,   \* InMemorySink: the buffer
  drained,  \* what the consumer has taken from it
  file,     \* AuditFileSink: what the file holds
  holder,   \* and who holds the mutex of its File
  storage,  \* the output map: job to output
  received, \* the outputs the consumer has taken, the latest of every job
  failures, drains

sinkVars == <<events, drained, file, holder>>
outputVars == <<storage, received>>
vars == <<pc, count, events, drained, file, holder, storage, received, failures, drains>>

Event == [by : Recorders, n : 1..MaxEvents]
Whole(e) == [event |-> e, part |-> "whole"]
Torn(e) == [event |-> e, part |-> "torn"]
Newline(e) == [event |-> e, part |-> "newline"]
Piece == [event : Event, part : {"whole", "torn", "newline"}]

Current(r) == [by |-> r, n |-> count[r]]

Init ==
  /\ pc = [r \in Recorders |-> "idle"] /\ count = [r \in Recorders |-> 0]
  /\ events = <<>> /\ drained = <<>>
  /\ file = <<>> /\ holder = Nobody
  /\ storage = [r \in Recorders |-> 0] /\ received = [r \in Recorders |-> 0]
  /\ failures = 0 /\ drains = 0

Goto(r, label) == pc' = [pc EXCEPT ![r] = label]

(* Mutant: the first output of a job is the one that stays. *)
RecordOutputOnce(r) ==
  /\ pc[r] = "idle" /\ count[r] < MaxEvents
  /\ count' = [count EXCEPT ![r] = @ + 1]
  /\ storage' = [storage EXCEPT ![r] = IF @ = 0 THEN count'[r] ELSE @]
  /\ Goto(r, "memory")
  /\ UNCHANGED <<sinkVars, received, failures, drains>>

(* The job of r has run: its output is inserted in the map under the job's *)
(* id, and the event goes to MultiSink::record, one child after another.   *)
RecordOutput(r) ==
  /\ pc[r] = "idle" /\ count[r] < MaxEvents
  /\ count' = [count EXCEPT ![r] = @ + 1]
  /\ storage' = [storage EXCEPT ![r] = count'[r]]
  /\ Goto(r, "memory")
  /\ UNCHANGED <<sinkVars, received, failures, drains>>

(* Child 1, InMemorySink::record: lock and push. *)
RecordInMemory(r) ==
  /\ pc[r] = "memory"
  /\ events' = Append(events, Current(r))
  /\ Goto(r, "file")
  /\ UNCHANGED <<count, drained, file, holder, outputVars, failures, drains>>

(* Mutant: the mutex is not taken. *)
LockFileShared(r) ==
  /\ pc[r] = "file"
  /\ holder' = r
  /\ Goto(r, "line")
  /\ UNCHANGED <<count, events, drained, file, outputVars, failures, drains>>

(* Child 2, AuditFileSink::record: the event is serialised and the mutex   *)
(* of the file taken.                                                      *)
LockFile(r) ==
  /\ pc[r] = "file" /\ holder = Nobody
  /\ holder' = r
  /\ Goto(r, "line")
  /\ UNCHANGED <<count, events, drained, file, outputVars, failures, drains>>

(* Serialisation fails: reported on stderr, nothing is written. *)
SerializeFails(r) ==
  /\ pc[r] = "file" /\ failures < MaxFailures
  /\ failures' = failures + 1
  /\ Goto(r, "idle")
  /\ UNCHANGED <<count, sinkVars, outputVars, drains>>

WriteLine(r) ==
  /\ pc[r] = "line"
  /\ file' = Append(file, Whole(Current(r)))
  /\ Goto(r, "newline")
  /\ UNCHANGED <<count, events, drained, holder, outputVars, failures, drains>>

(* Mutant: write! where writeln! is meant. *)
WriteNoNewline(r) ==
  /\ pc[r] = "newline"
  /\ holder' = Nobody
  /\ Goto(r, "idle")
  /\ UNCHANGED <<count, events, drained, file, outputVars, failures, drains>>

(* The result of writeln! is dropped and the guard with it. *)
WriteNewline(r) ==
  /\ pc[r] = "newline"
  /\ file' = Append(file, Newline(Current(r)))
  /\ holder' = Nobody
  /\ Goto(r, "idle")
  /\ UNCHANGED <<count, events, drained, outputVars, failures, drains>>

(* A write fails: what it had written of the line stays, and so does a     *)
(* line whose newline it was.                                              *)
WriteFails(r) ==
  /\ pc[r] \in {"line", "newline"} /\ failures < MaxFailures
  /\ \/ file' = file
     \/ pc[r] = "line" /\ file' = Append(file, Torn(Current(r)))
  /\ failures' = failures + 1
  /\ holder' = Nobody
  /\ Goto(r, "idle")
  /\ UNCHANGED <<count, events, drained, outputVars, drains>>

(* Mutant: the buffer is cloned and not taken. *)
DrainByClone ==
  /\ drains < MaxDrains
  /\ drained' = drained \o events /\ events' = events
  /\ drains' = drains + 1
  /\ UNCHANGED <<pc, count, file, holder, outputVars, failures>>

(* InMemorySink::drain: the buffer is taken and left empty. *)
Drain ==
  /\ drains < MaxDrains
  /\ drained' = drained \o events /\ events' = <<>>
  /\ drains' = drains + 1
  /\ UNCHANGED <<pc, count, file, holder, outputVars, failures>>

(* The drain of the output map; 0 is a job that is not in it. *)
DrainOutputs ==
  /\ drains < MaxDrains
  /\ received' = [r \in Recorders |-> IF storage[r] = 0 THEN received[r] ELSE storage[r]]
  /\ storage' = [r \in Recorders |-> 0]
  /\ drains' = drains + 1
  /\ UNCHANGED <<pc, count, sinkVars, failures>>

AuditFileStep(r) == LockFile(r) \/ SerializeFails(r) \/ WriteLine(r) \/ WriteNewline(r) \/ WriteFails(r)

Next == \/ \E r \in Recorders : RecordOutput(r) \/ RecordInMemory(r) \/ AuditFileStep(r)
        \/ Drain \/ DrainOutputs

Spec == Init /\ [][Next]_vars

-----------------------------------------------------------------------------
(* Properties *)

(* How many of r's events have reached the first child. *)
Buffered(r) == IF pc[r] = "memory" THEN count[r] - 1 ELSE count[r]

(* What the consumer has got and what it will get with the next drain. *)
Delivered == drained \o events

(* However drains and recorders interleave, a consumer gets every event    *)
(* once, and those of one recorder in the order they were recorded.        *)
KeptInOrder ==
  /\ \A r \in Recorders :
       {Delivered[i].n : i \in {k \in DOMAIN Delivered : Delivered[k].by = r}} = 1..Buffered(r)
  /\ \A i, k \in DOMAIN Delivered :
       i < k /\ Delivered[i].by = Delivered[k].by => Delivered[i].n < Delivered[k].n

(* "Interleaved, not interleaved mid-line": no other writer comes between  *)
(* an event's line and its newline.                                        *)
LinesNotInterleaved ==
  \A i \in DOMAIN file : file[i].part = "newline" =>
    i > 1 /\ file[i - 1] = Whole(file[i].event)

(* The lines `jq' can read: a whole event between two newlines. *)
ReadableAt(i) == /\ i > 1 /\ file[i].part = "newline"
                 /\ file[i - 1].part = "whole"
                 /\ i > 2 => file[i - 2].part = "newline"

Readable == {file[i].event : i \in {k \in DOMAIN file : ReadableAt(k)}}

InFile(r) == IF pc[r] = "idle" THEN count[r] ELSE count[r] - 1
Returned == {e \in Event : e.n <= InFile(e.by)}

(* Errors are absorbed, and what they cost is bounded: a failure spoils    *)
(* its own line and at most the one that is appended to it.                *)
FailureSpoilsTwo == Cardinality(Returned \ Readable) <= 2 * failures

(* A consumer that drains the output map now and then ends up with the     *)
(* latest output of every job.                                             *)
LatestOutputKept ==
  \A r \in Recorders : count[r] = IF storage[r] = 0 THEN received[r] ELSE storage[r]
=============================================================================
