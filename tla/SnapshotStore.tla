--------------------------- MODULE SnapshotStore ----------------------------
(***************************************************************************)
(* shigoto-scheduler/src/store.rs: JsonFileSchedulerStore, which writes a  *)
(* snapshot to the `.json.tmp' sibling and renames it over the file.  The  *)
(* file system (external) is two names for files and the files' contents;  *)
(* the process may stop at any point, and what it wrote before stays.      *)
(* Loss of writes that the operating system has accepted is left out.      *)
(***************************************************************************)
EXTENDS Naturals, FiniteSets

CONSTANTS
  Savers,      \* the concurrent callers of save()
  Snapshots,   \* what they save
  Empty,       \* the default snapshot, which carries no jobs
  Files,       \* file identities; one is reused once nothing refers to it
  NoFile,
  Unparseable  \* text that is no snapshot

(* What an instance gives the constants. *)
StoreAssumption ==
  /\ NoFile \notin Files
  /\ Unparseable \notin Snapshots
  /\ Empty \in Snapshots

VARIABLES
  path, tmp,           \* the files the two names stand for
  content,             \* of every file: a snapshot, or text that does not parse
  shared,              \* the files two savers had open at the same time
  pc, snapshot, open   \* of every saver: where it is, what it saves, its file

vars == <<path, tmp, content, shared, pc, snapshot, open>>

(* Names and savers refer to files; a writing saver has one open. *)
TypeOK ==
  /\ path \in Files \cup {NoFile} /\ tmp \in Files \cup {NoFile}
  /\ content \in [Files -> Snapshots \cup {Unparseable}]
  /\ shared \in SUBSET Files
  /\ pc \in [Savers -> {"idle", "write", "rename"}]
  /\ snapshot \in [Savers -> Snapshots]
  /\ open \in [Savers -> Files \cup {NoFile}]
  /\ \A s \in Savers : pc[s] = "write" <=> open[s] # NoFile

Init ==
  /\ path = NoFile /\ tmp = NoFile
  /\ content = [f \in Files |-> Unparseable]
  /\ shared = {}
  /\ pc = [s \in Savers |-> "idle"]
  /\ snapshot = [s \in Savers |-> Empty]
  /\ open = [s \in Savers |-> NoFile]

InUse == {path, tmp} \cup {open[s] : s \in Savers}

(* File::create(name): a new file, or the one that is there, truncated. *)
Created(name) == IF name # NoFile THEN {name} ELSE Files \ InUse

Opens(s, snap, f) ==
  /\ content' = [content EXCEPT ![f] = Unparseable]
  /\ shared' = IF \E u \in Savers : open[u] = f THEN shared \cup {f} ELSE shared \ {f}
  /\ open' = [open EXCEPT ![s] = f]
  /\ pc' = [pc EXCEPT ![s] = "write"]
  /\ snapshot' = [snapshot EXCEPT ![s] = snap]

(* Mutant: the file itself is written, not its sibling. *)
CreateInPlace(s, snap) ==
  /\ pc[s] = "idle"
  /\ \E f \in Created(path) : path' = f /\ tmp' = f /\ Opens(s, snap, f)

CreateTmp(s, snap) ==
  /\ pc[s] = "idle"
  /\ \E f \in Created(tmp) : tmp' = f /\ Opens(s, snap, f)
  /\ UNCHANGED path

(* to_writer, flush and the end of the block that closes the file.  What   *)
(* two savers wrote into one file may be a mixture of both.                *)
Write(s) ==
  /\ pc[s] = "write"
  /\ \E text \in {snapshot[s]} \cup (IF open[s] \in shared THEN {Unparseable} ELSE {}) :
       content' = [content EXCEPT ![open[s]] = text]
  /\ open' = [open EXCEPT ![s] = NoFile]
  /\ pc' = [pc EXCEPT ![s] = "rename"]
  /\ UNCHANGED <<path, tmp, shared, snapshot>>

(* An io or serialisation error while writing: save() returns Err. *)
WriteFails(s) ==
  /\ pc[s] = "write"
  /\ open' = [open EXCEPT ![s] = NoFile]
  /\ snapshot' = [snapshot EXCEPT ![s] = Empty]
  /\ pc' = [pc EXCEPT ![s] = "idle"]
  /\ UNCHANGED <<path, tmp, content, shared>>

(* rename(tmp, path), which gives up the file that was there; it fails     *)
(* when another saver has taken tmp away.                                  *)
Rename(s) ==
  /\ pc[s] = "rename"
  /\ \/ tmp = NoFile /\ UNCHANGED <<path, tmp, content>>
     \/ /\ tmp # NoFile
        /\ path' = tmp /\ tmp' = NoFile
        /\ content' = [f \in Files |-> IF f = path THEN Unparseable ELSE content[f]]
  /\ snapshot' = [snapshot EXCEPT ![s] = Empty]
  /\ pc' = [pc EXCEPT ![s] = "idle"]
  /\ UNCHANGED <<shared, open>>

(* The process stops and is started again. *)
Crash ==
  /\ pc' = [s \in Savers |-> "idle"]
  /\ open' = [s \in Savers |-> NoFile]
  /\ snapshot' = [s \in Savers |-> Empty]
  /\ UNCHANGED <<path, tmp, content, shared>>

Next == \/ \E s \in Savers : \/ \E snap \in Snapshots : CreateTmp(s, snap)
                             \/ Write(s) \/ WriteFails(s) \/ Rename(s)
        \/ Crash

Spec == Init /\ [][Next]_vars

-----------------------------------------------------------------------------
(* Properties *)

(* What load() finds: nothing is an empty snapshot, not an error. *)
load == IF path = NoFile THEN Empty ELSE content[path]

(* "A crash mid-write never leaves a half-written, unparseable snapshot    *)
(* behind": whenever the process stops, what load() will find parses.      *)
FileParses == load # Unparseable

LoadsWhatWasSaved == load' # load => \E s \in Savers : pc[s] = "rename" /\ load' = snapshot[s]

(* save() replaces what was stored with the snapshot it was called with,   *)
(* in one step, or leaves it as it was.                                    *)
SavesAtomically == [][LoadsWhatWasSaved]_vars
=============================================================================
