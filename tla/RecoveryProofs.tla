--------------------------- MODULE RecoveryProofs ---------------------------
(***************************************************************************)
(* Restarts, for every Dag, policy, set of snapshots and number of ticks:  *)
(* the stored file is sound at every step of the scheduler, of save() and  *)
(* of a crash, and what it carries survives.  That finished jobs stay so   *)
(* and in order needs that no operator re-opens one; what the account of a *)
(* job needs, and that only a restart executes it again, is one ticker.    *)
(***************************************************************************)
EXTENDS SoloProofs, Recovery

-----------------------------------------------------------------------------
(* The store: JsonFileSchedulerStore with one saver.  With two savers,     *)
(* FileParses does not hold.                                               *)

LEMMA StoreConstants ==
  NoFile \notin Files /\ Unparseable \notin Snapshot /\ EmptySnapshot \in Snapshot
BY RecoveryAssumption DEF FS!StoreAssumption

(* No file has two writers, the file under its final name is not the one   *)
(* being written, and the sibling is complete before it is renamed.        *)
StoreInv ==
  /\ FS!TypeOK
  /\ shared = {}
  /\ path = tmp => path = NoFile
  /\ saving[Saver] = "write" => open[Saver] = tmp
  /\ saving[Saver] = "rename" => tmp # NoFile /\ content[tmp] = snapshot[Saver]
  /\ path # NoFile => content[path] # Unparseable

LEMMA StoreInit == FS!Init => StoreInv
BY StoreConstants DEF FS!Init, StoreInv, FS!TypeOK

LEMMA StoreCreate ==
  ASSUME NEW snap \in Snapshot, StoreInv, FS!CreateTmp(Saver, snap)
  PROVE  StoreInv' /\ file' = file
<1>1. PICK f \in FS!Created(tmp) : tmp' = f /\ FS!Opens(Saver, snap, f)
  BY DEF FS!CreateTmp
<1>2. saving[Saver] = "idle" /\ path' = path
  BY DEF FS!CreateTmp
<1>3. f \in Files /\ f # path
  BY DEF FS!Created, FS!InUse, StoreInv, FS!TypeOK
<1>4. open[Saver] = NoFile
  BY <1>2 DEF StoreInv, FS!TypeOK
<1>5. shared' = {}
  BY <1>1, <1>3, <1>4, StoreConstants DEF FS!Opens, StoreInv
<1>6. FS!TypeOK'
  BY <1>1, <1>2, <1>3, <1>5 DEF FS!Opens, StoreInv, FS!TypeOK
<1>7. saving'[Saver] = "write" /\ open'[Saver] = f /\ tmp' = f
  BY <1>1 DEF FS!Opens, StoreInv, FS!TypeOK
<1>8. path # NoFile => content'[path] = content[path]
  BY <1>1, <1>3 DEF FS!Opens, StoreInv, FS!TypeOK
<1> QED
  BY <1>2, <1>3, <1>5, <1>6, <1>7, <1>8 DEF StoreInv, FS!load, file

LEMMA StoreWrite ==
  ASSUME StoreInv, FS!Write(Saver)
  PROVE  StoreInv' /\ file' = file
<1>1. open[Saver] = tmp /\ tmp \in Files /\ tmp # path
  BY DEF FS!Write, StoreInv, FS!TypeOK
<1>2. content' = [content EXCEPT ![tmp] = snapshot[Saver]]
  BY <1>1 DEF FS!Write, StoreInv
<1>3. FS!TypeOK'
  BY <1>1, <1>2 DEF FS!Write, StoreInv, FS!TypeOK
<1>4. content'[tmp] = snapshot[Saver] /\ (path # NoFile => content'[path] = content[path])
  BY <1>1, <1>2 DEF StoreInv, FS!TypeOK
<1>5. saving'[Saver] = "rename" /\ UNCHANGED <<path, tmp, shared, snapshot>>
  BY DEF FS!Write, StoreInv, FS!TypeOK
<1> QED
  BY <1>1, <1>3, <1>4, <1>5, StoreConstants DEF StoreInv, FS!load, file

LEMMA StoreRename ==
  ASSUME StoreInv, FS!Rename(Saver)
  PROVE  StoreInv' /\ file' = snapshot[Saver]
<1>1. tmp \in Files /\ content[tmp] = snapshot[Saver]
  BY DEF FS!Rename, StoreInv, FS!TypeOK
<1>2. path' = tmp /\ tmp' = NoFile /\ UNCHANGED <<shared, open>>
  BY <1>1, StoreConstants DEF FS!Rename
<1>3. content' = [f \in Files |-> IF f = path THEN Unparseable ELSE content[f]]
  BY <1>1, StoreConstants DEF FS!Rename
<1>4. FS!TypeOK' /\ saving'[Saver] = "idle"
  BY <1>1, <1>2, <1>3, StoreConstants DEF FS!Rename, StoreInv, FS!TypeOK
<1>5. content'[tmp] = content[tmp] /\ content[tmp] # Unparseable
  BY <1>1, <1>3, StoreConstants DEF StoreInv, FS!TypeOK
<1> QED
  BY <1>1, <1>2, <1>4, <1>5, StoreConstants DEF StoreInv, FS!load, file

LEMMA StoreQuiet ==
  ASSUME StoreInv, FS!WriteFails(Saver) \/ FS!Crash \/ UNCHANGED FS!vars
  PROVE  StoreInv' /\ file' = file
<1>1. CASE FS!WriteFails(Saver)
  BY <1>1, StoreConstants DEF FS!WriteFails, StoreInv, FS!TypeOK, FS!load, file
<1>2. CASE FS!Crash
  BY <1>2, StoreConstants DEF FS!Crash, StoreInv, FS!TypeOK, FS!load, file
<1>3. CASE UNCHANGED FS!vars
  BY <1>3 DEF FS!vars, StoreInv, FS!TypeOK, FS!load, file
<1> QED
  BY <1>1, <1>2, <1>3

(* StoreInv is kept, and only Rename changes what load() finds.            *)
LEMMA StoreStep ==
  ASSUME StoreInv, [FS!Next]_(FS!vars)
  PROVE  StoreInv' /\ (file' = file \/ (saving[Saver] = "rename" /\ file' = snapshot[Saver]))
<1>1. CASE \E snap \in Snapshot : FS!CreateTmp(Saver, snap)
  BY <1>1, StoreCreate
<1>2. CASE FS!Write(Saver)
  BY <1>2, StoreWrite
<1>3. CASE FS!Rename(Saver)
  <2>1. saving[Saver] = "rename"
    BY <1>3 DEF FS!Rename
  <2> QED
    BY <1>3, <2>1, StoreRename
<1>4. CASE FS!WriteFails(Saver) \/ FS!Crash \/ UNCHANGED FS!vars
  BY <1>4, StoreQuiet
<1> QED
  BY <1>1, <1>2, <1>3, <1>4 DEF FS!Next

(* save() (create the sibling, write, close, rename) and a crash at any    *)
(* point of it: the file under the final name always parses.               *)
THEOREM FileAlwaysParses == FS!Spec => []FS!FileParses
<1>1. StoreInv /\ [FS!Next]_(FS!vars) => StoreInv'
  BY StoreStep
<1>2. StoreInv => FS!FileParses
  BY StoreConstants DEF StoreInv, FS!FileParses, FS!load
<1> QED
  BY <1>1, <1>2, StoreInit, PTL DEF FS!Spec

(* What load() finds changes only by a rename, and then to the snapshot    *)
(* that save() was called with: an old or a new state, never a mixture.    *)
THEOREM SaveIsAtomic == FS!Spec => FS!SavesAtomically
<1>1. StoreInv /\ [FS!Next]_(FS!vars) => StoreInv'
  BY StoreStep
<1>2. StoreInv /\ [FS!Next]_(FS!vars) => [FS!LoadsWhatWasSaved]_(FS!vars)
  BY StoreStep DEF FS!LoadsWhatWasSaved, file
<1> QED
  BY <1>1, <1>2, StoreInit, PTL DEF FS!Spec, FS!SavesAtomically

-----------------------------------------------------------------------------
(* Types *)

(* Between a crash and the restore nothing of the scheduler is under way. *)
Down == ~up => saving[Saver] = "idle" /\ \A t \in Tickers : pc[t] = "idle"

TypeInv ==
  /\ TypeOK
  /\ StoreInv
  /\ up \in BOOLEAN /\ crashes \in 0 .. MaxCrashes
  /\ resumed \in [Jobs -> Nat]
  /\ Down

LEMMA ProjectType == TypeOK => project \in Snapshot
BY DEF project, Snapshot, TypeOK, DataOK

LEMMA FileType ==
  ASSUME StoreInv
  PROVE  file \in Snapshot
BY StoreConstants DEF StoreInv, FS!TypeOK, file, FS!load

(* Every step of Recovery is a step of the store, or leaves it alone. *)
LEMMA StoreMoves ==
  ASSUME TypeOK, [RNext]_rvars
  PROVE  [FS!Next]_(FS!vars)
<1>1. CASE UNCHANGED fileVars
  BY <1>1 DEF fileVars, FS!vars
<1>2. CASE SnapshotState
  BY <1>2, ProjectType DEF SnapshotState, FS!Next
<1>3. CASE Save
  BY <1>3 DEF Save, FS!Next
<1>4. CASE Crash
  BY <1>4 DEF Crash, FS!Next
<1>5. CASE Live
  BY <1>1, <1>5 DEF Live, storeVars
<1>6. CASE RestoreState
  BY <1>1, <1>6 DEF RestoreState, Restored
<1> QED
  BY <1>1, <1>2, <1>3, <1>4, <1>5, <1>6 DEF RNext, rvars, storeVars

LEMMA StoreKept ==
  ASSUME TypeOK, StoreInv, [RNext]_rvars
  PROVE  /\ StoreInv'
         /\ \/ file' = file
            \/ saving[Saver] = "rename" /\ file' = snapshot[Saver]
BY StoreMoves, StoreStep

LEMMA CrashType == TypeOK /\ Crash => TypeOK'
<1> SUFFICES ASSUME TypeOK, Crash PROVE TypeOK'
  OBVIOUS
<1>1. ControlOK'
  BY FirstCursorOK DEF Crash, ControlOK, TickPc
<1>2. op' \in [Operators -> OperatorCall]
  BY DEF Crash, TypeOK, DataOK, OperatorCall
<1>3. DataOK'
  BY <1>2 DEF Crash, TypeOK, DataOK, JobPhase, View, NoView, NoSignal
<1> QED
  BY <1>1, <1>3 DEF TypeOK

LEMMA RestoreType == TypeOK /\ StoreInv /\ RestoreState => TypeOK'
<1> SUFFICES ASSUME TypeOK, StoreInv, RestoreState PROVE TypeOK'
  OBVIOUS
<1>1. file \in Snapshot
  BY FileType
<1>2. Attempts \in [Jobs -> Nat] /\ History \in [Jobs -> Seq(Nat)]
  BY <1>1 DEF Attempts, History, Snapshot, TypeOK, DataOK
<1> QED
  BY <1>1, <1>2 DEF RestoreState, Restored, Snapshot, TypeOK, ControlOK, DataOK, tickVars

LEMMA TypeInvInit == RInit => TypeInv
<1> SUFFICES ASSUME RInit PROVE TypeInv
  OBVIOUS
<1>1. TypeOK
  BY InitType DEF RInit
<1>2. StoreInv
  BY StoreConstants, StoreInit DEF RInit
<1>3. up = TRUE /\ crashes \in 0 .. MaxCrashes /\ resumed \in [Jobs -> Nat]
  BY RecoveryAssumption DEF RInit
<1> QED
  BY <1>1, <1>2, <1>3 DEF TypeInv, Down

LEMMA TypeInvStep == TypeInv /\ [RNext]_rvars => TypeInv'
<1> SUFFICES ASSUME TypeInv, [RNext]_rvars PROVE TypeInv'
  OBVIOUS
<1> USE DEF TypeInv
<1>1. StoreInv'
  BY StoreKept
<1>2. TypeOK'
  <2>1. CASE UNCHANGED vars
    BY <2>1, NextType
  <2>2. CASE Live
    BY <2>2, NextType DEF Live
  <2>3. CASE SnapshotState \/ Save
    BY <2>1, <2>3 DEF SnapshotState, Save
  <2> QED
    BY <2>1, <2>2, <2>3, CrashType, RestoreType DEF RNext, rvars
<1>3. up' \in BOOLEAN /\ crashes' \in 0 .. MaxCrashes
  <2>1. CASE Crash
    <3>1. crashes < MaxCrashes /\ up' = FALSE /\ crashes' = crashes + 1
      BY <2>1 DEF Crash
    <3>2. MaxCrashes \in Nat /\ crashes \in 0 .. MaxCrashes
      BY RecoveryAssumption
    <3>3. crashes' \in 0 .. MaxCrashes
      BY <3>1, <3>2
    <3> QED
      BY <3>1, <3>3
  <2> QED
    BY <2>1 DEF RNext, Live, SnapshotState, Save, RestoreState, Restored, rvars, storeVars
<1>4. Down'
  <2>1. CASE Crash
    BY <2>1 DEF Crash, FS!Crash, Down
  <2>2. CASE up'
    BY <2>2 DEF Down
  <2>3. CASE UNCHANGED rvars
    BY <2>3 DEF Down, vars, tickVars, rvars, storeVars, fileVars
  <2> QED
    BY <2>1, <2>2, <2>3
       DEF RNext, Live, SnapshotState, Save, RestoreState, Restored, rvars, storeVars
<1>5. resumed' \in [Jobs -> Nat]
  BY DEF RNext, Live, Resumption, SnapshotState, Save, Crash, RestoreState, Restored, rvars
<1> QED
  BY <1>1, <1>2, <1>3, <1>4, <1>5

LEMMA TypeInvariant == RSpec => []TypeInv
BY TypeInvInit, TypeInvStep, PTL DEF RSpec

(* Every variable of the scheduler, of the file system and of save() keeps *)
(* its type through crashes and restores (InProcessScheduler::             *)
(* restore_state, JsonFileSchedulerStore::save).                           *)
THEOREM RestartTypes == RSpec => []RTypeOK
<1>1. TypeInv => RTypeOK
  BY DEF TypeInv, RTypeOK, StoreInv
<1> QED
  BY <1>1, TypeInvariant, PTL

(* Whatever the ticks do and wherever the process stops, load() finds a    *)
(* snapshot that parses: restore_state is never refused.                   *)
THEOREM RestartFindsASnapshot == RSpec => []FileParses
<1>1. TypeInv => FileParses
  <2>1. Unparseable \notin Snapshot
    BY RecoveryAssumption DEF FS!StoreAssumption
  <2> QED
    BY <2>1, FileType DEF TypeInv, FileParses, FS!FileParses, file
<1> QED
  BY <1>1, TypeInvariant, PTL

(* What load() finds changes only to the snapshot being saved, at once. *)
THEOREM RestartSavesAtomically == RSpec => SavesAtomically
<1>1. TypeInv /\ [RNext]_rvars => [FS!LoadsWhatWasSaved]_(FS!vars)
  BY StoreKept DEF TypeInv, FS!LoadsWhatWasSaved, file
<1> QED
  BY <1>1, TypeInvariant, PTL DEF RSpec, SavesAtomically, FS!SavesAtomically

-----------------------------------------------------------------------------
(* What the snapshots carry *)

(* The snapshots that a restart may still find: the stored one and the one *)
(* that is being saved.                                                    *)
Saved == {file} \cup (IF saving[Saver] = "idle" THEN {} ELSE {snapshot[Saver]})

Ordered(s) ==
  \A j \in Jobs : s.phase[j] \in Started => \A p \in Preds[j] : is_terminal(s.phase[p])
Kept(s) == \A j \in Jobs : s.phase[j] = "Succeeded" => phase[j] = "Succeeded"

(* DagOrder and StoredSuccessStays are not inductive: a snapshot that is   *)
(* still being written must be as good as the one that it will replace.    *)
RestartInv ==
  /\ TypeInv
  /\ OrderInv
  /\ \A s \in Saved : Ordered(s) /\ (up => Kept(s))

(* No step makes up a snapshot: only snapshot_state() adds one. *)
LEMMA SavedStep ==
  ASSUME TypeInv, [RNext]_rvars, NEW s \in Saved'
  PROVE  s \in Saved \/ (s = project /\ SnapshotState)
<1>1. s = file' => s \in Saved
  BY StoreKept DEF TypeInv, Saved
<1>2. ASSUME saving'[Saver] # "idle", s = snapshot'[Saver]
      PROVE  s \in Saved \/ (s = project /\ SnapshotState)
  <2>1. CASE UNCHANGED fileVars
    BY <1>2, <2>1 DEF fileVars, Saved
  <2>2. CASE SnapshotState
    <3>1. snapshot'[Saver] = project
      BY <2>2 DEF SnapshotState, FS!CreateTmp, FS!Opens, TypeInv, StoreInv, FS!TypeOK
    <3> QED
      BY <1>2, <2>2, <3>1
  <2>3. CASE Save
    <3>1. FS!Write(Saver) /\ saving[Saver] = "write" /\ snapshot' = snapshot
      BY <1>2, <2>3 DEF Save, FS!Write, FS!WriteFails, FS!Rename, TypeInv, StoreInv, FS!TypeOK
    <3> QED
      BY <1>2, <3>1 DEF Saved
  <2>4. CASE Crash
    BY <1>2, <2>4 DEF Crash, FS!Crash
  <2> QED
    BY <2>1, <2>2, <2>3, <2>4 DEF RNext, Live, RestoreState, Restored, rvars, storeVars
<1> QED
  BY <1>1, <1>2 DEF Saved

LEMMA RestartInit == ASSUME Operators = {} PROVE RInit => RestartInv
<1> SUFFICES ASSUME RInit PROVE RestartInv
  OBVIOUS
<1>1. Saved = {EmptySnapshot}
  BY DEF RInit, FS!Init, Saved, file, FS!load
<1>2. Ordered(EmptySnapshot) /\ Kept(EmptySnapshot)
  BY DEF Ordered, Kept, EmptySnapshot, Started
<1> QED
  BY <1>1, <1>2, TypeInvInit, OrderInit DEF RestartInv, RInit

LEMMA LiveKeeps ==
  ASSUME RestartInv, Operators = {}, [Next]_vars, NEW s, Kept(s)
  PROVE  Kept(s)'
BY TerminalStays DEF RestartInv, OrderInv, Kept, is_terminal

LEMMA RestartStep ==
  ASSUME Operators = {}, RestartInv, [RNext]_rvars
  PROVE  RestartInv'
<1>1. TypeInv'
  BY TypeInvStep DEF RestartInv
<1>2. [Next]_vars \/ Crash \/ RestoreState
  BY DEF RNext, Live, SnapshotState, Save, rvars
<1>3. file \in Saved
  BY DEF Saved
<1>4. OrderInv'
  <2>1. TypeOK'
    BY <1>1 DEF TypeInv
  <2>2. CASE Crash
    <3>1. DagOrder'
      BY <2>2 DEF Crash, DagOrder, Started
    <3>2. \A t \in Tickers : pc'[t] = "idle"
      BY <2>2 DEF Crash
    <3> QED
      BY <2>1, <3>1, <3>2 DEF OrderInv, Passing
  <2>3. CASE RestoreState
    <3>1. phase' = file.phase /\ pc' = pc /\ ~up
      BY <2>3 DEF RestoreState, Restored, tickVars
    <3>2. DagOrder'
      BY <1>3, <3>1 DEF RestartInv, Ordered, DagOrder, UpstreamsTerminal
    <3>3. \A t \in Tickers : pc'[t] = "idle"
      BY <3>1 DEF RestartInv, TypeInv, Down
    <3> QED
      BY <2>1, <3>2, <3>3 DEF OrderInv, Passing
  <2> QED
    BY <1>2, <2>2, <2>3, OrderStep DEF RestartInv
<1>5. ASSUME NEW s \in Saved' PROVE Ordered(s)
  <2>1. Ordered(project)
    BY DEF RestartInv, OrderInv, DagOrder, UpstreamsTerminal, Ordered, project
  <2> QED
    BY <1>5, <2>1, SavedStep DEF RestartInv
<1>6. ASSUME NEW s \in Saved', up' PROVE Kept(s)'
  <2>1. CASE SnapshotState
    <3>1. phase' = phase /\ up
      BY <2>1 DEF SnapshotState, vars, stateVars
    <3>2. Kept(project)
      BY DEF Kept, project
    <3> QED
      BY <1>6, <3>1, <3>2, SavedStep DEF RestartInv, Kept
  <2>2. CASE RestoreState
    <3>1. phase' = file.phase /\ file' = file /\ saving' = saving /\ saving[Saver] = "idle"
      BY <2>2 DEF RestoreState, Restored, fileVars, file, FS!load, RestartInv, TypeInv, Down
    <3>2. s = file
      BY <1>6, <3>1 DEF Saved
    <3> QED
      BY <3>1, <3>2 DEF Kept
  <2>3. CASE ~SnapshotState /\ [Next]_vars /\ up
    BY <1>6, <2>3, SavedStep, LiveKeeps DEF RestartInv
  <2> QED
    BY <1>6, <2>1, <2>2, <2>3 DEF RNext, Live, Save, Crash, rvars, storeVars
<1> QED
  BY <1>1, <1>4, <1>5, <1>6 DEF RestartInv

LEMMA RestartInvariant == ASSUME Operators = {} PROVE RSpec => []RestartInv
<1>1. RestartInv /\ [RNext]_rvars => RestartInv'
  BY RestartStep
<1> QED
  BY <1>1, RestartInit, PTL DEF RSpec

(* Without operators, a restart from a snapshot that was taken anywhere in *)
(* a tick never has a job past its gates whose predecessors are not done   *)
(* (snapshot_state reads all phases under one lock).                       *)
THEOREM RestartKeepsOrder == ASSUME Operators = {} PROVE RSpec => []DagOrder
<1>1. RestartInv => DagOrder
  BY DEF RestartInv, OrderInv
<1> QED
  BY <1>1, RestartInvariant, PTL

(* Without operators, a job that the stored snapshot carries as Succeeded  *)
(* is Succeeded, before and after any number of restarts.                  *)
THEOREM RestartKeepsSuccess == ASSUME Operators = {} PROVE RSpec => []StoredSuccessStays
<1>1. RestartInv => StoredSuccessStays
  BY DEF RestartInv, Saved, Kept, StoredSuccessStays
<1> QED
  BY <1>1, RestartInvariant, PTL
-----------------------------------------------------------------------------
(* The account of a job over restarts, with a single ticker. *)

(* A snapshot that a scheduler may go on from: RestoredAccount, of it.     *)
SoundSnapshot(s) ==
  \A j \in Jobs :
    /\ s.phase[j] # "WaitingForOperator"
    /\ s.phase[j] \in {"Retrying", "Failed", "Deadlettered"} => s.attempts[j] > 0
    /\ s.phase[j] = "Retrying" => ~Deadletters(Policy[j], s.attempts[j], "Transient")
    /\ s.phase[j] = "Deadlettered" => Deadletters(Policy[j], s.attempts[j], "Transient")
    /\ s.history[j] = Latest(s.attempts[j])

(* The scheduler that a restore writes into has counted nothing yet: what  *)
(* the snapshot does not carry is 0 there as well.                         *)
Blank ==
  /\ \A j \in Jobs : attempts[j] = 0 /\ history[j] = <<>>
  /\ \A u \in Tickers : pc[u] = "idle" /\ tasks[u] = {} /\ results[u] = {} /\ outcome[u] = "None"
  /\ \A o \in Operators : op[o].pc = "idle"

AccountInv(t) ==
  /\ TypeInv
  /\ SoloInv(t)
  /\ HistoryMatches
  /\ ~up => Blank
  /\ \A s \in Saved : SoundSnapshot(s)

(* An idle tick and operators at rest fit any phases that fit the account. *)
LEMMA SoloAtRest ==
  ASSUME NEW t, Solo(t), TypeOK, AccountFits, \A j \in Jobs : phase[j] # "WaitingForOperator",
         \A u \in Tickers : pc[u] = "idle" /\ tasks[u] = {} /\ results[u] = {} /\ outcome[u] = "None",
         \A o \in Operators : op[o].pc = "idle"
  PROVE  SoloInv(t)
BY DEF Solo, SoloInv, ViewFresh, SignalFresh, ResultsFresh, OperatorFresh

LEMMA AccountInit ==
  ASSUME NEW t, Solo(t)
  PROVE  RInit => AccountInv(t)
<1> SUFFICES ASSUME RInit PROVE AccountInv(t)
  OBVIOUS
<1>1. SoloInv(t)
  BY SoloInit DEF Solo, RInit
<1>2. HistoryMatches
  BY HistoryIsLatest, NoneLatest DEF RInit, Init
<1>3. Saved = {EmptySnapshot}
  BY DEF RInit, FS!Init, Saved, file, FS!load
<1>4. SoundSnapshot(EmptySnapshot)
  BY NoneLatest DEF SoundSnapshot, EmptySnapshot
<1> QED
  BY <1>1, <1>2, <1>3, <1>4, TypeInvInit DEF AccountInv, RInit

(* What snapshot_state() reads in the middle of a tick is sound. *)
LEMMA ProjectSound ==
  ASSUME NEW t, AccountInv(t)
  PROVE  SoundSnapshot(project)
BY HistoryIsLatest DEF AccountInv, SoloInv, OperatorFresh, AccountFits, SoundSnapshot, project

LEMMA CrashAccount ==
  ASSUME NEW t, Solo(t), AccountInv(t), TypeInv', Crash
  PROVE  SoloInv(t)' /\ HistoryMatches' /\ Blank'
<1>1. \A o \in Operators : op'[o].pc = "idle"
  BY DEF Crash, AccountInv, TypeInv, TypeOK, DataOK, OperatorCall
<1>2. Blank'
  BY <1>1 DEF Crash, Blank
<1>3. AccountFits' /\ \A j \in Jobs : phase'[j] # "WaitingForOperator"
  BY DEF Crash, AccountFits
<1>4. SoloInv(t)'
  BY <1>1, <1>2, <1>3 DEF TypeInv, Blank, Solo, SoloInv, ViewFresh, SignalFresh, ResultsFresh, OperatorFresh
<1>5. HistoryMatches'
  BY NoneLatest DEF Crash, HistoryMatches, Latest
<1> QED
  BY <1>2, <1>4, <1>5

LEMMA RestoreAccount ==
  ASSUME NEW t, Solo(t), AccountInv(t), TypeInv', RestoreState
  PROVE  SoloInv(t)' /\ HistoryMatches'
<1>1. /\ phase' = file.phase /\ attempts' = Attempts /\ history' = History /\ Blank
      /\ UNCHANGED <<tickVars, op>>
  BY DEF RestoreState, Restored, AccountInv
<1>2. file \in Snapshot /\ SoundSnapshot(file)
  BY FileType DEF AccountInv, TypeInv, Saved
<1>3. ASSUME NEW j \in Jobs
      PROVE  attempts'[j] = file.attempts[j] /\ history'[j] = file.history[j]
  <2>1. file.attempts[j] \in Nat
    BY <1>2 DEF Snapshot
  <2> QED
    BY <1>1, <2>1 DEF Attempts, History, Blank
<1>4. AccountFits' /\ \A j \in Jobs : phase'[j] # "WaitingForOperator"
  BY <1>1, <1>2, <1>3 DEF SoundSnapshot, AccountFits
<1>5. HistoryMatches'
  BY <1>2, <1>3 DEF SoundSnapshot, HistoryMatches, Latest
<1>6. SoloInv(t)'
  BY <1>1, <1>4 DEF Blank, tickVars, TypeInv, Solo, SoloInv, ViewFresh, SignalFresh, ResultsFresh,
                    OperatorFresh
<1> QED
  BY <1>5, <1>6

LEMMA AccountStep ==
  ASSUME NEW t, Solo(t), AccountInv(t), [RNext]_rvars
  PROVE  AccountInv(t)'
<1>1. TypeInv'
  BY TypeInvStep DEF AccountInv
<1>2. [Next]_vars \/ Crash \/ RestoreState
  BY DEF RNext, Live, SnapshotState, Save, rvars
<1>3. SoloInv(t)' /\ HistoryMatches'
  <2>1. CASE [Next]_vars
    BY <2>1, SoloStep, HistoryStep DEF AccountInv, SoloInv
  <2> QED
    BY <1>1, <1>2, <2>1, CrashAccount, RestoreAccount
<1>4. ASSUME ~up' PROVE Blank'
  <2>1. CASE UNCHANGED rvars
    BY <1>4, <2>1 DEF AccountInv, Blank, vars, stateVars, tickVars, rvars, storeVars
  <2> QED
    BY <1>1, <1>4, <2>1, CrashAccount
       DEF RNext, Live, SnapshotState, Save, RestoreState, Restored, rvars, storeVars
<1>5. ASSUME NEW s \in Saved' PROVE SoundSnapshot(s)
  BY <1>5, SavedStep, ProjectSound DEF AccountInv
<1>6. \A s : SoundSnapshot(s)' <=> SoundSnapshot(s)
  BY DEF SoundSnapshot, Latest
<1> QED
  BY <1>1, <1>3, <1>4, <1>5, <1>6 DEF AccountInv

LEMMA AccountInvariant == ASSUME NEW t, Solo(t) PROVE RSpec => []AccountInv(t)
<1>1. AccountInv(t) /\ [RNext]_rvars => AccountInv(t)'
  BY AccountStep
<1> QED
  BY <1>1, AccountInit, PTL DEF RSpec

(* With one ticker, a restart neither forgets nor invents a failure: the   *)
(* counter still fits the phase and the history the counter, whenever the  *)
(* snapshot was taken and the process stopped (restore_state).             *)
THEOREM RestartKeepsAccount == ASSUME NEW t, Solo(t) PROVE RSpec => []RestoredAccount
<1>1. AccountInv(t) => RestoredAccount
  BY DEF AccountInv, SoloInv, AccountFits, RestoredAccount
<1> QED
  BY <1>1, AccountInvariant, PTL

(* With one ticker, also the ticks of a restored scheduler do not fail.    *)
THEOREM RestartTicksDoNotFail == ASSUME NEW t, Solo(t) PROVE RSpec => []TickNeverFails
<1>1. AccountInv(t) => TickNeverFails
  BY DEF Solo, AccountInv, SoloInv, TickNeverFails
<1> QED
  BY <1>1, AccountInvariant, PTL

(* With one ticker and no panic, execute() is called over all processes at *)
(* most once for a Ready -> Running and once more for every restart that   *)
(* found the job Running (Job::execute, restore_state).                    *)
THEOREM RestartReexecutes ==
  ASSUME NEW t, Solo(t), MayPanic = {}
  PROVE  RSpec => []ReexecutedOnlyByRestart
<1> DEFINE Once == Awaited(t, resumed) /\ OnceMore(resumed)
<1>1. RInit => Once
  BY DEF Solo, RInit, Init, Awaited, OnceMore
<1>2. AccountInv(t) /\ AccountInv(t)' /\ Once /\ [RNext]_rvars => Once'
  <2> SUFFICES ASSUME AccountInv(t), AccountInv(t)', Once, [RNext]_rvars PROVE Once'
    OBVIOUS
  <2>1. CASE [Next]_vars /\ (Resumption \/ UNCHANGED resumed)
    <3>1. PICK b \in [Jobs -> Nat] : b = resumed
      BY DEF AccountInv, TypeInv
    <3>2. OnceInv(t, b)
      BY <3>1 DEF OnceInv, AccountInv
    <3>3. Awaited(t, b)' /\ OnceMore(b)' /\ Afresh
      BY <2>1, <3>2, OnceStep
    <3>4. \A j \in Jobs : \/ resumed'[j] = b[j]
                          \/ phase[j] # "Running" /\ phase'[j] = "Running"
      BY <2>1, <3>1 DEF Resumption
    <3>5. \A j \in Jobs : b[j] \in Nat /\ resumed'[j] \in Nat
      BY <3>1 DEF AccountInv, TypeInv
    <3> QED
      BY <3>3, <3>4, <3>5 DEF Awaited, OnceMore, Afresh
  <2>2. CASE Crash
    <3>1. \A j \in Jobs : phase'[j] = "Pending"
      BY <2>2 DEF Crash
    <3> QED
      BY <2>2, <3>1 DEF Crash, Awaited, OnceMore
  <2>3. CASE RestoreState
    <3>1. /\ UNCHANGED executions /\ phase' = file.phase
          /\ \A j \in Jobs :
               resumed'[j] = IF phase'[j] = "Running" THEN resumed[j] + 1 ELSE resumed[j]
      BY <2>3 DEF RestoreState, Restored
    <3>2. \A j \in Jobs : executions[j] \in Nat /\ resumed[j] \in Nat
      BY DEF AccountInv, TypeInv, TypeOK, DataOK
    <3> QED
      BY <3>1, <3>2 DEF Awaited, OnceMore
  <2> QED
    BY <2>1, <2>2, <2>3 DEF RNext, Live, SnapshotState, Save, rvars
<1>3. Once => ReexecutedOnlyByRestart
  BY DEF OnceMore, ReexecutedOnlyByRestart
<1> QED
  BY <1>1, <1>2, <1>3, AccountInvariant, PTL DEF RSpec
=============================================================================
