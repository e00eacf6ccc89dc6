----------------------------- MODULE SinksProofs ----------------------------
(***************************************************************************)
(* Proofs about Sinks, for any number of recorders, events, failures and   *)
(* drains: nothing that went to a sink is lost, doubled or reordered, and  *)
(* a failed write costs at most two lines of the audit file.               *)
(***************************************************************************)
EXTENDS Sinks, SequenceTheorems, FiniteSetTheorems, TLAPS

(* The events and the pieces of lines, without the bound on events. *)
AnyEvent == [by : Recorders, n : Nat]
AnyPiece == [event : AnyEvent, part : {"whole", "torn", "newline"}]

(* The types; a recorder that has an event in its hands has begun it. *)
TypeOK ==
  /\ pc \in [Recorders -> {"idle", "memory", "file", "line", "newline"}]
  /\ count \in [Recorders -> Nat]
  /\ events \in Seq(AnyEvent)
  /\ drained \in Seq(AnyEvent)
  /\ file \in Seq(AnyPiece)
  /\ holder \in Recorders \cup {Nobody}
  /\ storage \in [Recorders -> Nat] /\ received \in [Recorders -> Nat]
  /\ failures \in Nat /\ drains \in Nat
  /\ \A r \in Recorders : pc[r] # "idle" => count[r] > 0

Writing(r) == pc[r] \in {"line", "newline"}
LastPiece == file[Len(file)]

(* The mutex: who writes holds it, and a line without its newline is the   *)
(* last piece of the file while its writer holds on.                       *)
LineInv ==
  /\ \A r \in Recorders : Writing(r) <=> holder = r
  /\ \A r \in Recorders : pc[r] = "newline" => Len(file) > 0 /\ LastPiece = Whole(Current(r))
  /\ LinesNotInterleaved

(* What a recorder puts into the buffer or the file has its type. *)
LEMMA PieceTypes ==
  ASSUME TypeOK, NEW r \in Recorders
  PROVE  /\ Current(r) \in AnyEvent
         /\ Whole(Current(r)) \in AnyPiece
         /\ Torn(Current(r)) \in AnyPiece
         /\ Newline(Current(r)) \in AnyPiece
BY DEF TypeOK, Current, Whole, Torn, Newline, AnyEvent, AnyPiece

LEMMA AppendPiece ==
  ASSUME file \in Seq(AnyPiece), NEW p \in AnyPiece, file' = Append(file, p)
  PROVE  /\ file' \in Seq(AnyPiece)
         /\ Len(file) \in Nat /\ Len(file') = Len(file) + 1
         /\ DOMAIN file = 1..Len(file) /\ DOMAIN file' = 1..(Len(file) + 1)
         /\ file'[Len(file) + 1] = p
         /\ \A i \in 1..Len(file) : file'[i] = file[i]
BY AppendProperties, LenProperties

LEMMA InitTypes == Init => TypeOK
BY SinksAssumption DEF Init, TypeOK

LEMMA NextTypes == TypeOK /\ [Next]_vars => TypeOK'
<1> SUFFICES ASSUME TypeOK, [Next]_vars PROVE TypeOK'
  OBVIOUS
<1>1. ASSUME NEW r \in Recorders, RecordOutput(r) PROVE TypeOK'
  BY <1>1 DEF TypeOK, RecordOutput, Goto, sinkVars
<1>2. ASSUME NEW r \in Recorders, RecordInMemory(r) PROVE TypeOK'
  BY <1>2, PieceTypes DEF TypeOK, RecordInMemory, Goto, outputVars
<1>3. ASSUME NEW r \in Recorders, LockFile(r) PROVE TypeOK'
  BY <1>3 DEF TypeOK, LockFile, Goto, outputVars
<1>4. ASSUME NEW r \in Recorders, SerializeFails(r) PROVE TypeOK'
  BY <1>4 DEF TypeOK, SerializeFails, Goto, sinkVars, outputVars
<1>5. ASSUME NEW r \in Recorders, WriteLine(r) PROVE TypeOK'
  BY <1>5, PieceTypes, AppendPiece DEF TypeOK, WriteLine, Goto, outputVars
<1>6. ASSUME NEW r \in Recorders, WriteNewline(r) PROVE TypeOK'
  BY <1>6, PieceTypes, AppendPiece DEF TypeOK, WriteNewline, Goto, outputVars
<1>7. ASSUME NEW r \in Recorders, WriteFails(r) PROVE TypeOK'
  <2>1. file' \in Seq(AnyPiece)
    <3>1. file' = file \/ file' = Append(file, Torn(Current(r)))
      BY <1>7 DEF WriteFails
    <3> QED BY <3>1, PieceTypes, AppendPiece DEF TypeOK
  <2> QED BY <1>7, <2>1 DEF TypeOK, WriteFails, Goto, outputVars
<1>8. ASSUME Drain PROVE TypeOK'
  BY <1>8 DEF TypeOK, Drain, outputVars
<1>9. ASSUME DrainOutputs PROVE TypeOK'
  BY <1>9 DEF TypeOK, DrainOutputs, sinkVars
<1>10. CASE UNCHANGED vars
  BY <1>10 DEF vars, TypeOK
<1> QED BY <1>1, <1>2, <1>3, <1>4, <1>5, <1>6, <1>7, <1>8, <1>9, <1>10 DEF Next, AuditFileStep

LEMMA TypeCorrect == Spec => []TypeOK
BY InitTypes, NextTypes, PTL DEF Spec
-----------------------------------------------------------------------------
(* A newline that is appended follows its line. *)
LEMMA AppendKeepsLines ==
  ASSUME file \in Seq(AnyPiece), NEW p \in AnyPiece, file' = Append(file, p), LinesNotInterleaved,
         p.part = "newline" => Len(file) > 0 /\ LastPiece = Whole(p.event)
  PROVE  LinesNotInterleaved'
<1>1. /\ Len(file) \in Nat /\ DOMAIN file = 1..Len(file) /\ DOMAIN file' = 1..(Len(file) + 1)
      /\ file'[Len(file) + 1] = p /\ \A i \in 1..Len(file) : file'[i] = file[i]
  BY AppendPiece
<1> SUFFICES ASSUME NEW i \in 1..(Len(file) + 1), file'[i].part = "newline"
             PROVE  i > 1 /\ file'[i - 1] = Whole(file'[i].event)
  BY <1>1 DEF LinesNotInterleaved, Whole
<1>2. CASE i = Len(file) + 1
  <2>1. Len(file) > 0 /\ LastPiece = Whole(p.event)
    BY <1>1, <1>2
  <2>2. i > 1 /\ i - 1 = Len(file) /\ Len(file) \in 1..Len(file)
    BY <1>1, <1>2, <2>1
  <2> QED BY <1>1, <1>2, <2>1, <2>2 DEF LastPiece
<1>3. CASE i # Len(file) + 1
  <2>1. i \in 1..Len(file)
    BY <1>1, <1>3
  <2>2. i > 1 /\ file[i - 1] = Whole(file[i].event)
    BY <1>1, <2>1 DEF LinesNotInterleaved
  <2>3. i - 1 \in 1..Len(file)
    BY <1>1, <2>1, <2>2
  <2> QED BY <1>1, <2>1, <2>2, <2>3
<1> QED BY <1>2, <1>3

LEMMA NextLines == TypeOK /\ LineInv /\ [Next]_vars => LineInv'
<1> SUFFICES ASSUME TypeOK, LineInv, [Next]_vars PROVE LineInv'
  OBVIOUS
<1> USE SinksAssumption
<1>1. CASE \/ \E r \in Recorders : \/ RecordOutput(r) \/ RecordInMemory(r) \/ SerializeFails(r)
           \/ Drain \/ DrainOutputs \/ UNCHANGED vars
  <2>1. /\ file' = file /\ holder' = holder
        /\ \A r \in Recorders : /\ Writing(r)' <=> Writing(r)
                                /\ pc'[r] = "newline" => pc[r] = "newline" /\ count'[r] = count[r]
    BY <1>1 DEF TypeOK, RecordOutput, RecordInMemory, SerializeFails, Drain, DrainOutputs, vars,
                Goto, sinkVars, outputVars, Writing
  <2> QED BY <2>1 DEF LineInv, LinesNotInterleaved, LastPiece, Current, Whole
<1>2. ASSUME NEW r \in Recorders, LockFile(r) PROVE LineInv'
  <2>1. file' = file /\ count' = count /\ holder' = r /\ holder = Nobody
        /\ pc' = [pc EXCEPT ![r] = "line"]
    BY <1>2 DEF LockFile, Goto
  <2> QED BY <2>1 DEF TypeOK, LineInv, LinesNotInterleaved, LastPiece, Current, Whole, Writing
<1>3. ASSUME NEW r \in Recorders, WriteLine(r) PROVE LineInv'
  <2>1. /\ file' = Append(file, Whole(Current(r))) /\ count' = count /\ holder' = holder
        /\ pc[r] = "line" /\ pc' = [pc EXCEPT ![r] = "newline"]
    BY <1>3 DEF WriteLine, Goto
  <2>2. Len(file') > 0 /\ file'[Len(file')] = Whole(Current(r))
    BY <2>1, PieceTypes, AppendPiece DEF TypeOK
  <2>3. \A q \in Recorders : Writing(q)' <=> holder' = q
    BY <2>1 DEF TypeOK, LineInv, Writing
  <2>4. \A q \in Recorders : pc'[q] = "newline" => q = r
    BY <2>1 DEF TypeOK, LineInv, Writing
  <2>5. LinesNotInterleaved'
    BY <2>1, PieceTypes, AppendKeepsLines DEF TypeOK, LineInv, Whole
  <2> QED BY <2>1, <2>2, <2>3, <2>4, <2>5 DEF LineInv, LastPiece, Current, Whole, TypeOK
<1>4. ASSUME NEW r \in Recorders, WriteNewline(r) PROVE LineInv'
  <2>1. /\ file' = Append(file, Newline(Current(r))) /\ count' = count /\ holder' = Nobody
        /\ pc[r] = "newline" /\ pc' = [pc EXCEPT ![r] = "idle"]
    BY <1>4 DEF WriteNewline, Goto
  <2>3. \A q \in Recorders : ~ Writing(q)'
    BY <2>1 DEF TypeOK, LineInv, Writing
  <2>4. LinesNotInterleaved'
    <3>1. Len(file) > 0 /\ LastPiece = Whole(Current(r)) /\ Newline(Current(r)).event = Current(r)
      BY <2>1 DEF LineInv, Newline
    <3> QED BY <2>1, <3>1, PieceTypes, AppendKeepsLines DEF TypeOK, LineInv
  <2> QED BY <2>1, <2>3, <2>4 DEF LineInv, Writing
<1>5. ASSUME NEW r \in Recorders, WriteFails(r) PROVE LineInv'
  <2>1. /\ file' = file \/ file' = Append(file, Torn(Current(r)))
        /\ count' = count /\ holder' = Nobody /\ Writing(r) /\ pc' = [pc EXCEPT ![r] = "idle"]
    BY <1>5 DEF WriteFails, Goto, Writing
  <2>2. \A q \in Recorders : ~ Writing(q)'
    BY <2>1 DEF TypeOK, LineInv, Writing
  <2>3. LinesNotInterleaved'
    <3>1. CASE file' = file
      BY <3>1 DEF LineInv, LinesNotInterleaved
    <3>2. CASE file' = Append(file, Torn(Current(r)))
      BY <3>2, PieceTypes, AppendKeepsLines DEF LineInv, TypeOK, Torn
    <3> QED BY <2>1, <3>1, <3>2
  <2> QED BY <2>1, <2>2, <2>3 DEF LineInv, Writing
<1> QED BY <1>1, <1>2, <1>3, <1>4, <1>5 DEF Next, AuditFileStep

(* The mutex of the audit file keeps every line and its newline together,  *)
(* also when writes fail between them (AuditFileSink::record).             *)
THEOREM LinesWhole == Spec => []LinesNotInterleaved
<1>1. Init => LineInv
  BY SinksAssumption DEF Init, LineInv, LinesNotInterleaved, Writing
<1>2. LineInv => LinesNotInterleaved
  BY DEF LineInv
<1> QED BY <1>1, <1>2, TypeCorrect, NextLines, PTL DEF Spec

-----------------------------------------------------------------------------
(* A consumer that drains the output map has, or will find there, the      *)
(* latest output of every job, and of no job an older one after it.        *)
THEOREM OutputsLatest == Spec => []LatestOutputKept
<1>1. Init => LatestOutputKept
  BY DEF Init, LatestOutputKept
<1>2. TypeOK /\ LatestOutputKept /\ [Next]_vars => LatestOutputKept'
  <2> SUFFICES ASSUME TypeOK, LatestOutputKept, [Next]_vars PROVE LatestOutputKept'
    OBVIOUS
  <2>1. ASSUME NEW r \in Recorders, RecordOutput(r) PROVE LatestOutputKept'
    BY <2>1 DEF RecordOutput, LatestOutputKept, TypeOK
  <2>2. ASSUME DrainOutputs PROVE LatestOutputKept'
    BY <2>2 DEF DrainOutputs, LatestOutputKept, TypeOK
  <2>3. CASE UNCHANGED <<count, storage, received>>
    BY <2>3 DEF LatestOutputKept
  <2>4. ASSUME NEW r \in Recorders, RecordInMemory(r) \/ AuditFileStep(r)
        PROVE  UNCHANGED <<count, storage, received>>
    BY <2>4 DEF RecordInMemory, AuditFileStep, LockFile, SerializeFails, WriteLine, WriteNewline,
                WriteFails, outputVars
  <2>5. ASSUME Drain \/ UNCHANGED vars PROVE UNCHANGED <<count, storage, received>>
    BY <2>5 DEF Drain, outputVars, vars
  <2> QED BY <2>1, <2>2, <2>3, <2>4, <2>5 DEF Next
<1> QED BY <1>1, <1>2, TypeCorrect, PTL DEF Spec
-----------------------------------------------------------------------------
(* The last event of a recorder comes behind its earlier ones.             *)
LEMMA RecordKeepsOrder ==
  ASSUME TypeOK, KeptInOrder, NEW r \in Recorders, RecordInMemory(r)
  PROVE  KeptInOrder'
<1> DEFINE e == Current(r)
           N == Len(Delivered)
<1>1. /\ events' = Append(events, e) /\ drained' = drained /\ count' = count
      /\ pc[r] = "memory" /\ pc' = [pc EXCEPT ![r] = "file"]
  BY DEF RecordInMemory, Goto
<1>2. Delivered \in Seq(AnyEvent) /\ Delivered' = Append(Delivered, e) /\ e \in AnyEvent
  <2>1. drained \in Seq(AnyEvent) /\ events \in Seq(AnyEvent) /\ e \in AnyEvent
        /\ <<e>> \in Seq(AnyEvent)
    BY PieceTypes DEF TypeOK
  <2>2. Append(events, e) = events \o <<e>>
    BY <2>1, AppendIsConcat
  <2>3. Delivered' = Delivered \o <<e>>
    BY <1>1, <2>1, <2>2, ConcatAssociative DEF Delivered
  <2>4. Delivered \in Seq(AnyEvent)
    BY <2>1, ConcatProperties DEF Delivered
  <2> QED BY <2>1, <2>3, <2>4, AppendIsConcat
<1>3. /\ N \in Nat /\ DOMAIN Delivered = 1..N /\ DOMAIN Delivered' = 1..(N + 1)
      /\ Delivered'[N + 1] = e /\ \A i \in 1..N : Delivered'[i] = Delivered[i]
  BY <1>2, AppendProperties, LenProperties
<1>4. /\ count[r] \in Nat \ {0} /\ e.by = r /\ e.n = count[r]
      /\ Buffered(r) = count[r] - 1 /\ Buffered(r)' = count[r]
      /\ \A q \in Recorders \ {r} : Buffered(q)' = Buffered(q)
  <2>1. count[r] \in Nat /\ count[r] > 0
    BY <1>1 DEF TypeOK
  <2>2. pc'[r] = "file" /\ \A q \in Recorders \ {r} : pc'[q] = pc[q]
    BY <1>1 DEF TypeOK
  <2> QED BY <1>1, <2>1, <2>2 DEF Current, Buffered
<1>5. \A i \in 1..N : Delivered[i] \in AnyEvent
  BY <1>2, <1>3
<1> HIDE DEF e, N
<1>6. ASSUME NEW q \in Recorders
      PROVE  {Delivered'[i].n : i \in {k \in DOMAIN Delivered' : Delivered'[k].by = q}} = 1..Buffered(q)'
  <2> DEFINE Old == {Delivered[i].n : i \in {k \in DOMAIN Delivered : Delivered[k].by = q}}
             New == {Delivered'[i].n : i \in {k \in DOMAIN Delivered' : Delivered'[k].by = q}}
  <2>1. Old = 1..Buffered(q)
    BY DEF KeptInOrder
  <2>2. CASE q = r
    <3>1. New = Old \cup {e.n}
      BY <1>3, <1>4, <2>2
    <3>2. (1..(count[r] - 1)) \cup {count[r]} = 1..count[r]
      BY <1>4
    <3> QED BY <1>4, <2>1, <2>2, <3>1, <3>2
  <2>3. CASE q # r
    <3>1. New = Old
      BY <1>3, <1>4, <2>3
    <3> QED BY <1>4, <2>1, <2>3, <3>1
  <2> QED BY <2>2, <2>3
<1>7. ASSUME NEW i \in DOMAIN Delivered', NEW k \in DOMAIN Delivered',
             i < k, Delivered'[i].by = Delivered'[k].by
      PROVE  Delivered'[i].n < Delivered'[k].n
  <2>1. i \in 1..N /\ k \in 1..(N + 1)
    BY <1>3, <1>7
  <2>2. CASE k \in 1..N
    BY <1>3, <1>7, <2>1, <2>2 DEF KeptInOrder
  <2>3. CASE k = N + 1
    <3>1. Delivered[i].by = r /\ Delivered'[i] = Delivered[i] /\ Delivered'[k] = e
      BY <1>3, <1>4, <1>7, <2>1, <2>3
    <3>2. Delivered[i].n \in 1..Buffered(r)
      BY <1>3, <2>1, <3>1 DEF KeptInOrder
    <3> QED BY <1>4, <3>1, <3>2
  <2> QED BY <1>3, <2>1, <2>2, <2>3
<1> QED BY <1>6, <1>7 DEF KeptInOrder

(* No event is lost, none is handed over twice, and those of one recorder  *)
(* stay in order, whenever the consumer drains (InMemorySink::record,      *)
(* InMemorySink::drain).                                                   *)
THEOREM EventsKeptInOrder == Spec => []KeptInOrder
<1>1. Init => KeptInOrder
  <2> SUFFICES ASSUME Init PROVE KeptInOrder
    OBVIOUS
  <2>1. Delivered = <<>> /\ DOMAIN Delivered = {} /\ \A r \in Recorders : Buffered(r) = 0
    BY DEF Init, Delivered, Buffered
  <2> QED BY <2>1 DEF KeptInOrder
<1>2. TypeOK /\ KeptInOrder /\ [Next]_vars => KeptInOrder'
  <2> SUFFICES ASSUME TypeOK, KeptInOrder, [Next]_vars PROVE KeptInOrder'
    OBVIOUS
  <2>1. CASE \E r \in Recorders : RecordInMemory(r)
    BY <2>1, RecordKeepsOrder
  <2>2. CASE Delivered' = Delivered /\ \A r \in Recorders : Buffered(r)' = Buffered(r)
    BY <2>2 DEF KeptInOrder
  <2>3. ASSUME NEW r \in Recorders, RecordOutput(r) \/ AuditFileStep(r)
        PROVE  Delivered' = Delivered /\ \A q \in Recorders : Buffered(q)' = Buffered(q)
    <3>1. /\ events' = events /\ drained' = drained
          /\ \A q \in Recorders \ {r} : pc'[q] = pc[q] /\ count'[q] = count[q]
      BY <2>3 DEF RecordOutput, AuditFileStep, LockFile, SerializeFails, WriteLine, WriteNewline,
                  WriteFails, Goto, sinkVars, outputVars, TypeOK
    <3>2. CASE RecordOutput(r)
      BY <3>1, <3>2 DEF RecordOutput, Goto, TypeOK, Delivered, Buffered
    <3>3. CASE AuditFileStep(r)
      <4>1. count' = count /\ pc[r] # "memory" /\ pc'[r] # "memory"
        BY <3>3 DEF AuditFileStep, LockFile, SerializeFails, WriteLine, WriteNewline,
                    WriteFails, Goto, TypeOK
      <4> QED BY <3>1, <4>1 DEF Delivered, Buffered
    <3> QED BY <2>3, <3>2, <3>3
  <2>4. ASSUME Drain PROVE Delivered' = Delivered /\ \A q \in Recorders : Buffered(q)' = Buffered(q)
    <3>1. Delivered \in Seq(AnyEvent) /\ Delivered' = Delivered \o <<>>
      BY <2>4 DEF Drain, Delivered, TypeOK
    <3>2. Delivered' = Delivered
      BY <3>1, ConcatEmptySeq
    <3> QED BY <2>4, <3>2 DEF Drain, Buffered
  <2>5. ASSUME DrainOutputs \/ UNCHANGED vars
        PROVE  Delivered' = Delivered /\ \A q \in Recorders : Buffered(q)' = Buffered(q)
    BY <2>5 DEF DrainOutputs, sinkVars, vars, Delivered, Buffered
  <2> QED BY <2>1, <2>2, <2>3, <2>4, <2>5 DEF Next
<1> QED BY <1>1, <1>2, TypeCorrect, PTL DEF Spec
-----------------------------------------------------------------------------
(* A line that begins behind something other than a newline is lost, and   *)
(* so is what it begins behind.  Dirty says that the next line, or the one *)
(* whose newline is still to come, is such a line.                         *)
Dirty ==
  IF \E r \in Recorders : pc[r] = "newline"
    THEN Len(file) > 1 /\ file[Len(file) - 1].part # "newline"
    ELSE Len(file) > 0 /\ LastPiece.part # "newline"

Spoiled == Returned \ Readable

(* A failure pays for two lines: its own, and the next one as long as the  *)
(* file is dirty.                                                          *)
SpoiledInv ==
  /\ IsFiniteSet(Spoiled)
  /\ Cardinality(Spoiled) + (IF Dirty THEN 1 ELSE 0) <= 2 * failures

LEMMA ReadableStays ==
  ASSUME file \in Seq(AnyPiece), NEW p \in AnyPiece, file' = Append(file, p)
  PROVE  Readable \subseteq Readable'
<1> SUFFICES ASSUME NEW i \in DOMAIN file, ReadableAt(i)
             PROVE  i \in DOMAIN file' /\ ReadableAt(i)' /\ file'[i] = file[i]
  BY DEF Readable
<1>1. i \in 1..Len(file) /\ i > 1 /\ i - 1 \in 1..Len(file) /\ (i > 2 => i - 2 \in 1..Len(file))
      /\ i \in DOMAIN file' /\ \A k \in 1..Len(file) : file'[k] = file[k]
  BY AppendPiece DEF ReadableAt
<1> QED BY <1>1 DEF ReadableAt

(* A call of record() that returns adds its event to what should be read. *)
LEMMA ReturnsOne ==
  ASSUME TypeOK, NEW r \in Recorders, pc[r] # "idle", pc' = [pc EXCEPT ![r] = "idle"],
         count' = count
  PROVE  Returned' \subseteq Returned \cup {Current(r)}
<1> SUFFICES ASSUME NEW e \in Event, e.n <= InFile(e.by)', ~ (e.n <= InFile(e.by))
             PROVE  e = Current(r)
  BY DEF Returned
<1>1. \A q \in Recorders : count[q] \in Nat /\ (q # r => pc'[q] = pc[q]) /\ pc'[r] = "idle"
  BY DEF TypeOK
<1>2. e.by \in Recorders /\ e.n \in Nat
  BY SinksAssumption DEF Event
<1>3. e.by = r
  BY <1>1, <1>2 DEF InFile
<1>4. e.n = count[r]
  BY <1>1, <1>2, <1>3 DEF InFile
<1>5. e = [by |-> e.by, n |-> e.n]
  BY DEF Event
<1> QED BY <1>3, <1>4, <1>5 DEF Current

LEMMA SpoilsOne ==
  ASSUME NEW S, IsFiniteSet(S), NEW T, NEW x, T \subseteq S \cup {x}
  PROVE  IsFiniteSet(T) /\ Cardinality(T) \in Nat /\ Cardinality(T) <= Cardinality(S) + 1
<1>1. /\ IsFiniteSet(S \cup {x}) /\ Cardinality(S) \in Nat
      /\ Cardinality(S \cup {x}) \in {Cardinality(S), Cardinality(S) + 1}
  BY FS_AddElement, FS_CardinalityType
<1> QED BY <1>1, FS_Subset, FS_CardinalityType

LEMMA SpoilsNone ==
  ASSUME NEW S, IsFiniteSet(S), NEW T, T \subseteq S
  PROVE  IsFiniteSet(T) /\ Cardinality(T) \in Nat /\ Cardinality(T) <= Cardinality(S)
BY FS_Subset, FS_CardinalityType

LEMMA NextSpoils == TypeOK /\ LineInv /\ SpoiledInv /\ [Next]_vars => SpoiledInv'
<1> SUFFICES ASSUME TypeOK, LineInv, SpoiledInv, [Next]_vars PROVE SpoiledInv'
  OBVIOUS
<1>1. IsFiniteSet(Spoiled) /\ Cardinality(Spoiled) \in Nat /\ failures \in Nat
  BY FS_CardinalityType DEF SpoiledInv, TypeOK
<1>2. CASE \/ \E r \in Recorders : RecordOutput(r) \/ RecordInMemory(r) \/ LockFile(r)
           \/ Drain \/ DrainOutputs \/ UNCHANGED vars
  <2> DEFINE Same == \A q \in Recorders : /\ InFile(q)' = InFile(q)
                                          /\ pc'[q] = "newline" <=> pc[q] = "newline"
  <2>1. file' = file /\ failures' = failures /\ Same
    <3>1. ASSUME NEW r \in Recorders, RecordOutput(r) PROVE Same
      BY <3>1 DEF RecordOutput, Goto, TypeOK, InFile
    <3>2. ASSUME NEW r \in Recorders, RecordInMemory(r) \/ LockFile(r) PROVE Same
      BY <3>2 DEF RecordInMemory, LockFile, Goto, TypeOK, InFile
    <3>3. ASSUME Drain \/ DrainOutputs \/ UNCHANGED vars PROVE Same
      BY <3>3 DEF Drain, DrainOutputs, vars, sinkVars, InFile
    <3>4. file' = file /\ failures' = failures
      BY <1>2 DEF RecordOutput, RecordInMemory, LockFile, Drain, DrainOutputs, vars, sinkVars
    <3> QED BY <1>2, <3>1, <3>2, <3>3, <3>4
  <2>2. Returned' = Returned
    BY <2>1 DEF Returned, Event
  <2>3. Readable' = Readable /\ (Dirty' <=> Dirty)
    BY <2>1 DEF Readable, ReadableAt, Dirty, LastPiece
  <2> QED BY <2>1, <2>2, <2>3 DEF SpoiledInv, Spoiled
<1>3. ASSUME NEW r \in Recorders, SerializeFails(r) \/ WriteFails(r) PROVE SpoiledInv'
  <2>1. /\ pc[r] # "idle" /\ pc' = [pc EXCEPT ![r] = "idle"] /\ count' = count
        /\ failures' = failures + 1
        /\ file' = file \/ file' = Append(file, Torn(Current(r)))
    BY <1>3 DEF SerializeFails, WriteFails, Goto, sinkVars
  <2>2. Readable \subseteq Readable'
    <3>1. CASE file' = file
      BY <3>1 DEF Readable, ReadableAt
    <3>2. CASE file' = Append(file, Torn(Current(r)))
      BY <3>2, ReadableStays, PieceTypes DEF TypeOK
    <3> QED BY <2>1, <3>1, <3>2
  <2>3. Spoiled' \subseteq Spoiled \cup {Current(r)}
    BY <2>1, <2>2, ReturnsOne DEF Spoiled
  <2>4. IsFiniteSet(Spoiled') /\ Cardinality(Spoiled') \in Nat
        /\ Cardinality(Spoiled') <= Cardinality(Spoiled) + 1
    BY <1>1, <2>3, SpoilsOne
  <2> QED BY <1>1, <2>1, <2>4 DEF SpoiledInv
<1>4. ASSUME NEW r \in Recorders, WriteLine(r) PROVE SpoiledInv'
  <2>1. /\ file' = Append(file, Whole(Current(r))) /\ count' = count /\ failures' = failures
        /\ pc[r] = "line" /\ pc' = [pc EXCEPT ![r] = "newline"]
    BY <1>4 DEF WriteLine, Goto
  <2>2. Returned' = Returned
    BY <2>1 DEF Returned, Event, InFile, TypeOK
  <2>3. Spoiled' \subseteq Spoiled
    BY <2>1, <2>2, ReadableStays, PieceTypes DEF TypeOK, Spoiled
  <2>4. Dirty' => Dirty
    <3>1. ~ \E q \in Recorders : pc[q] = "newline"
      BY <2>1 DEF LineInv, Writing
    <3>2. pc'[r] = "newline"
      BY <2>1 DEF TypeOK
    <3>3. /\ Len(file) \in Nat /\ Len(file') = Len(file) + 1
          /\ \A i \in 1..Len(file) : file'[i] = file[i]
      BY <2>1, AppendPiece, PieceTypes DEF TypeOK
    <3> QED BY <3>1, <3>2, <3>3 DEF Dirty, LastPiece
  <2>5. IsFiniteSet(Spoiled') /\ Cardinality(Spoiled') \in Nat
        /\ Cardinality(Spoiled') <= Cardinality(Spoiled)
    BY <1>1, <2>3, SpoilsNone
  <2> QED BY <1>1, <2>1, <2>4, <2>5 DEF SpoiledInv
<1>5. ASSUME NEW r \in Recorders, WriteNewline(r) PROVE SpoiledInv'
  <2>1. /\ file' = Append(file, Newline(Current(r))) /\ count' = count /\ failures' = failures
        /\ pc[r] = "newline" /\ pc' = [pc EXCEPT ![r] = "idle"]
    BY <1>5 DEF WriteNewline, Goto
  <2>2. /\ Len(file) \in Nat /\ Len(file') = Len(file) + 1 /\ DOMAIN file' = 1..(Len(file) + 1)
        /\ file'[Len(file) + 1] = Newline(Current(r))
        /\ \A i \in 1..Len(file) : file'[i] = file[i]
    BY <2>1, AppendPiece, PieceTypes DEF TypeOK
  <2>3. ~ Dirty'
    <3>1. \A q \in Recorders : pc'[q] # "newline"
      BY <2>1 DEF TypeOK, LineInv, Writing
    <3> QED BY <2>2, <3>1 DEF Dirty, LastPiece, Newline
  <2>4. Returned' \subseteq Returned \cup {Current(r)} /\ Readable \subseteq Readable'
    BY <2>1, ReturnsOne, ReadableStays, PieceTypes DEF TypeOK
  <2>5. CASE Dirty
    <3>1. Spoiled' \subseteq Spoiled \cup {Current(r)}
      BY <2>4 DEF Spoiled
    <3>2. IsFiniteSet(Spoiled') /\ Cardinality(Spoiled') \in Nat
          /\ Cardinality(Spoiled') <= Cardinality(Spoiled) + 1
      BY <1>1, <3>1, SpoilsOne
    <3> QED BY <1>1, <2>1, <2>3, <2>5, <3>2 DEF SpoiledInv
  <2>6. CASE ~ Dirty
    <3>1. Len(file) > 0 /\ file[Len(file)] = Whole(Current(r))
      BY <2>1 DEF LineInv, LastPiece
    <3>2. Len(file) > 1 => file[Len(file) - 1].part = "newline"
      BY <2>1, <2>6 DEF Dirty
    <3>3. PICK i \in DOMAIN file' : i = Len(file) + 1
      BY <2>2
    <3>4. Current(r) \in Readable'
      <4>1. i - 1 = Len(file) /\ i - 2 = Len(file) - 1 /\ i > 1
            /\ file'[i] = Newline(Current(r)) /\ file'[i - 1] = Whole(Current(r))
        BY <2>2, <3>1, <3>3
      <4>2. i > 2 => file'[i - 2].part = "newline"
        BY <2>2, <3>1, <3>2, <3>3
      <4>3. ReadableAt(i)' /\ file'[i].event = Current(r)
        BY <4>1, <4>2 DEF ReadableAt, Whole, Newline
      <4> QED BY <4>3 DEF Readable
    <3>5. Spoiled' \subseteq Spoiled
      BY <2>4, <3>4 DEF Spoiled
    <3>6. IsFiniteSet(Spoiled') /\ Cardinality(Spoiled') \in Nat
          /\ Cardinality(Spoiled') <= Cardinality(Spoiled)
      BY <1>1, <3>5, SpoilsNone
    <3> QED BY <1>1, <2>1, <2>3, <3>6 DEF SpoiledInv
  <2> QED BY <2>5, <2>6
<1> QED BY <1>2, <1>3, <1>4, <1>5 DEF Next, AuditFileStep

(* A failure of the disk, wherever it strikes, makes at most two lines of  *)
(* the audit file unreadable (AuditFileSink::record absorbs the error).    *)
THEOREM FailuresSpoilTwo == Spec => []FailureSpoilsTwo
<1>1. Init => SpoiledInv
  <2> SUFFICES ASSUME Init PROVE SpoiledInv
    OBVIOUS
  <2>1. Spoiled = {}
    BY SinksAssumption DEF Init, Spoiled, Returned, Event, InFile
  <2>2. ~ Dirty /\ failures = 0
    BY DEF Init, Dirty
  <2> QED BY <2>1, <2>2, FS_EmptySet DEF SpoiledInv
<1>2. TypeOK /\ SpoiledInv => FailureSpoilsTwo
  BY FS_CardinalityType DEF SpoiledInv, FailureSpoilsTwo, Spoiled, TypeOK
<1>3. Init => LineInv
  BY SinksAssumption DEF Init, LineInv, LinesNotInterleaved, Writing
<1> QED BY <1>1, <1>2, <1>3, TypeCorrect, NextLines, NextSpoils, PTL DEF Spec
=============================================================================
