---------------------------- MODULE TelemetryProofs ----------------------------
(***************************************************************************)
(* Proofs about the sensors: the outbox both share, for every set of       *)
(* events, limit, batch size and number of faults; FalcoTail, for every    *)
(* log and number of rotations; DockerCapture, for every overlap and       *)
(* window, with a daemon that publishes at most Overlap seconds late.      *)
(***************************************************************************)
EXTENDS FalcoTail, DockerCapture, FiniteSetTheorems, TLAPS

-------------------------------------------------------------------------------
(* The outbox: its inductive invariant, and that each of its steps is one   *)
(* of EventDelivery.                                                        *)

(* What the delivery loop holds is in the outbox until it is acknowledged,  *)
(* and is acknowledged only when it is stored; a call given up on is of     *)
(* events that are still queued or stored.                                  *)
OutboxInv ==
  /\ OutboxTypeOK
  /\ loop.batch \subseteq Queued
  /\ loop.pc = "accepted" => loop.batch \subseteq Stored
  /\ \A S \in orphans : S \subseteq Queued \union Stored

(* What every step of the outbox does to the events.                        *)
Delivers ==
  /\ Queued \union Stored \subseteq (Queued \union Stored)'
  /\ [Delivery!Next]_<<Owed, Stored>>

LEMMA QueuedIsFinite == IsFiniteSet(Queued)
BY OutboxAssumption, FS_Subset DEF OutboxAssumption, Queued

LEMMA CardinalityOfQueued == Cardinality(Queued) \in Nat
BY QueuedIsFinite, FS_CardinalityType

(* A new row is one more.                                                   *)
LEMMA InsertAdds ==
  ASSUME OutboxTypeOK, NEW e \in Events, Insert(e)
  PROVE  /\ Queued' = Queued \union {e}
         /\ rank' \in [Events -> Nat]
         /\ Cardinality(Queued') =< MaxEvents
         /\ waiting' \subseteq Queued'
<1>1. Cardinality(Queued) + 1 \in Nat /\ Cardinality(Queued) + 1 > 0
  BY CardinalityOfQueued
<1>2. rank \in [Events -> Nat] /\ rank' = [rank EXCEPT ![e] = Cardinality(Queued) + 1]
  BY DEF OutboxTypeOK, Insert
<1> DEFINE n == Cardinality(Queued)
<1> HIDE DEF n
<1>3. Queued' = Queued \union {e}
  BY <1>1, <1>2 DEF Queued, n
<1>4. Cardinality(Queued \union {e}) = Cardinality(Queued) + 1
  BY QueuedIsFinite, FS_AddElement DEF Insert
<1>5. Cardinality(Queued) + 1 =< MaxEvents
  BY CardinalityOfQueued, OutboxAssumption DEF Insert, Full, OutboxAssumption
<1>6. QED
  BY <1>1, <1>2, <1>3, <1>4, <1>5 DEF OutboxTypeOK, Insert

(* The rows left are the other rows, in their order.                        *)
LEMMA ForgetRemoves ==
  ASSUME OutboxTypeOK, NEW S, Forget(S)
  PROVE  /\ Queued' = Queued \ S
         /\ rank' \in [Events -> Nat]
         /\ Cardinality(Queued') =< MaxEvents
         /\ waiting' \subseteq Queued'
<1> DEFINE before(e) == {q \in Queued \ S : rank[q] <= rank[e]}
<1>1. ASSUME NEW e \in Events PROVE Cardinality(before(e)) \in Nat
  BY QueuedIsFinite, FS_Subset, FS_CardinalityType
<1>2. ASSUME NEW e \in Queued \ S PROVE Cardinality(before(e)) > 0
  <2>1. e \in before(e) /\ IsFiniteSet(before(e))
    BY QueuedIsFinite, FS_Subset DEF OutboxTypeOK, Queued
  <2>2. Cardinality(before(e)) # 0
    BY <2>1, FS_EmptySet
  <2>3. QED
    BY <1>1, <2>2 DEF Queued
<1> DEFINE place(e) == Cardinality(before(e))
<1>3. rank' = [e \in Events |-> IF e \in Queued \ S THEN place(e) ELSE 0]
  BY DEF Forget
<1>4. \A e \in Events : place(e) \in Nat /\ (e \in Queued \ S => place(e) > 0)
  BY <1>1, <1>2
<1> HIDE DEF place
<1>5. rank' \in [Events -> Nat] /\ Queued' = Queued \ S
  BY <1>3, <1>4 DEF Queued
<1>6. Cardinality(Queued \ S) =< Cardinality(Queued)
  BY QueuedIsFinite, FS_Subset
<1>7. Cardinality(Queued \ S) \in Nat
  BY QueuedIsFinite, FS_Subset, FS_CardinalityType
<1>8. QED
  BY <1>5, <1>6, <1>7, CardinalityOfQueued, OutboxAssumption
     DEF OutboxTypeOK, Forget, OutboxAssumption

LEMMA FaultType == OutboxTypeOK /\ Fault => faults' \in 0..MaxFaults
BY OutboxAssumption DEF OutboxTypeOK, Fault, OutboxAssumption

(* Steps that leave the rows alone.                                         *)
LEMMA LoopStep ==
  ASSUME OutboxInv, UNCHANGED <<rank, rows, deleted>>, unfit' \subseteq unfit,
         waiting' \subseteq Queued, loop' \in LoopState, faults' \in 0..MaxFaults,
         loop'.batch \subseteq Queued, loop'.pc = "accepted" => loop'.batch \subseteq Stored,
         \A S \in orphans' : S \subseteq Queued \union Stored
  PROVE  OutboxInv' /\ Delivers
<1>1. Queued' = Queued /\ Stored' = Stored /\ Owed' = Owed
  BY DEF Queued, Stored, Owed
<1>2. \A S \in orphans' : S \subseteq Events
  BY DEF OutboxInv, OutboxTypeOK, Queued, Stored
<1>3. QED
  BY <1>1, <1>2 DEF OutboxInv, OutboxTypeOK, Delivers, Queued

LEMMA AcknowledgeStep ==
  ASSUME OutboxInv, Acknowledge
  PROVE  OutboxInv' /\ Delivers
<1>1. Queued' = Queued \ loop.batch /\ Stored' = Stored
  BY ForgetRemoves DEF OutboxInv, Acknowledge, Stored
<1>2. loop.batch \subseteq Stored
  BY DEF OutboxInv, Acknowledge
<1>3. OutboxTypeOK'
  BY ForgetRemoves DEF OutboxInv, OutboxTypeOK, Acknowledge, AtFetch, LoopState, Queued
<1>4. Owed' = Owed
  BY <1>1, <1>2 DEF Owed
<1>5. QED
  BY <1>1, <1>2, <1>3, <1>4 DEF OutboxInv, Acknowledge, AtFetch, Delivers

(* A batch of queued or stored events is committed.                         *)
LEMMA IngestStep ==
  ASSUME OutboxInv, NEW S \in SUBSET Events, S \subseteq Queued \union Stored, IngestBatch(S),
         UNCHANGED <<rank, deleted>>
  PROVE  /\ rows' \subseteq Events
         /\ Queued' = Queued /\ Stored' = Stored \union S
         /\ Delivers
<1>1. Queued' = Queued /\ Stored' = Stored \union S
  BY DEF IngestBatch, Queued, Stored
<1>2. Owed' = Owed \ (S \ Stored) /\ S \ Stored \subseteq Owed
  BY <1>1 DEF Owed
<1>3. ASSUME S \ Stored = {} PROVE UNCHANGED <<Owed, Stored>>
  BY <1>1, <1>2, <1>3
<1>4. ASSUME S \ Stored # {} PROVE Delivery!Store
  <2>1. S \ Stored \in SUBSET Owed /\ Stored' = Stored \union (S \ Stored)
    BY <1>1, <1>2
  <2>2. QED
    BY <1>2, <1>4, <2>1 DEF Delivery!Store
<1>5. rows' \subseteq Events
  BY DEF OutboxInv, OutboxTypeOK, IngestBatch
<1>6. Delivers
  BY <1>1, <1>3, <1>4 DEF Delivers, Delivery!Next
<1>7. QED
  BY <1>1, <1>5, <1>6

LEMMA AnswerStep ==
  ASSUME OutboxInv, Answer
  PROVE  OutboxInv' /\ Delivers
<1>1. loop.batch \in SUBSET Events /\ loop.batch \subseteq Queued
  BY DEF OutboxInv, Queued
<1>2. /\ rows' \subseteq Events /\ Queued' = Queued /\ Stored' = Stored \union loop.batch
      /\ Delivers
  BY <1>1, IngestStep DEF Answer
<1>3. loop' \in LoopState /\ loop'.batch = loop.batch
  BY DEF OutboxInv, OutboxTypeOK, Answer, LoopState
<1>4. OutboxTypeOK'
  BY <1>2, <1>3 DEF OutboxInv, OutboxTypeOK, Answer
<1>5. QED
  BY <1>1, <1>2, <1>3, <1>4 DEF OutboxInv, Answer

LEMMA AnswerNobodyStep ==
  ASSUME OutboxInv, AnswerNobody
  PROVE  OutboxInv' /\ Delivers
<1>1. PICK S \in orphans : /\ IF S \cap unfit = {} THEN IngestBatch(S) ELSE UNCHANGED rows
                           /\ orphans' = orphans \ {S}
  BY DEF AnswerNobody
<1>2. S \in SUBSET Events /\ S \subseteq Queued \union Stored
  BY DEF OutboxInv, OutboxTypeOK
<1>3. UNCHANGED <<rank, waiting, unfit, loop, deleted, faults>>
  BY DEF AnswerNobody
<1>4. CASE IngestBatch(S)
  <2>1. rows' \subseteq Events /\ Queued' = Queued /\ Stored' = Stored \union S /\ Delivers
    BY <1>2, <1>3, <1>4, IngestStep
  <2>2. OutboxTypeOK'
    BY <1>1, <1>3, <2>1 DEF OutboxInv, OutboxTypeOK
  <2>3. QED
    BY <1>1, <1>3, <2>1, <2>2 DEF OutboxInv
<1>5. CASE UNCHANGED rows
  BY <1>1, <1>3, <1>5, LoopStep DEF OutboxInv, OutboxTypeOK
<1>6. QED
  BY <1>1, <1>4, <1>5

LEMMA RetainStep ==
  ASSUME OutboxInv, Retain
  PROVE  OutboxInv' /\ Delivers
<1>1. Queued' = Queued /\ Stored' = Stored
  BY DEF Retain, Queued, Stored
<1>2. rows' \subseteq Events /\ deleted' \subseteq Events
  BY DEF Retain, OutboxInv, OutboxTypeOK
<1>3. OutboxTypeOK'
  BY <1>1, <1>2 DEF Retain, OutboxInv, OutboxTypeOK
<1>4. Owed' = Owed
  BY <1>1 DEF Owed
<1>5. QED
  BY <1>1, <1>3, <1>4 DEF OutboxInv, Delivers, Retain

LEMMA OutboxStep ==
  ASSUME OutboxInv, OutboxNext \/ Retain
  PROVE  OutboxInv' /\ Delivers
<1> USE DEF OutboxInv, OutboxTypeOK
<1>1. CASE PostBatch
  BY <1>1, LoopStep DEF PostBatch, NextBatches, Due, LoopState, Queued
<1>2. CASE MarkFailed
  BY <1>2, LoopStep DEF MarkFailed, PutOff, AtFetch, LoopState
<1>3. CASE RefuseUnfit
  BY <1>3, LoopStep DEF RefuseUnfit, LoopState
<1>4. CASE LoopDies
  BY <1>4, LoopStep, FaultType DEF LoopDies, AtFetch, LoopState
<1>5. CASE Refuse
  BY <1>5, LoopStep, FaultType DEF Refuse, LoopState
<1>6. CASE TimeOut
  <2>1. loop' \in LoopState /\ loop'.batch = loop.batch /\ loop'.pc # "accepted"
    BY <1>6 DEF TimeOut, LoopState
  <2>2. QED
    BY <1>6, <2>1, LoopStep, FaultType DEF TimeOut
<1>7. ASSUME NEW e \in Events, BackoffEnds(e) PROVE OutboxInv' /\ Delivers
  BY <1>7, LoopStep DEF BackoffEnds
<1>8. QED
  BY <1>1, <1>2, <1>3, <1>4, <1>5, <1>6, <1>7, AcknowledgeStep, AnswerStep, AnswerNobodyStep,
     RetainStep DEF OutboxNext, DeliveryStep

(* A captured event is owed, unless it is a replay of a stored one.         *)
LEMMA EnqueueStep ==
  ASSUME OutboxInv, NEW e \in Events, Enqueue(e),
         UNCHANGED <<unfit, loop, orphans, rows, deleted, faults>>
  PROVE  OutboxInv' /\ Delivers /\ e \in Queued'
<1>1. CASE Insert(e)
  <2>1. Queued' = Queued \union {e} /\ Stored' = Stored
    BY <1>1, InsertAdds DEF OutboxInv, Stored
  <2>2. OutboxTypeOK'
    BY <1>1, InsertAdds DEF OutboxInv, OutboxTypeOK, Insert
  <2>3. OutboxInv'
    BY <2>1, <2>2 DEF OutboxInv
  <2>4. CASE e \in Stored
    <3>1. Owed' = Owed
      BY <2>1, <2>4 DEF Owed
    <3>2. QED
      BY <2>1, <2>3, <3>1 DEF Delivers
  <2>5. CASE e \notin Stored
    <3>1. e \in Events \ (Owed \union Stored) /\ Owed' = Owed \union {e}
      BY <1>1, <2>1, <2>5 DEF Owed, Insert
    <3>2. Delivery!Capture
      BY <2>1, <3>1 DEF Delivery!Capture
    <3>3. QED
      BY <2>1, <2>3, <3>2 DEF Delivers, Delivery!Next
  <2>6. QED
    BY <2>4, <2>5
<1>2. CASE e \in Queued /\ UNCHANGED <<rank, waiting>>
  <2>1. OutboxInv' /\ Delivers
    BY <1>2, LoopStep DEF OutboxInv, OutboxTypeOK
  <2>2. QED
    BY <1>2, <2>1 DEF Queued
<1>3. QED
  BY <1>1, <1>2 DEF Enqueue

LEMMA RestartStep ==
  ASSUME OutboxInv, LoopRestarts, unfit' \subseteq unfit, faults' \in 0..MaxFaults,
         UNCHANGED <<rank, waiting, rows, deleted>>
  PROVE  OutboxInv' /\ Delivers
BY LoopStep DEF OutboxInv, OutboxTypeOK, LoopRestarts, AtFetch, LoopState

LEMMA OutboxIdle ==
  ASSUME OutboxInv, UNCHANGED outboxVars
  PROVE  OutboxInv' /\ Delivers
BY LoopStep DEF outboxVars, OutboxInv, OutboxTypeOK

-------------------------------------------------------------------------------
(* FalcoTail. *)

(* The reader. *)

TypeInv ==
  /\ files \in [1..Files -> Seq(Lines)]
  /\ path \in 1..Files
  /\ written \in 0..Len(Output)
  /\ cursor \in [inode : 0..Files, offset : Nat]
  /\ reader \in ReaderState
  /\ dead_letters \in SUBSET Lines

(* The first n lines of the file the path names are there and handled.      *)
Prefix(n) ==
  n =< Len(files[path]) /\ \A k \in 1..n : Handled(files[path][k])

(* What the reader and the cursor claim of the file they stand for, which   *)
(* is the file of the stat, is true as long as the path names it.           *)
ReaderInv ==
  /\ cursor.inode =< path
  /\ cursor.inode = path => Prefix(cursor.offset)
  /\ reader.pc \in {"open", "read", "advance"} =>
       /\ reader.inode \in 1..path
       /\ reader.inode = path => Prefix(reader.at)
  /\ reader.pc \in {"read", "advance"} => reader.file \in reader.inode..path

IInv == OutboxInv /\ TypeInv /\ ReaderInv

LEMMA HandledStays ==
  ASSUME Delivers, dead_letters \subseteq dead_letters', NEW l, Handled(l)
  PROVE  Handled(l)'
BY DEF Delivers, Handled

(* Nothing but the reader and Falco changes what the reader claims.         *)
LEMMA ClaimsStay ==
  ASSUME Delivers, dead_letters \subseteq dead_letters', UNCHANGED <<fileVars>>
  PROVE  \A n : Prefix(n) => Prefix(n)'
<1>1. \A l : Handled(l) => Handled(l)'
  BY HandledStays
<1>2. QED
  BY <1>1 DEF Prefix, fileVars

LEMMA InitEstablishesIInv == Init => IInv /\ Delivery!Init
<1> SUFFICES ASSUME Init PROVE IInv /\ Delivery!Init
  OBVIOUS
<1>1. Queued = {} /\ Stored = {} /\ Owed = {}
  BY DEF Init, OutboxInit, Queued, Stored, Owed
<1>2. Cardinality(Queued) =< MaxEvents
  BY <1>1, FS_EmptySet, OutboxAssumption DEF OutboxAssumption
<1>3. OutboxInv
  BY <1>1, <1>2, OutboxAssumption
     DEF Init, OutboxInit, OutboxInv, OutboxTypeOK, AtFetch, LoopState, OutboxAssumption
<1>4. TypeInv /\ ReaderInv
  BY FalcoAssumption DEF Init, TypeInv, ReaderInv, ReaderState, AtStat, FalcoAssumption
<1>5. QED
  BY <1>1, <1>3, <1>4 DEF IInv, Delivery!Init

LEMMA OutputLength == Len(Output) \in Nat
BY FalcoAssumption DEF FalcoAssumption

LEMMA WriteLineStep ==
  ASSUME IInv, WriteLine
  PROVE  IInv' /\ Delivers
<1>1. OutboxInv' /\ Delivers
  BY OutboxIdle DEF IInv, WriteLine
<1>2. Output[written + 1] \in Lines /\ written' \in 0..Len(Output)
  BY OutputLength DEF IInv, TypeInv, WriteLine, Lines
<1>3. /\ files[path] \in Seq(Lines)
      /\ files' = [files EXCEPT ![path] = Append(files[path], Output[written + 1])]
      /\ files'[path] = Append(files[path], Output[written + 1])
  BY DEF IInv, TypeInv, WriteLine
<1>4. Append(files[path], Output[written + 1]) \in Seq(Lines)
  BY <1>2, <1>3
<1>5. TypeInv'
  BY <1>2, <1>3, <1>4 DEF IInv, TypeInv, WriteLine
<1>6. ASSUME NEW n \in Nat, Prefix(n) PROVE Prefix(n)'
  <2>1. path' = path /\ Len(files'[path]) = Len(files[path]) + 1 /\ n =< Len(files[path])
    BY <1>2, <1>3, <1>6 DEF WriteLine, Prefix
  <2>2. \A k \in 1..n : files'[path][k] = files[path][k]
    BY <1>2, <1>3, <2>1
  <2>3. \A k \in 1..n : Handled(files[path][k])'
    BY <1>1, <1>6, HandledStays DEF Prefix, WriteLine
  <2>4. QED
    BY <1>3, <2>1, <2>2, <2>3 DEF Prefix
<1>7. ReaderInv'
  BY <1>6 DEF IInv, TypeInv, ReaderInv, ReaderState, WriteLine
<1>8. QED
  BY <1>1, <1>5, <1>7 DEF IInv

(* After a rotation nobody claims anything of the new file.                 *)
LEMMA RotateStep ==
  ASSUME IInv, Rotate
  PROVE  IInv' /\ Delivers
<1>1. OutboxInv' /\ Delivers
  BY OutboxIdle DEF IInv, Rotate
<1>2. path' = path + 1 /\ path' \in 1..Files /\ path \in Nat
  BY FalcoAssumption DEF IInv, TypeInv, Rotate, FalcoAssumption
<1>3. TypeInv'
  BY <1>2 DEF IInv, TypeInv, Rotate
<1>4. ReaderInv'
  BY <1>2 DEF IInv, TypeInv, ReaderInv, ReaderState, Rotate
<1>5. QED
  BY <1>1, <1>3, <1>4 DEF IInv

(* Steps of the reader that consume nothing.                                *)
LEMMA ReaderMoves ==
  ASSUME IInv, UNCHANGED <<outboxVars, fileVars, dead_letters>>,
         reader' \in ReaderState, cursor' \in [inode : 0..Files, offset : Nat],
         ReaderInv => ReaderInv'
  PROVE  IInv' /\ Delivers
BY OutboxIdle DEF IInv, TypeInv, fileVars

LEMMA StatStep ==
  ASSUME IInv, Stat
  PROVE  IInv' /\ Delivers
<1>1. reader' \in ReaderState /\ reader'.pc = "open" /\ reader'.inode = path
  BY FalcoAssumption DEF IInv, TypeInv, Stat, ReaderState, FalcoAssumption
<1>2. Prefix(reader'.at)
  <2>1. Prefix(0)
    BY DEF IInv, TypeInv, Prefix
  <2>2. QED
    BY <2>1 DEF IInv, ReaderInv, Stat
<1>3. UNCHANGED <<outboxVars, fileVars, cursor, dead_letters>>
  BY DEF Stat
<1>4. ReaderInv'
  BY <1>1, <1>2, <1>3, ClaimsStay, OutboxIdle
     DEF IInv, TypeInv, ReaderInv, fileVars
<1>5. QED
  BY <1>1, <1>3, <1>4, ReaderMoves DEF IInv, TypeInv

LEMMA OtherMovesStep ==
  ASSUME IInv, Open \/ EndOfFile \/ ReadIntoFullSpool \/ AdvanceCursor
  PROVE  IInv' /\ Delivers
<1>1. UNCHANGED <<outboxVars, fileVars, dead_letters>>
  BY DEF Open, EndOfFile, ReadIntoFullSpool, AdvanceCursor
<1>2. Delivers /\ path' = path /\ \A n : Prefix(n) => Prefix(n)'
  BY <1>1, ClaimsStay, OutboxIdle DEF IInv, fileVars
<1>3. reader' \in ReaderState /\ cursor' \in [inode : 0..Files, offset : Nat]
  <2>1. reader \in ReaderState /\ path \in 0..Files
    BY DEF IInv, TypeInv
  <2>2. CASE Open
    BY <2>1, <2>2 DEF IInv, TypeInv, ReaderState, Open
  <2>3. CASE EndOfFile \/ ReadIntoFullSpool
    BY <2>3, FalcoAssumption
       DEF IInv, TypeInv, ReaderState, AtStat, EndOfFile, ReadIntoFullSpool, FalcoAssumption
  <2>4. CASE AdvanceCursor
    BY <2>1, <2>4 DEF ReaderState, AdvanceCursor
  <2>5. QED
    BY <2>2, <2>3, <2>4
<1>4. CASE Open
  BY <1>2, <1>3, <1>4, <1>1, ReaderMoves DEF IInv, TypeInv, ReaderInv, ReaderState, Open
<1>5. CASE EndOfFile \/ ReadIntoFullSpool
  BY <1>2, <1>3, <1>5, <1>1, ReaderMoves
     DEF IInv, ReaderInv, AtStat, EndOfFile, ReadIntoFullSpool
<1>6. CASE AdvanceCursor
  BY <1>2, <1>3, <1>6, <1>1, ReaderMoves DEF IInv, TypeInv, ReaderInv, ReaderState, AdvanceCursor
<1>7. QED
  BY <1>4, <1>5, <1>6

LEMMA ConsumedReader ==
  ASSUME NEW at \in Nat, reader \in ReaderState, at = reader.at, Consumed
  PROVE  /\ reader' \in ReaderState /\ reader'.pc = "advance" /\ reader'.at = at + 1
         /\ reader'.inode = reader.inode /\ reader'.file = reader.file
<1>1. reader' = [pc |-> "advance", inode |-> reader.inode, file |-> reader.file, at |-> at + 1]
  BY DEF ReaderState, Consumed
<1>2. at + 1 \in Nat /\ reader.inode \in 0..Files /\ reader.file \in 0..Files
  BY DEF ReaderState
<1>3. QED
  BY <1>1, <1>2 DEF ReaderState

(* A line is consumed once it is handled.                                   *)
LEMMA ConsumeStep ==
  ASSUME IInv, OutboxInv', Delivers, reader.pc = "read", ~AtEnd, Consumed,
         UNCHANGED <<fileVars, cursor>>, dead_letters \subseteq dead_letters',
         dead_letters' \subseteq Lines, NEW l, l = ThisLine, Handled(l)'
  PROVE  IInv' /\ Delivers
<1>1. \A n : Prefix(n) => Prefix(n)'
  BY ClaimsStay
<1>2. PICK at \in Nat : at = reader.at
  BY DEF IInv, TypeInv, ReaderState
<1>3. /\ reader' \in ReaderState /\ reader'.pc = "advance" /\ reader'.at = at + 1
      /\ reader'.inode = reader.inode /\ reader'.file = reader.file
  BY <1>2, ConsumedReader DEF IInv, TypeInv
<1>4. ASSUME reader.inode = path PROVE Prefix(at + 1)'
  <2>1. reader.file = path /\ path' = path /\ files' = files
    BY <1>4 DEF IInv, TypeInv, ReaderInv, ReaderState, fileVars
  <2>2. Prefix(at) /\ files[path] \in Seq(Lines)
    BY <1>2, <1>4 DEF IInv, TypeInv, ReaderInv
  <2>3. at + 1 =< Len(files[path])
    BY <1>2, <2>1, <2>2 DEF AtEnd
  <2>4. l = files[path][at + 1]
    BY <1>2, <2>1 DEF ThisLine
  <2>5. \A k \in 1..at : Handled(files[path][k])'
    BY <2>2, HandledStays DEF Prefix, fileVars
  <2>6. \A k \in 1..at + 1 : Handled(files[path][k])'
    BY <1>2, <2>1, <2>4, <2>5 DEF Handled
  <2>7. QED
    BY <1>2, <2>1, <2>3, <2>6 DEF Prefix
<1>5. TypeInv'
  BY <1>3 DEF IInv, TypeInv, fileVars
<1>6. ReaderInv'
  BY <1>1, <1>2, <1>3, <1>4 DEF IInv, TypeInv, ReaderInv, ReaderState, fileVars
<1>7. QED
  BY <1>5, <1>6 DEF IInv

LEMMA ReadStep ==
  ASSUME IInv, ReadEvent \/ ReadMalformed \/ ReadForeign
  PROVE  IInv' /\ Delivers
<1>1. reader.pc = "read" /\ ~AtEnd /\ Consumed /\ UNCHANGED <<fileVars, cursor>>
  BY DEF ReadEvent, ReadMalformed, ReadForeign
<1>2. ThisLine \in Lines /\ dead_letters \subseteq Lines
  BY <1>1 DEF IInv, TypeInv, ReaderInv, ReaderState, AtEnd, ThisLine
<1>3. PICK l \in Lines : l = ThisLine
  BY <1>2
<1>4. CASE ReadEvent
  <2>1. PICK e \in Events : e = EventOf[l] /\ Enqueue(e)
    BY <1>3, <1>4 DEF ReadEvent
  <2>2. OutboxInv' /\ Delivers /\ e \in Queued'
    BY <1>4, <2>1, EnqueueStep DEF IInv, ReadEvent
  <2>3. Handled(l)'
    BY <2>1, <2>2, FalcoAssumption DEF Handled, FalcoAssumption
  <2>4. QED
    BY <1>1, <1>2, <1>3, <1>4, <2>2, <2>3, ConsumeStep DEF ReadEvent
<1>5. CASE ReadMalformed
  <2>1. OutboxInv' /\ Delivers
    BY <1>5, OutboxIdle DEF IInv, ReadMalformed
  <2>2. Handled(l)'
    BY <1>3, <1>5, FalcoAssumption DEF Handled, FalcoAssumption, ReadMalformed
  <2>3. dead_letters \subseteq dead_letters' /\ dead_letters' \subseteq Lines
    BY <1>2, <1>5 DEF ReadMalformed
  <2>4. QED
    BY <1>1, <1>3, <2>1, <2>2, <2>3, ConsumeStep
<1>6. CASE ReadForeign
  <2>1. OutboxInv' /\ Delivers
    BY <1>6, OutboxIdle DEF IInv, ReadForeign
  <2>2. Handled(l)'
    BY <1>3, <1>6, FalcoAssumption DEF Handled, FalcoAssumption, ReadForeign
  <2>3. QED
    BY <1>1, <1>2, <1>3, <1>6, <2>1, <2>2, ConsumeStep DEF ReadForeign
<1>7. QED
  BY <1>4, <1>5, <1>6

(* A dead or restarted reader claims nothing, the cursor what it did.       *)
LEMMA ReaderGone ==
  ASSUME IInv, OutboxInv', Delivers, reader' \in {AtStat, [AtStat EXCEPT !.pc = "dead"]},
         UNCHANGED <<fileVars, cursor, dead_letters>>
  PROVE  IInv' /\ Delivers
<1>1. \A n : Prefix(n) => Prefix(n)'
  BY ClaimsStay
<1>2. reader' \in ReaderState /\ reader'.pc \in {"stat", "dead"}
  BY FalcoAssumption DEF AtStat, ReaderState, FalcoAssumption
<1>3. TypeInv'
  BY <1>2 DEF IInv, TypeInv, fileVars
<1>4. ReaderInv'
  BY <1>1, <1>2 DEF IInv, ReaderInv, fileVars
<1>5. QED
  BY <1>3, <1>4 DEF IInv

LEMMA ReaderDiesStep ==
  ASSUME IInv, ReaderDies
  PROVE  IInv' /\ Delivers
<1>1. OutboxInv' /\ Delivers
  BY LoopStep, FaultType DEF IInv, OutboxInv, OutboxTypeOK, ReaderDies
<1>2. QED
  BY <1>1, ReaderGone DEF ReaderDies

LEMMA RestartsStep ==
  ASSUME IInv, Restart
  PROVE  IInv' /\ Delivers
<1>1. OutboxInv' /\ Delivers
  BY RestartStep, FaultType DEF IInv, OutboxInv, OutboxTypeOK, Restart
<1>2. QED
  BY <1>1, ReaderGone DEF Restart

LEMMA DeliveryLoopStep ==
  ASSUME IInv, OutboxNext \/ Retain, UNCHANGED <<fileVars, cursor, reader, dead_letters>>
  PROVE  IInv' /\ Delivers
<1>1. OutboxInv' /\ Delivers
  BY OutboxStep DEF IInv
<1>2. \A n : Prefix(n) => Prefix(n)'
  BY <1>1, ClaimsStay
<1>3. TypeInv' /\ ReaderInv'
  BY <1>2 DEF IInv, TypeInv, ReaderInv, fileVars
<1>4. QED
  BY <1>1, <1>3 DEF IInv

LEMMA IInvStep == IInv /\ [Next]_vars => IInv' /\ Delivers
<1> SUFFICES ASSUME IInv, [Next]_vars PROVE IInv' /\ Delivers
  OBVIOUS
<1>1. CASE WriteLine \/ Rotate
  BY <1>1, WriteLineStep, RotateStep
<1>2. CASE ReaderStep
  BY <1>2, StatStep, OtherMovesStep, ReadStep DEF ReaderStep
<1>3. CASE ReaderDies \/ Restart
  BY <1>3, ReaderDiesStep, RestartsStep
<1>4. CASE (OutboxNext \/ Retain) /\ UNCHANGED <<fileVars, cursor, reader, dead_letters>>
  BY <1>4, DeliveryLoopStep
<1>5. CASE UNCHANGED vars
  <2>1. OutboxInv' /\ Delivers
    BY <1>5, OutboxIdle DEF IInv, vars
  <2>2. \A n : Prefix(n) => Prefix(n)'
    BY <1>5, <2>1, ClaimsStay DEF vars
  <2>3. TypeInv' /\ ReaderInv'
    BY <1>5, <2>2 DEF vars, IInv, TypeInv, ReaderInv, fileVars
  <2>4. QED
    BY <2>1, <2>3 DEF IInv
<1>6. QED
  BY <1>1, <1>2, <1>3, <1>4, <1>5 DEF Next

LEMMA SpecIInv == Spec => []IInv
BY InitEstablishesIInv, IInvStep, PTL DEF Spec

(* The outbox stays within its limit, and all of the state has its type.    *)
THEOREM TypeCorrect == Spec => []TypeOK
<1>1. IInv => TypeOK
  BY DEF IInv, OutboxInv, TypeInv, TypeOK
<1>2. QED
  BY SpecIInv, <1>1, PTL

(* Each line the durable cursor has passed is queued, stored or a dead      *)
(* letter, for every log, number of rotations, crashes and full spools.     *)
THEOREM NoLineIsSkipped == Spec => []NothingSkipped
<1>1. IInv => NothingSkipped
  BY DEF IInv, ReaderInv, Prefix, NothingSkipped
<1>2. QED
  BY SpecIInv, <1>1, PTL

(* The adapter and the backend implement EventDelivery: what was captured   *)
(* is owed until the backend has committed it, and stored once.             *)
THEOREM ImplementsDelivery == Spec => DeliverySpec
<1>1. Init => Delivery!Init
  BY InitEstablishesIInv
<1>2. IInv /\ [Next]_vars => [Delivery!Next]_<<Owed, Stored>>
  BY IInvStep DEF Delivers
<1>3. QED
  BY SpecIInv, <1>1, <1>2, PTL DEF Spec, DeliverySpec, Delivery!Spec

-------------------------------------------------------------------------------
(* DockerCapture. *)

(* An event has a stamp when it is in the log, and is there once.           *)
Stamped == {e \in Events : stamp[e] > 0}

DaemonInv ==
  /\ clock \in 1..MaxTime
  /\ log \in Seq(Events)
  /\ stamp \in [Events -> 0..clock]
  /\ \A k \in 1..Len(log) : stamp[log[k]] > 0
  /\ Len(log) = Cardinality(Stamped)
  /\ \A j, k \in 1..Len(log) : j < k => stamp[log[j]] =< stamp[log[k]] + Lag

(* What happened before the window that set the first cursor is not owed.   *)
Had(e) == e \in Captured \/ stamp[e] < begun

CursorInv ==
  /\ docker_cursor \in 0..clock \union {NoCursor}
  /\ begun \in 0..clock \union {NoCursor}
  /\ docker_cursor # NoCursor =>
       \A k \in 1..Len(log) : stamp[log[k]] + Overlap < docker_cursor => Had(log[k])

(* The thread has had all of the log up to its place, and all that the      *)
(* daemon leaves out.                                                       *)
SourceInv ==
  /\ source \in SourceState
  /\ source.backlog =< Len(log) /\ source.at =< Len(log)
  /\ source.pc \in {"stream", "mark"} =>
       /\ \A k \in 1..source.at : Had(log[k])
       /\ \A k \in 1..source.backlog : stamp[log[k]] < source.since => Had(log[k])
  /\ source.pc = "mark" => source.at > 0

CaptureIInv == OutboxInv /\ DaemonInv /\ CursorInv /\ SourceInv

-------------------------------------------------------------------------------
LEMMA Sizes ==
  ASSUME DaemonInv
  PROVE  /\ MaxTime \in Nat /\ Window \in Nat /\ Overlap \in Nat /\ Lag \in 0..Overlap
         /\ Cardinality(Events) \in Nat /\ Len(log) \in Nat /\ Len(log) =< Cardinality(Events)
<1>1. Stamped \subseteq Events /\ IsFiniteSet(Events)
  BY OutboxAssumption DEF OutboxAssumption, Stamped
<1>2. Cardinality(Events) \in Nat /\ Cardinality(Stamped) =< Cardinality(Events)
  BY <1>1, FS_Subset, FS_CardinalityType
<1>3. QED
  BY <1>2, CaptureAssumption DEF DaemonInv, CaptureAssumption

LEMMA HadStays ==
  ASSUME Delivers, UNCHANGED <<stamp, begun>>
  PROVE  \A e : Had(e) => Had(e)'
BY DEF Delivers, Had, Captured

LEMMA DaemonIdle ==
  ASSUME DaemonInv, UNCHANGED daemonVars
  PROVE  DaemonInv'
<1>1. Stamped' = Stamped
  BY DEF daemonVars, Stamped
<1>2. QED
  BY <1>1 DEF DaemonInv, daemonVars

LEMMA CursorIdle ==
  ASSUME CursorInv, Delivers, UNCHANGED <<daemonVars, docker_cursor, begun>>
  PROVE  CursorInv'
<1>1. \A e : Had(e) => Had(e)'
  BY HadStays DEF daemonVars
<1>2. QED
  BY <1>1 DEF CursorInv, daemonVars

(* A thread with no window open claims nothing.                             *)
LEMMA NoWindow ==
  ASSUME DaemonInv, log' = log, NEW pc \in {"down", "connect", "window", "complete", "dead"},
         source' = At(pc)
  PROVE  SourceInv'
<1>1. source' \in SourceState /\ source'.pc = pc /\ source'.at = 0 /\ source'.backlog = 0
  BY Sizes DEF At, SourceState
<1>2. QED
  BY <1>1, Sizes DEF SourceInv

(* A thread that stays where it is claims what it did.                      *)
LEMMA SourceIdle ==
  ASSUME SourceInv, Delivers, UNCHANGED <<daemonVars, begun, source>>
  PROVE  SourceInv'
<1>1. \A e : Had(e) => Had(e)'
  BY HadStays DEF daemonVars
<1>2. QED
  BY <1>1 DEF SourceInv, daemonVars

LEMMA CaptureInitIInv == CaptureInit => CaptureIInv
<1> SUFFICES ASSUME CaptureInit PROVE CaptureIInv
  OBVIOUS
<1>1. Queued = Old /\ Stored = {} /\ IsFiniteSet(Events)
  BY CaptureAssumption, OutboxAssumption
     DEF CaptureInit, OutboxInit, Queued, Stored, CaptureAssumption, OutboxAssumption
<1>2. OutboxInv
  BY <1>1, CaptureAssumption, OutboxAssumption
     DEF CaptureInit, OutboxInit, OutboxInv, OutboxTypeOK, AtFetch, LoopState, CaptureAssumption,
         OutboxAssumption
<1>3. Stamped = {} /\ Len(log) = 0 /\ log \in Seq(Events)
  BY DEF CaptureInit, Stamped
<1>4. DaemonInv
  BY <1>3, FS_EmptySet, CaptureAssumption DEF CaptureInit, DaemonInv, CaptureAssumption
<1>5. SourceInv
  BY <1>3, <1>4, Sizes DEF CaptureInit, At, SourceState, SourceInv
<1>6. CursorInv
  BY CaptureAssumption DEF CaptureInit, CursorInv, CaptureAssumption
<1>7. QED
  BY <1>2, <1>4, <1>5, <1>6 DEF CaptureIInv

-------------------------------------------------------------------------------
(* The daemon. *)

LEMMA TickStep ==
  ASSUME CaptureIInv, Tick
  PROVE  CaptureIInv' /\ Delivers
<1>1. OutboxInv' /\ Delivers
  BY OutboxIdle DEF CaptureIInv, Tick
<1>2. clock \in 1..MaxTime /\ clock' = clock + 1 /\ clock < MaxTime /\ MaxTime \in Nat
  BY Sizes DEF CaptureIInv, DaemonInv, Tick
<1>3. Stamped' = Stamped /\ UNCHANGED <<log, stamp, docker_cursor, begun, source>>
  BY DEF Tick, Stamped, captureVars
<1>4. stamp \in [Events -> 0..clock']
  BY <1>2 DEF CaptureIInv, DaemonInv
<1>5. DaemonInv'
  BY <1>2, <1>3, <1>4 DEF CaptureIInv, DaemonInv
<1>6. \A e : Had(e) => Had(e)'
  BY <1>1, <1>3, HadStays
<1>7. CursorInv'
  BY <1>2, <1>3, <1>6 DEF CaptureIInv, CursorInv
<1>8. SourceInv'
  BY <1>3, <1>6 DEF CaptureIInv, SourceInv
<1>9. QED
  BY <1>1, <1>5, <1>7, <1>8 DEF CaptureIInv

(* The one place where the lag matters: what is published now is stamped    *)
(* at most Lag before the clock, and the cursor is not ahead of the clock.  *)
LEMMA PublishStep ==
  ASSUME CaptureIInv, NEW e \in Events, Publish(e)
  PROVE  CaptureIInv' /\ Delivers
<1>1. OutboxInv' /\ Delivers
  BY OutboxIdle DEF CaptureIInv, Publish
<1>2. PICK t \in 1..clock : t + Lag >= clock /\ stamp' = [stamp EXCEPT ![e] = t]
  BY DEF Publish
<1>3. /\ stamp[e] = 0 /\ log' = Append(log, e) /\ clock' = clock
      /\ UNCHANGED <<docker_cursor, begun, source>>
  BY DEF Publish, captureVars
<1> DEFINE n == Len(log)
<1>4. /\ clock \in 1..MaxTime /\ MaxTime \in Nat /\ Lag \in 0..Overlap /\ Overlap \in Nat
      /\ n \in Nat /\ Window \in Nat
  BY Sizes DEF CaptureIInv, DaemonInv
<1>5. /\ log' \in Seq(Events) /\ Len(log') = n + 1 /\ log'[n + 1] = e
      /\ \A k \in 1..n : log'[k] = log[k]
  BY <1>3 DEF CaptureIInv, DaemonInv
<1> HIDE DEF n
<1>6. \A k \in 1..n : /\ log[k] \in Events /\ log[k] # e
                       /\ stamp'[log[k]] = stamp[log[k]] /\ stamp[log[k]] \in 1..clock
  BY <1>2, <1>3, <1>4 DEF CaptureIInv, DaemonInv, n
<1>7. stamp' \in [Events -> 0..clock] /\ stamp'[e] = t
  BY <1>2, <1>4 DEF CaptureIInv, DaemonInv
<1>8. DaemonInv'
  <2>1. Stamped' = Stamped \union {e} /\ e \notin Stamped
    BY <1>2, <1>3, <1>4, <1>7 DEF Stamped, CaptureIInv, DaemonInv
  <2>2. IsFiniteSet(Stamped)
    BY FS_Subset, OutboxAssumption DEF OutboxAssumption, Stamped
  <2>3. Cardinality(Stamped') = n + 1
    BY <2>1, <2>2, FS_AddElement DEF CaptureIInv, DaemonInv, n
  <2>4. \A k \in 1..n + 1 : stamp'[log'[k]] \in 1..clock
    BY <1>4, <1>5, <1>6, <1>7
  <2>5. \A j \in 1..n + 1 : stamp'[log'[j]] =< t + Lag
    BY <1>2, <1>4, <2>4
  <2>6. \A j, k \in 1..n + 1 : j < k => stamp'[log'[j]] =< stamp'[log'[k]] + Lag
    <3>1. TAKE j, k \in 1..n + 1
    <3>2. CASE k = n + 1
      BY <1>5, <1>7, <2>5, <3>2
    <3>3. CASE k \in 1..n /\ j < k
      <4>1. j \in 1..n
        BY <1>4, <3>3
      <4>2. stamp[log[j]] =< stamp[log[k]] + Lag
        BY <3>3, <4>1 DEF CaptureIInv, DaemonInv, n
      <4>3. QED
        BY <1>5, <1>6, <3>3, <4>1, <4>2
    <3>4. QED
      BY <1>4, <3>2, <3>3
  <2>7. \A k \in 1..n + 1 : stamp'[log'[k]] > 0
    BY <1>4, <2>4
  <2>8. QED
    BY <1>3, <1>4, <1>5, <1>7, <2>3, <2>6, <2>7 DEF DaemonInv
<1>9. \A k \in 1..n : Had(log[k]) => log'[k] \in Captured' \/ stamp'[log'[k]] < begun'
  BY <1>1, <1>3, <1>5, <1>6 DEF Delivers, Had, Captured
<1>10. CursorInv'
  <2>1. docker_cursor # NoCursor => docker_cursor \in 0..clock
    BY DEF CaptureIInv, CursorInv
  <2>2. docker_cursor # NoCursor => ~(stamp'[log'[n + 1]] + Overlap < docker_cursor)
    BY <1>2, <1>4, <1>5, <1>7, <2>1
  <2>3. ASSUME docker_cursor # NoCursor, NEW k \in 1..n, stamp[log[k]] + Overlap < docker_cursor
        PROVE  log'[k] \in Captured' \/ stamp'[log'[k]] < begun'
    BY <1>9, <2>3 DEF CaptureIInv, CursorInv, n
  <2>4. ASSUME docker_cursor' # NoCursor, NEW k \in 1..n + 1, stamp'[log'[k]] + Overlap < docker_cursor'
        PROVE  log'[k] \in Captured' \/ stamp'[log'[k]] < begun'
    <3>1. k # n + 1
      BY <1>3, <2>2, <2>4
    <3>2. k \in 1..n
      BY <1>4, <3>1
    <3>3. QED
      BY <1>3, <1>5, <1>6, <2>3, <2>4, <3>2
  <2>5. \A k \in 1..Len(log') :
          docker_cursor' # NoCursor /\ stamp'[log'[k]] + Overlap < docker_cursor' =>
            log'[k] \in Captured' \/ stamp'[log'[k]] < begun'
    BY <1>5, <2>4
  <2>6. QED
    BY <1>3, <2>5 DEF CaptureIInv, CursorInv, Had, NoCursor
<1>11. SourceInv'
  <2>1. source.at \in 0..n /\ source.backlog \in 0..n
    BY <1>4 DEF CaptureIInv, SourceInv, SourceState, n
  <2>2. ASSUME NEW k \in 1..n
        PROVE  /\ log'[k] = log[k] /\ stamp'[log'[k]] = stamp[log[k]]
               /\ Had(log[k]) => log'[k] \in Captured' \/ stamp'[log'[k]] < begun'
    BY <1>5, <1>6, <1>9
  <2>3. QED
    BY <1>3, <1>4, <1>5, <2>1, <2>2 DEF CaptureIInv, SourceInv, Had
<1>12. QED
  BY <1>1, <1>8, <1>10, <1>11 DEF CaptureIInv
-------------------------------------------------------------------------------
(* The source. *)

(* Steps that leave no window open and the cursor where it is.              *)
LEMMA ClosingStep ==
  ASSUME CaptureIInv, OutboxInv', Delivers, UNCHANGED <<daemonVars, docker_cursor, begun>>,
         NEW pc \in {"down", "connect", "window", "complete", "dead"}, source' = At(pc)
  PROVE  CaptureIInv' /\ Delivers
BY DaemonIdle, CursorIdle, NoWindow DEF CaptureIInv, daemonVars

LEMMA SourceEndsStep ==
  ASSUME CaptureIInv,
         Connect \/ CaptureIntoFullSpool \/ LoseConnection \/ SourceDies \/ Start \/ CaptureRestart
  PROVE  CaptureIInv' /\ Delivers
<1>1. CASE Connect \/ CaptureIntoFullSpool
  BY <1>1, OutboxIdle, ClosingStep DEF CaptureIInv, Connect, CaptureIntoFullSpool
<1>2. CASE LoseConnection \/ SourceDies
  <2>1. OutboxInv' /\ Delivers
    BY <1>2, LoopStep, FaultType DEF CaptureIInv, OutboxInv, OutboxTypeOK, LoseConnection, SourceDies
  <2>2. QED
    BY <1>2, <2>1, ClosingStep DEF LoseConnection, SourceDies
<1>3. CASE Start \/ CaptureRestart
  <2>1. Started /\ faults' \in 0..MaxFaults
    BY <1>3, FaultType DEF CaptureIInv, OutboxInv, OutboxTypeOK, Start, CaptureRestart
  <2>2. OutboxInv' /\ Delivers
    BY <2>1, RestartStep DEF CaptureIInv, Started, RepairLegacyActions
  <2>3. QED
    BY <2>1, <2>2, ClosingStep DEF Started
<1>4. QED
  BY <1>1, <1>2, <1>3

LEMMA SinceType ==
  ASSUME CaptureIInv
  PROVE  /\ Since \in 0..clock
         /\ docker_cursor # NoCursor =>
              /\ docker_cursor \in 0..clock
              /\ \A t \in Nat : t < Since => t + Overlap < docker_cursor
<1>1. /\ docker_cursor \in 0..clock \union {NoCursor} /\ clock \in 1..MaxTime
      /\ MaxTime \in Nat /\ Overlap \in Nat
  BY Sizes DEF CaptureIInv, CursorInv, DaemonInv
<1>2. QED
  BY <1>1 DEF Since, Monus

(* A window asks for all that is not had yet.                               *)
LEMMA OpenWindowStep ==
  ASSUME CaptureIInv, OpenWindow
  PROVE  CaptureIInv' /\ Delivers
<1>1. OutboxInv' /\ Delivers /\ DaemonInv'
  BY OutboxIdle, DaemonIdle DEF CaptureIInv, OpenWindow
<1>2. PICK since \in 0..clock : since = Since
  BY SinceType
<1>3. /\ source' = [pc |-> "stream", at |-> 0, backlog |-> Len(log),
                    since |-> since, until |-> clock + Window]
      /\ begun' = IF docker_cursor = NoCursor THEN since ELSE begun
      /\ UNCHANGED <<clock, log, stamp, docker_cursor>>
  BY <1>2 DEF OpenWindow, daemonVars
<1>4. /\ clock \in 1..MaxTime /\ MaxTime \in Nat /\ Window \in Nat
      /\ Cardinality(Events) \in Nat /\ Len(log) \in 0..Cardinality(Events)
  BY Sizes DEF CaptureIInv, DaemonInv
<1>5. source' \in SourceState
  BY <1>3, <1>4 DEF SourceState
<1>6. /\ source'.pc = "stream" /\ source'.at = 0 /\ source'.backlog = Len(log)
      /\ source'.since = since
  BY <1>3
<1>7. CursorInv'
  <2>1. CASE docker_cursor = NoCursor
    BY <1>3, <2>1 DEF CaptureIInv, CursorInv
  <2>2. CASE docker_cursor # NoCursor
    <3>1. \A e : Had(e) => Had(e)'
      BY <1>1, <1>3, <2>2, HadStays
    <3>2. QED
      BY <1>3, <2>2, <3>1 DEF CaptureIInv, CursorInv
  <2>3. QED
    BY <2>1, <2>2
<1>8. ASSUME NEW k \in 1..Len(log), stamp[log[k]] < since PROVE Had(log[k])'
  <2>1. CASE docker_cursor = NoCursor
    BY <1>3, <1>8, <2>1 DEF Had
  <2>2. CASE docker_cursor # NoCursor
    <3>1. stamp[log[k]] \in Nat
      BY <1>4 DEF CaptureIInv, DaemonInv
    <3>2. Had(log[k])
      BY <1>2, <1>8, <2>2, <3>1, SinceType DEF CaptureIInv, CursorInv
    <3>3. QED
      BY <1>1, <1>3, <2>2, <3>2, HadStays DEF Delivers, Had, Captured
  <2>3. QED
    BY <2>1, <2>2
<1>9. SourceInv'
  BY <1>3, <1>4, <1>5, <1>6, <1>8 DEF SourceInv, Had
<1>10. QED
  BY <1>1, <1>7, <1>9 DEF CaptureIInv
LEMMA Passed ==
  ASSUME NEW s \in SourceState, NEW at, at \in 0..Cardinality(Events), NEW pc \in {"stream", "mark"},
         NEW r, r = [pc |-> pc, at |-> at, backlog |-> s.backlog, since |-> s.since,
                     until |-> s.until]
  PROVE  /\ r \in SourceState /\ r.pc = pc /\ r.at = at
         /\ r.backlog = s.backlog /\ r.since = s.since
BY DEF SourceState

(* The thread passes an event that it has had.                              *)
LEMMA PassStep ==
  ASSUME CaptureIInv, OutboxInv', Delivers, UNCHANGED <<daemonVars, docker_cursor, begun>>, Streaming,
         NEW pc \in {"stream", "mark"}, source' = [source EXCEPT !.pc = pc, !.at = @ + 1],
         NEW e, e = NextEvent, Had(e)'
  PROVE  CaptureIInv' /\ Delivers
<1>1. DaemonInv' /\ CursorInv'
  BY DaemonIdle, CursorIdle DEF CaptureIInv
<1>2. PICK at \in Nat : /\ at = source.at /\ at < Len(log) /\ e = log[at + 1]
                        /\ source.pc = "stream" /\ Len(log) =< Cardinality(Events)
  BY Sizes DEF CaptureIInv, SourceInv, SourceState, Streaming, NextEvent
<1>3. source \in SourceState /\ at + 1 \in 0..Cardinality(Events)
  BY <1>2, Sizes DEF CaptureIInv, SourceInv
<1>4. /\ source' = [pc |-> pc, at |-> at + 1, backlog |-> source.backlog,
                    since |-> source.since, until |-> source.until]
  BY <1>2, <1>3 DEF SourceState
<1>5. /\ source' \in SourceState /\ source'.pc = pc /\ source'.at = at + 1
      /\ source'.backlog = source.backlog /\ source'.since = source.since
  <2>1. PICK r, s, n : r = source' /\ s = source /\ n = at + 1
    OBVIOUS
  <2>2. r = [pc |-> pc, at |-> n, backlog |-> s.backlog, since |-> s.since, until |-> s.until]
    BY <1>4, <2>1
  <2>3. s \in SourceState /\ n \in 0..Cardinality(Events)
    BY <1>3, <2>1
  <2>4. /\ r \in SourceState /\ r.pc = pc /\ r.at = n /\ r.backlog = s.backlog
        /\ r.since = s.since
    BY <2>2, <2>3, Passed
  <2>5. QED
    BY <2>1, <2>4
<1>6. \A x : Had(x) => Had(x)'
  BY HadStays DEF daemonVars
<1>7. \A k \in 1..at + 1 : k \in 1..at \/ k = at + 1
  BY <1>2
<1>8. SourceInv'
  BY <1>1, <1>2, <1>5, <1>6, <1>7, Sizes DEF CaptureIInv, SourceInv, daemonVars
<1>9. QED
  BY <1>1, <1>8 DEF CaptureIInv

(* What the daemon leaves out of a window happened before it: the thread    *)
(* had it.                                                                  *)
LEMMA SkipOlderStep ==
  ASSUME CaptureIInv, SkipOlder
  PROVE  CaptureIInv' /\ Delivers
<1>1. OutboxInv' /\ Delivers
  BY OutboxIdle DEF CaptureIInv, SkipOlder
<1>2. PICK at \in Nat : at = source.at /\ at < source.backlog
  BY DEF CaptureIInv, SourceInv, SourceState, SkipOlder, BeforeSince
<1>3. at + 1 \in 1..source.backlog /\ source.pc = "stream" /\ stamp[log[at + 1]] < source.since
  BY <1>2 DEF CaptureIInv, SourceInv, SourceState, SkipOlder, BeforeSince, NextEvent, Streaming
<1>4. PICK e : e = NextEvent
  OBVIOUS
<1>5. Had(e)
  BY <1>2, <1>3, <1>4 DEF CaptureIInv, SourceInv, NextEvent
<1>6. Had(e)'
  BY <1>1, <1>5, HadStays DEF SkipOlder, daemonVars
<1>7. source \in SourceState /\ source.pc = "stream"
  BY <1>3 DEF CaptureIInv, SourceInv
<1>8. source' = [source EXCEPT !.pc = "stream", !.at = @ + 1]
  BY <1>7 DEF SkipOlder, SourceState
<1>9. QED
  BY <1>1, <1>4, <1>6, <1>8, PassStep DEF SkipOlder

LEMMA CaptureEventStep ==
  ASSUME CaptureIInv, CaptureEvent
  PROVE  CaptureIInv' /\ Delivers
<1>1. PICK at \in Nat : at = source.at /\ at < Len(log)
  BY DEF CaptureIInv, SourceInv, SourceState, CaptureEvent, Streaming
<1>2. log[at + 1] \in Events
  BY <1>1, Sizes DEF CaptureIInv, DaemonInv
<1>3. PICK e \in Events : e = NextEvent /\ Enqueue(e)
  BY <1>1, <1>2 DEF CaptureEvent, NextEvent
<1>4. OutboxInv' /\ Delivers /\ e \in Queued'
  BY <1>3, EnqueueStep DEF CaptureIInv, CaptureEvent
<1>5. Had(e)'
  BY <1>4 DEF Had, Captured
<1>6. QED
  BY <1>3, <1>4, <1>5, PassStep DEF CaptureEvent

(* The cursor is moved to a time before which nothing is left out.          *)
LEMMA CursorMoves ==
  ASSUME CaptureIInv, OutboxInv', Delivers, UNCHANGED <<daemonVars, begun>>,
         NEW t \in 0..clock, UpdateCursor(t),
         \A k \in 1..Len(log) : stamp[log[k]] + Overlap < t => Had(log[k])
  PROVE  CursorInv'
<1>1. docker_cursor \in 0..clock \union {NoCursor} /\ clock \in 1..MaxTime
  BY DEF CaptureIInv, CursorInv, DaemonInv
<1>2. docker_cursor' \in {t, docker_cursor} /\ (docker_cursor = NoCursor => docker_cursor' = t)
  BY DEF UpdateCursor
<1>3. \A k \in 1..Len(log) : stamp[log[k]] + Overlap < docker_cursor' => Had(log[k])
  BY <1>2 DEF CaptureIInv, CursorInv
<1>4. \A x : Had(x) => Had(x)'
  BY HadStays DEF daemonVars
<1>5. QED
  BY <1>1, <1>2, <1>3, <1>4 DEF CaptureIInv, CursorInv, daemonVars

(* What is published after an event happened at most Lag before it.         *)
LEMMA MarkEventStep ==
  ASSUME CaptureIInv, MarkEvent
  PROVE  CaptureIInv' /\ Delivers
<1>1. OutboxInv' /\ Delivers /\ DaemonInv'
  BY OutboxIdle, DaemonIdle DEF CaptureIInv, MarkEvent
<1>2. /\ source \in SourceState /\ source.pc = "mark"
      /\ UNCHANGED <<daemonVars, begun>>
  BY DEF CaptureIInv, SourceInv, MarkEvent
<1>3. PICK at \in 1..Len(log) : at = source.at
  BY <1>2, Sizes DEF CaptureIInv, SourceInv, SourceState
<1>4. /\ clock \in 1..MaxTime /\ log \in Seq(Events) /\ stamp \in [Events -> 0..clock]
      /\ MaxTime \in Nat /\ Lag \in 0..Overlap /\ Overlap \in Nat /\ Len(log) \in Nat
  BY Sizes DEF CaptureIInv, DaemonInv
<1>5. \A k \in 1..Len(log) : stamp[log[k]] \in 0..clock
  BY <1>4
<1>6. PICK t \in 0..clock : t = stamp[log[at]] /\ UpdateCursor(t)
  BY <1>3, <1>5 DEF MarkEvent
<1>7. ASSUME NEW k \in 1..Len(log), stamp[log[k]] + Overlap < t PROVE Had(log[k])
  <2>1. CASE k =< at
    BY <1>2, <1>3, <1>7, <2>1 DEF CaptureIInv, SourceInv
  <2>2. CASE at < k
    <3>1. t =< stamp[log[k]] + Lag
      BY <1>3, <1>6, <2>2 DEF CaptureIInv, DaemonInv
    <3>2. QED
      BY <1>4, <1>5, <1>7, <3>1
  <2>3. QED
    BY <1>3, <2>1, <2>2
<1>8. CursorInv'
  BY <1>1, <1>2, <1>6, <1>7, CursorMoves
<1>9. source' = [source EXCEPT !.pc = "stream"]
  BY DEF MarkEvent
<1>10. /\ source' \in SourceState /\ source'.pc = "stream" /\ source'.at = source.at
       /\ source'.backlog = source.backlog /\ source'.since = source.since
  BY <1>2, <1>9 DEF SourceState
<1>11. \A x : Had(x) => Had(x)'
  BY <1>1, <1>2, HadStays DEF daemonVars
<1>12. SourceInv'
  BY <1>2, <1>10, <1>11 DEF CaptureIInv, SourceInv, daemonVars
<1>13. QED
  BY <1>1, <1>8, <1>12 DEF CaptureIInv

(* What the bounded stream has not sent happened after its end.             *)
LEMMA CompleteWindowStep ==
  ASSUME CaptureIInv, CompleteWindow
  PROVE  CaptureIInv' /\ Delivers
<1>1. OutboxInv' /\ Delivers /\ DaemonInv'
  BY OutboxIdle, DaemonIdle DEF CaptureIInv, CompleteWindow
<1>2. /\ source \in SourceState /\ source.pc = "stream" /\ StreamIsOver
      /\ UNCHANGED <<daemonVars, begun>>
  BY DEF CaptureIInv, SourceInv, CompleteWindow
<1>3. /\ clock \in 1..MaxTime /\ log \in Seq(Events) /\ stamp \in [Events -> 0..clock]
      /\ MaxTime \in Nat /\ Lag \in 0..Overlap /\ Overlap \in Nat /\ Len(log) \in Nat
  BY Sizes DEF CaptureIInv, DaemonInv
<1>4. PICK t \in 0..clock : t = source.until /\ UpdateCursor(t)
  BY <1>2, <1>3 DEF CompleteWindow, StreamIsOver, SourceState
<1>5. PICK at \in Nat : at = source.at
  BY <1>2 DEF SourceState
<1>6. ASSUME NEW k \in 1..Len(log), stamp[log[k]] + Overlap < t PROVE Had(log[k])
  <2>1. CASE k =< at
    BY <1>2, <1>5, <1>6, <2>1 DEF CaptureIInv, SourceInv
  <2>2. CASE k \in (at + 1)..Len(log)
    <3>1. stamp[log[k]] + Lag >= t /\ stamp[log[k]] \in 0..clock
      BY <1>2, <1>3, <1>4, <1>5, <2>2 DEF StreamIsOver
    <3>2. QED
      BY <1>3, <1>4, <1>6, <3>1
  <2>3. QED
    BY <1>5, <2>1, <2>2
<1>7. CursorInv'
  BY <1>1, <1>2, <1>4, <1>6, CursorMoves
<1>8. SourceInv'
  BY NoWindow DEF CaptureIInv, CompleteWindow, daemonVars
<1>9. QED
  BY <1>1, <1>7, <1>8 DEF CaptureIInv

-------------------------------------------------------------------------------
LEMMA CaptureIInvStep == CaptureIInv /\ [CaptureNext]_dockerVars => CaptureIInv' /\ Delivers
<1> SUFFICES ASSUME CaptureIInv, [CaptureNext]_dockerVars PROVE CaptureIInv' /\ Delivers
  OBVIOUS
<1>1. CASE Tick \/ \E e \in Events : Publish(e)
  BY <1>1, TickStep, PublishStep
<1>2. CASE SourceStep
  BY <1>2, SourceEndsStep, OpenWindowStep, SkipOlderStep, CaptureEventStep, MarkEventStep,
     CompleteWindowStep DEF SourceStep
<1>3. CASE LoseConnection \/ SourceDies \/ CaptureRestart
  BY <1>3, SourceEndsStep
<1>4. CASE Deliver \/ UNCHANGED dockerVars
  <2>1. OutboxInv' /\ Delivers
    BY <1>4, OutboxStep, OutboxIdle DEF CaptureIInv, Deliver, dockerVars
  <2>2. UNCHANGED <<daemonVars, captureVars>>
    BY <1>4 DEF Deliver, dockerVars
  <2>3. QED
    BY <2>1, <2>2, DaemonIdle, CursorIdle, SourceIdle DEF CaptureIInv, captureVars
<1>5. QED
  BY <1>1, <1>2, <1>3, <1>4 DEF CaptureNext

LEMMA CaptureSpecIInv == CaptureSpec => []CaptureIInv
BY CaptureInitIInv, CaptureIInvStep, PTL DEF CaptureSpec

(* All of the collector's state has its type, and the spool stays within    *)
(* its limit.                                                               *)
THEOREM CaptureTypeCorrect == CaptureSpec => []CaptureTypeOK
<1>1. CaptureIInv => CaptureTypeOK
  <2> SUFFICES ASSUME CaptureIInv PROVE CaptureTypeOK
    OBVIOUS
  <2>1. clock \in 1..MaxTime /\ MaxTime \in Nat /\ Window \in Nat
    BY Sizes DEF CaptureIInv, DaemonInv
  <2>2. stamp \in [Events -> 0..MaxTime]
    BY <2>1 DEF CaptureIInv, DaemonInv
  <2>3. QED
    BY <2>1, <2>2 DEF CaptureIInv, OutboxInv, DaemonInv, CursorInv, SourceInv, CaptureTypeOK, NoCursor
<1>2. QED
  BY CaptureSpecIInv, <1>1, PTL

(* A window opened now asks for all that is not captured yet: neither a     *)
(* late publication, nor the end of a window, a lost connection, a full     *)
(* spool or a restart at any moment makes the collector miss an event, as   *)
(* long as the daemon is at most docker_event_overlap_seconds late.         *)
THEOREM CaptureMissesNothing == CaptureSpec => []NothingMissed
<1>1. CaptureIInv => NothingMissed
  <2> SUFFICES ASSUME CaptureIInv, docker_cursor # NoCursor, NEW k \in 1..Len(log), 
                      begun =< stamp[log[k]], stamp[log[k]] < Since
               PROVE  log[k] \in Captured
    BY DEF NothingMissed, Published
  <2>1. stamp[log[k]] \in Nat /\ begun \in Nat
    BY Sizes DEF CaptureIInv, DaemonInv, CursorInv, NoCursor
  <2>2. stamp[log[k]] + Overlap < docker_cursor
    BY <2>1, SinceType
  <2>3. QED
    BY <2>1, <2>2 DEF CaptureIInv, CursorInv, Had
<1>2. QED
  BY CaptureSpecIInv, <1>1, PTL

(* Every step of the collector, of the backend and of the daemon is one of  *)
(* EventDelivery: what is captured, or was left by an earlier version, is   *)
(* owed until the backend has committed it, and is stored once.             *)
THEOREM CaptureDelivers == CaptureSpec => DeliveryFromOld
<1>1. CaptureInit => Owed = Old /\ Stored = {}
  <2> SUFFICES ASSUME CaptureInit PROVE Owed = Old /\ Stored = {}
    OBVIOUS
  <2>1. Queued = Old /\ Stored = {}
    BY CaptureAssumption
       DEF CaptureInit, OutboxInit, Queued, Stored, CaptureAssumption
  <2>2. QED
    BY <2>1 DEF Owed
<1>2. CaptureIInv /\ [CaptureNext]_dockerVars => [Delivery!Next]_<<Owed, Stored>>
  BY CaptureIInvStep DEF Delivers
<1>3. QED
  BY CaptureSpecIInv, <1>1, <1>2, PTL DEF CaptureSpec, DeliveryFromOld
===============================================================================
