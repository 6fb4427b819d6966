------------------------------ MODULE FalcoTail ------------------------------
(***************************************************************************)
(* The Falco adapter: FalcoFileSource._run tails the JSON file Falco        *)
(* appends to, puts the events into the outbox and remembers in the spool  *)
(* how far it has read.  Falco and the rotation of its file are external.  *)
(*                                                                         *)
(* A file is a sequence of complete lines; positions in it count lines.    *)
(* The reader is one thread: each of its SQLite blocks and each of its     *)
(* file operations is a step, between which Falco writes, the file is      *)
(* rotated, the delivery loop runs or the process dies.                    *)
(***************************************************************************)
EXTENDS Outbox, Sequences

CONSTANTS
  Output,    (* the lines Falco writes, one after another                     *)
  EventOf,   (* [Lines -> Events, Malformed or Foreign]: what becomes of one   *)
  Malformed, (* a line that normalize_falco_event or json.loads refuses       *)
  Foreign,   (* a line of another rule or source, or of the host              *)
  Files      (* bound: 1..n, the files the path names one after another       *)

Lines == {Output[n] : n \in 1..Len(Output)}

ASSUME FalcoAssumption ==
  /\ Output \in Seq(Lines)
  /\ EventOf \in [Lines -> Events \union {Malformed, Foreign}]
  /\ Malformed \notin Events /\ Foreign \notin Events /\ Malformed # Foreign
  /\ Files \in Nat \ {0}

VARIABLES
  files,        (* [1..Files -> Seq(Lines)]                                   *)
  path,         (* the file falco_log_path names; its number is its inode     *)
  written,      (* how much of Output is written                              *)
  cursor,       (* falco_file_inode and falco_file_offset; inode 0: none      *)
  reader,       (* the thread                                                 *)
  dead_letters  (* lines recorded as dead letters                             *)

fileVars == <<files, path, written>>
vars == <<outboxVars, fileVars, cursor, reader, dead_letters>>

(* "inode" and "size" are what stat returned, "file" is the one opened and  *)
(* "at" the position in it.                                                 *)
ReaderState ==
  [pc : {"stat", "open", "read", "advance", "dead"}, inode : 0..Files,
   file : 0..Files, at : Nat]

AtStat == [pc |-> "stat", inode |-> 0, file |-> 0, at |-> 0]

TypeOK ==
  /\ OutboxTypeOK
  /\ files \in [1..Files -> Seq(Lines)]
  /\ path \in 1..Files
  /\ written \in 0..Len(Output)
  /\ cursor \in [inode : 0..Files, offset : Nat]
  /\ reader \in ReaderState
  /\ dead_letters \in SUBSET Lines

Init ==
  /\ OutboxInit({})
  /\ files = [i \in 1..Files |-> <<>>]
  /\ path = 1
  /\ written = 0
  /\ cursor = [inode |-> 0, offset |-> 0]
  /\ reader = AtStat
  /\ dead_letters = {}

-------------------------------------------------------------------------------
(* Falco, external. *)

(* A line that is flushed in parts is there when its newline is.            *)
WriteLine ==
  /\ written < Len(Output)
  /\ written' = written + 1
  /\ files' = [files EXCEPT ![path] = Append(@, Output[written + 1])]
  /\ UNCHANGED <<outboxVars, path, cursor, reader, dead_letters>>

(* The path is made to name a new file.                                     *)
Rotate ==
  /\ path < Files
  /\ path' = path + 1
  /\ UNCHANGED <<outboxVars, files, written, cursor, reader, dead_letters>>

-------------------------------------------------------------------------------
(* The reader. *)

Stat ==
  /\ reader.pc = "stat"
  /\ reader' = [pc |-> "open", inode |-> path, file |-> 0,
                at |-> IF cursor.inode = path /\ Len(files[path]) >= cursor.offset
                       THEN cursor.offset ELSE 0]
  /\ UNCHANGED <<outboxVars, fileVars, cursor, dead_letters>>

Open ==
  /\ reader.pc = "open"
  /\ reader' = [reader EXCEPT !.pc = "read", !.file = path]
  /\ UNCHANGED <<outboxVars, fileVars, cursor, dead_letters>>

AtEnd    == reader.at >= Len(files[reader.file])
ThisLine == files[reader.file][reader.at + 1]

(* Mutant: at the end the reader waits for more instead of polling again.   *)
FollowsOpenFile ==
  /\ reader.pc = "read"
  /\ AtEnd
  /\ UNCHANGED vars

(* No line, or one without its newline: close the file and poll again.      *)
EndOfFile ==
  /\ reader.pc = "read"
  /\ AtEnd
  /\ reader' = AtStat
  /\ UNCHANGED <<outboxVars, fileVars, cursor, dead_letters>>

Consumed == reader' = [reader EXCEPT !.pc = "advance", !.at = @ + 1]

ReadEvent ==
  /\ reader.pc = "read"
  /\ ~AtEnd
  /\ EventOf[ThisLine] \in Events
  /\ Enqueue(EventOf[ThisLine])
  /\ Consumed
  /\ UNCHANGED <<unfit, loop, orphans, rows, deleted, faults, fileVars, cursor, dead_letters>>

(* Mutant: a line that finds the spool full is passed over.                 *)
PassesOverWhenFull ==
  /\ reader.pc = "read"
  /\ ~AtEnd
  /\ EventOf[ThisLine] \in Events
  /\ EnqueueFails(EventOf[ThisLine])
  /\ Consumed
  /\ UNCHANGED <<outboxVars, fileVars, cursor, dead_letters>>

(* SpoolFullError: seek back and poll again, the cursor stays.              *)
ReadIntoFullSpool ==
  /\ reader.pc = "read"
  /\ ~AtEnd
  /\ EventOf[ThisLine] \in Events
  /\ EnqueueFails(EventOf[ThisLine])
  /\ reader' = AtStat
  /\ UNCHANGED <<outboxVars, fileVars, cursor, dead_letters>>

(* A line over the limit, no JSON object, or one without time or pid.       *)
ReadMalformed ==
  /\ reader.pc = "read"
  /\ ~AtEnd
  /\ EventOf[ThisLine] = Malformed
  /\ dead_letters' = dead_letters \union {ThisLine}
  /\ Consumed
  /\ UNCHANGED <<outboxVars, fileVars, cursor>>

ReadForeign ==
  /\ reader.pc = "read"
  /\ ~AtEnd
  /\ EventOf[ThisLine] = Foreign
  /\ Consumed
  /\ UNCHANGED <<outboxVars, fileVars, cursor, dead_letters>>

(* update_file_cursor, with the inode of the stat.                          *)
AdvanceCursor ==
  /\ reader.pc = "advance"
  /\ cursor' = [inode |-> reader.inode, offset |-> reader.at]
  /\ reader' = [reader EXCEPT !.pc = "read"]
  /\ UNCHANGED <<outboxVars, fileVars, dead_letters>>

(* What is raised besides OSError, a sqlite3.Error for one, ends the thread. *)
ReaderDies ==
  /\ Fault
  /\ reader.pc \in {"stat", "read", "advance"}
  /\ reader' = [AtStat EXCEPT !.pc = "dead"]
  /\ UNCHANGED <<rank, waiting, unfit, loop, orphans, rows, deleted, fileVars,
                 cursor, dead_letters>>

(* Crash or restart of the adapter.                                         *)
Restart ==
  /\ Fault
  /\ reader' = AtStat
  /\ LoopRestarts
  /\ UNCHANGED <<rank, waiting, unfit, rows, deleted, fileVars, cursor, dead_letters>>

ReaderStep ==
  \/ Stat \/ Open \/ EndOfFile \/ ReadEvent \/ ReadIntoFullSpool \/ ReadMalformed
  \/ ReadForeign \/ AdvanceCursor

Next ==
  \/ WriteLine \/ Rotate
  \/ ReaderStep \/ ReaderDies \/ Restart
  \/ (OutboxNext \/ Retain) /\ UNCHANGED <<fileVars, cursor, reader, dead_letters>>

(* The two loops go on; Falco, rotation, retention and faults need not.     *)
Fairness ==
  /\ WF_vars(ReaderStep)
  /\ WF_vars(DeliveryStep /\ UNCHANGED <<fileVars, cursor, reader, dead_letters>>)
  /\ \A e \in Events :
       WF_vars(BackoffEnds(e) /\ UNCHANGED <<fileVars, cursor, reader, dead_letters>>)

Spec == Init /\ [][Next]_vars
FairSpec == Spec /\ Fairness

-------------------------------------------------------------------------------
(* Safety. *)

Handled(l) ==
  /\ EventOf[l] \in Events => EventOf[l] \in Queued \union Stored
  /\ EventOf[l] = Malformed => l \in dead_letters

(* The durable cursor never gets ahead of what is durable: each line of the *)
(* file before it is in the outbox or stored, or it is a dead letter,       *)
(* whatever crashes between putting it there and moving the cursor, however *)
(* often the spool was full, and if the path is rotated between the stat    *)
(* and the open.  (file_source.py, _run.)                                   *)
NothingSkipped ==
  cursor.inode = path =>
    \A k \in 1..cursor.offset : k <= Len(files[path]) => Handled(files[path][k])

(* Every step of the adapter and the backend is one of EventDelivery: an    *)
(* event leaves the outbox only when the backend has committed it, and what *)
(* is replayed after a crash is not stored a second time.                   *)
DeliverySpec == Delivery!Spec

InFile(i) == {files[i][k] : k \in 1..Len(files[i])}

(* Liveness: an event in the file Falco writes to is stored, unless the     *)
(* file is rotated away or one of the two loops has died.                   *)
EveryLineIsStored ==
  \A l \in Lines :
    l \in InFile(path) /\ EventOf[l] \in Events ~>
      \/ EventOf[l] \in Stored
      \/ l \notin InFile(path)
      \/ "dead" \in {reader.pc, loop.pc}
===============================================================================
