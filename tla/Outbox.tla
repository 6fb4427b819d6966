-------------------------------- MODULE Outbox --------------------------------
(***************************************************************************)
(* The durable outbox of a sensor, the loop that delivers it in batches,   *)
(* and the table of the backend that the batches end in.  The Falco        *)
(* adapter (FalcoTail) and the Docker collector (DockerCapture) each fill  *)
(* one; the two spool.py files are copies of one design.                   *)
(*                                                                         *)
(* An SQLite statement block (`with self._connect()`) is one step: it      *)
(* either commits (synchronous=FULL) or never happened.  An HTTP call is   *)
(* several: the client may give up on a call the backend still executes.   *)
(***************************************************************************)
EXTENDS Naturals, FiniteSets

CONSTANTS
  Events,      (* event_id values                                             *)
  MaxEvents,   (* spool_max_events                                            *)
  BatchSize,   (* delivery_batch_size                                         *)
  MaxFaults    (* bound: crashes, failed or lost calls, SQLite errors         *)

ASSUME OutboxAssumption ==
  IsFiniteSet(Events) /\ MaxEvents \in Nat /\ BatchSize \in Nat /\ MaxFaults \in Nat

VARIABLES
  rank,          (* [Events -> place of the row by enqueued_at; 0: no row]    *)
  waiting,       (* rows whose next_attempt_at is in the future               *)
  unfit,         (* rows whose payload the schema of the API refuses           *)
  loop,          (* the delivery loop: where it is and the batch in hand      *)
  orphans,       (* batches of calls nobody waits for but the backend may run *)
  rows,          (* event_ids of the backend's event table                    *)
  deleted,       (* history: event_ids that retention has deleted             *)
  faults         (* how many faults may still happen                          *)

outboxVars == <<rank, waiting, unfit, loop, orphans, rows, deleted, faults>>

Queued == {e \in Events : rank[e] > 0}

LoopState == [pc : {"fetch", "posted", "accepted", "refused", "dead"},
              batch : SUBSET Events]

AtFetch == [pc |-> "fetch", batch |-> {}]

OutboxTypeOK ==
  /\ rank \in [Events -> Nat]
  /\ waiting \in SUBSET Events
  /\ unfit \in SUBSET Events
  /\ loop \in LoopState
  /\ orphans \in SUBSET SUBSET Events
  /\ rows \in SUBSET Events
  /\ deleted \in SUBSET Events
  /\ faults \in 0..MaxFaults
  /\ Cardinality(Queued) <= MaxEvents   \* the spool stays within its limit
  /\ waiting \subseteq Queued

(* "old" are rows an earlier version has left in a form the API refuses.    *)
OutboxInit(old) ==
  /\ rank = [e \in Events |-> IF e \in old THEN 1 ELSE 0]
  /\ waiting = {}
  /\ unfit = old
  /\ loop = AtFetch
  /\ orphans = {}
  /\ rows = {}
  /\ deleted = {}
  /\ faults = MaxFaults

Fault == faults > 0 /\ faults' = faults - 1

-------------------------------------------------------------------------------
(* The spool. *)

Due == Queued \ waiting

Full == Cardinality(Queued) >= MaxEvents

(* The inserting case of enqueue: a new row is due at once.                 *)
Insert(e) ==
  /\ e \notin Queued
  /\ ~Full
  /\ rank' = [rank EXCEPT ![e] = Cardinality(Queued) + 1]
  /\ waiting' = waiting \ {e}

(* A row with this event_id is there: the event is a duplicate.             *)
Enqueue(e) ==
  \/ Insert(e)
  \/ e \in Queued /\ UNCHANGED <<rank, waiting>>

(* SpoolFullError: neither queued nor any room.                             *)
EnqueueFails(e) == e \notin Queued /\ Full

(* The oldest due rows, at most BatchSize of them.                          *)
NextBatches ==
  {S \in SUBSET Due :
     /\ Cardinality(S) <= BatchSize
     /\ Cardinality(S) < BatchSize => S = Due
     /\ \A e \in S, q \in Due \ S : rank[e] <= rank[q]}
(* acknowledge deletes the rows, mark_failed puts all of them off.           *)
Forget(S) ==
  /\ rank' = [e \in Events |-> IF e \in Queued \ S
                               THEN Cardinality({q \in Queued \ S : rank[q] <= rank[e]})
                               ELSE 0]
  /\ waiting' = waiting \ S

PutOff(S) == waiting' = waiting \union (S \cap Queued) /\ UNCHANGED rank

(* next_attempt_at of a row is reached.                                     *)
BackoffEnds(e) ==
  /\ e \in waiting
  /\ waiting' = waiting \ {e}
  /\ UNCHANGED <<rank, unfit, loop, orphans, rows, deleted, faults>>

-------------------------------------------------------------------------------
(* delivery_loop. *)

PostBatch ==
  /\ loop.pc = "fetch"
  /\ \E S \in NextBatches : S # {} /\ loop' = [pc |-> "posted", batch |-> S]
  /\ UNCHANGED <<rank, waiting, unfit, orphans, rows, deleted, faults>>

(* raise_for_status and `received` pass: the loop deletes the rows.         *)
Acknowledge ==
  /\ loop.pc = "accepted"
  /\ Forget(loop.batch)
  /\ loop' = AtFetch
  /\ UNCHANGED <<unfit, orphans, rows, deleted, faults>>

(* Mutant: rows of a failed batch are deleted.                              *)
DropFailed ==
  /\ loop.pc = "refused"
  /\ Forget(loop.batch)
  /\ loop' = AtFetch
  /\ UNCHANGED <<unfit, orphans, rows, deleted, faults>>

MarkFailed ==
  /\ loop.pc = "refused"
  /\ PutOff(loop.batch)
  /\ loop' = AtFetch
  /\ UNCHANGED <<unfit, orphans, rows, deleted, faults>>

(* sqlite3.Error is neither httpx.HTTPError nor ValueError: it ends the     *)
(* task.  Only a restart of the process starts another one.                 *)
LoopDies ==
  /\ Fault
  /\ loop.pc \in {"fetch", "accepted", "refused"}
  /\ loop' = [AtFetch EXCEPT !.pc = "dead"]
  /\ UNCHANGED <<rank, waiting, unfit, orphans, rows, deleted>>

-------------------------------------------------------------------------------
(* The backend.  A batch is one transaction: all of it is committed, with   *)
(* ON CONFLICT DO NOTHING, or none of it.                                   *)

IngestBatch(S) == rows' = rows \union S

Answer ==
  /\ loop.pc = "posted"
  /\ loop.batch \cap unfit = {}
  /\ IngestBatch(loop.batch)
  /\ loop' = [loop EXCEPT !.pc = "accepted"]
  /\ UNCHANGED <<rank, waiting, unfit, orphans, deleted, faults>>

(* 422: one unfit row and the whole batch is refused.                       *)
RefuseUnfit ==
  /\ loop.pc = "posted"
  /\ loop.batch \cap unfit # {}
  /\ loop' = [loop EXCEPT !.pc = "refused"]
  /\ UNCHANGED <<rank, waiting, unfit, orphans, rows, deleted, faults>>

(* 503 after the rollback, or the call never reaches the backend.           *)
Refuse ==
  /\ loop.pc = "posted"
  /\ Fault
  /\ loop' = [loop EXCEPT !.pc = "refused"]
  /\ UNCHANGED <<rank, waiting, unfit, orphans, rows, deleted>>

(* The client's timeout; the backend may run the call at any later time.    *)
TimeOut ==
  /\ loop.pc = "posted"
  /\ Fault
  /\ loop' = [loop EXCEPT !.pc = "refused"]
  /\ orphans' = orphans \union {loop.batch}
  /\ UNCHANGED <<rank, waiting, unfit, rows, deleted>>

AnswerNobody ==
  /\ \E S \in orphans :
       /\ IF S \cap unfit = {} THEN IngestBatch(S) ELSE UNCHANGED rows
       /\ orphans' = orphans \ {S}
  /\ UNCHANGED <<rank, waiting, unfit, loop, deleted, faults>>

(* apply_retention deletes stored rows, never anything else.                *)
Retain ==
  /\ \E S \in SUBSET rows :
       S # {} /\ rows' = rows \ S /\ deleted' = deleted \union S
  /\ UNCHANGED <<rank, waiting, unfit, loop, orphans, faults>>

(* The process of the sensor dies or is restarted: a call it waits for goes *)
(* on at the backend, the spool stays.                                      *)
LoopRestarts ==
  /\ loop' = AtFetch
  /\ orphans' = IF loop.pc = "posted" THEN orphans \union {loop.batch} ELSE orphans

DeliveryStep == PostBatch \/ Acknowledge \/ MarkFailed \/ Answer \/ RefuseUnfit

OutboxNext ==
  \/ DeliveryStep \/ LoopDies \/ Refuse \/ TimeOut \/ AnswerNobody
  \/ \E e \in Events : BackoffEnds(e)

-------------------------------------------------------------------------------
(* Stored now or once: retention deletes what was stored.                   *)
Stored == rows \union deleted

(* What is captured and not stored yet.                                     *)
Owed == Queued \ Stored

Delivery == INSTANCE EventDelivery WITH owed <- Owed, stored <- Stored
===============================================================================
