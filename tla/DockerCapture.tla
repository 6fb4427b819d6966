---------------------------- MODULE DockerCapture ----------------------------
(***************************************************************************)
(* The Docker collector: DockerEventSource reads the event stream of the   *)
(* Docker daemon in windows, puts the events into the outbox and keeps in  *)
(* the spool the time up to which it has read.  The daemon is external; it *)
(* is taken to remember its events and to end a bounded stream only when   *)
(* the bound is reached.                                                   *)
(*                                                                         *)
(* Times count seconds.  The daemon stamps an event when it happens and    *)
(* publishes it up to Lag seconds later.                                   *)
(***************************************************************************)
EXTENDS Outbox, Sequences

CONSTANTS
  Old,       (* events an earlier version left queued with a raw action       *)
  Overlap,   (* docker_event_overlap_seconds                                  *)
  Window,    (* docker_event_window_seconds                                   *)
  Lag,       (* between the stamp of an event and its publication             *)
  MaxTime    (* bound of the clock                                            *)

ASSUME CaptureAssumption ==
  /\ Old \subseteq Events /\ Cardinality(Old) <= MaxEvents
  /\ Overlap \in Nat /\ Window \in Nat \ {0} /\ Lag \in 0..Overlap /\ MaxTime \in Nat \ {0}

NoCursor == MaxTime + Window + 1

VARIABLES
  clock,    (* seconds                                                        *)
  log,      (* what the daemon has published, in order                        *)
  stamp,    (* [Events -> time of the event, 0 before it is published]        *)
  docker_cursor,  (* last_event_time_nano, in seconds, or NoCursor            *)
  begun,    (* history: `since` of the window that set the first cursor, or   *)
            (* of the last one before there is any; or NoCursor               *)
  source    (* the thread                                                     *)

daemonVars  == <<clock, log, stamp>>
captureVars == <<docker_cursor, begun, source>>
dockerVars  == <<outboxVars, daemonVars, captureVars>>

(* "at" is the position in the log, "backlog" how long it was when the      *)
(* stream was opened, "since" and "until" are the window.                   *)
SourceState ==
  [pc : {"down", "connect", "window", "stream", "mark", "complete", "dead"},
   at : 0..Cardinality(Events), backlog : 0..Cardinality(Events),
   since : 0..(MaxTime + Window), until : 0..(MaxTime + Window)]

At(pc) == [pc |-> pc, at |-> 0, backlog |-> 0, since |-> 0, until |-> 0]

CaptureTypeOK ==
  /\ OutboxTypeOK
  /\ clock \in 1..MaxTime
  /\ log \in Seq(Events)
  /\ stamp \in [Events -> 0..MaxTime]
  /\ docker_cursor \in 0..NoCursor
  /\ begun \in 0..NoCursor
  /\ source \in SourceState

CaptureInit ==
  /\ OutboxInit(Old)
  /\ clock = 1
  /\ log = <<>>
  /\ stamp = [e \in Events |-> 0]
  /\ docker_cursor = NoCursor
  /\ begun = NoCursor
  /\ source = At("down")

-------------------------------------------------------------------------------
(* The Docker daemon, external. *)

Tick == clock < MaxTime /\ clock' = clock + 1 /\ UNCHANGED <<outboxVars, log, stamp, captureVars>>

Publish(e) ==
  /\ stamp[e] = 0 /\ e \notin Old
  /\ \E t \in 1..clock : t + Lag >= clock /\ stamp' = [stamp EXCEPT ![e] = t]
  /\ log' = Append(log, e)
  /\ UNCHANGED <<outboxVars, clock, captureVars>>

(* The stream has reached `until`: all it has not sent was published later. *)
StreamIsOver ==
  /\ clock >= source.until
  /\ \A k \in (source.at + 1)..Len(log) : stamp[log[k]] + Lag >= source.until

-------------------------------------------------------------------------------
(* The source. *)

Monus(a, b) == IF a > b THEN a - b ELSE 0

(* Mutant: the window begins where the cursor is.                           *)
SinceCursor == IF docker_cursor = NoCursor THEN Monus(clock, Overlap) ELSE docker_cursor

(* _since_seconds                                                           *)
Since == IF docker_cursor = NoCursor THEN Monus(clock, Overlap) ELSE Monus(docker_cursor, Overlap)

(* Mutant: rows an earlier version left are not looked at.                  *)
KeepLegacyActions == UNCHANGED unfit

(* _repair_legacy_actions: when the process starts, before either loop.     *)
RepairLegacyActions == unfit' = {}

(* _connect and the warming of the container cache.                         *)
Connect ==
  /\ source.pc = "connect"
  /\ source' = At("window")
  /\ UNCHANGED <<outboxVars, daemonVars, docker_cursor, begun>>

OpenWindow ==
  /\ source.pc = "window"
  /\ source' = [pc |-> "stream", at |-> 0, backlog |-> Len(log),
                since |-> Since, until |-> clock + Window]
  /\ begun' = IF docker_cursor = NoCursor THEN Since ELSE begun
  /\ UNCHANGED <<outboxVars, daemonVars, docker_cursor>>

Streaming == source.pc = "stream" /\ source.at < Len(log)
NextEvent == log[source.at + 1]

(* The daemon leaves out what happened before `since`.                      *)
BeforeSince == source.at < source.backlog /\ stamp[NextEvent] < source.since

SkipOlder ==
  /\ Streaming
  /\ BeforeSince
  /\ source' = [source EXCEPT !.at = @ + 1]
  /\ UNCHANGED <<outboxVars, daemonVars, docker_cursor, begun>>

CaptureEvent ==
  /\ Streaming
  /\ ~BeforeSince
  /\ Enqueue(NextEvent)
  /\ source' = [source EXCEPT !.pc = "mark", !.at = @ + 1]
  /\ UNCHANGED <<unfit, loop, orphans, rows, deleted, faults, daemonVars, docker_cursor, begun>>

(* SpoolFullError: the window ends incomplete, the cursor stays.            *)
CaptureIntoFullSpool ==
  /\ Streaming
  /\ ~BeforeSince
  /\ EnqueueFails(NextEvent)
  /\ source' = At("window")
  /\ UNCHANGED <<outboxVars, daemonVars, docker_cursor, begun>>

(* update_cursor never moves the cursor back.                               *)
UpdateCursor(t) ==
  docker_cursor' = IF docker_cursor = NoCursor \/ t > docker_cursor THEN t ELSE docker_cursor

MarkEvent ==
  /\ source.pc = "mark"
  /\ UpdateCursor(stamp[log[source.at]])
  /\ source' = [source EXCEPT !.pc = "stream"]
  /\ UNCHANGED <<outboxVars, daemonVars, begun>>

(* The bounded stream ends: the window is complete up to `until`.           *)
CompleteWindow ==
  /\ source.pc = "stream"
  /\ StreamIsOver
  /\ UpdateCursor(source.until)
  /\ source' = At("window")
  /\ UNCHANGED <<outboxVars, daemonVars, begun>>

(* DockerException, OSError or ValueError: connect again.                   *)
LoseConnection ==
  /\ Fault
  /\ source.pc \in {"window", "stream"}
  /\ source' = At("connect")
  /\ UNCHANGED <<rank, waiting, unfit, loop, orphans, rows, deleted,
                 daemonVars, docker_cursor, begun>>

(* Any other exception, a sqlite3.Error for one, ends the thread.           *)
SourceDies ==
  /\ Fault
  /\ source.pc \in {"stream", "mark"}
  /\ source' = At("dead")
  /\ UNCHANGED <<rank, waiting, unfit, loop, orphans, rows, deleted,
                 daemonVars, docker_cursor, begun>>

Started ==
  /\ RepairLegacyActions
  /\ LoopRestarts
  /\ source' = At("connect")
  /\ UNCHANGED <<rank, waiting, rows, deleted, daemonVars, docker_cursor, begun>>

Start          == source.pc = "down" /\ Started /\ UNCHANGED faults
CaptureRestart == source.pc # "down" /\ Fault /\ Started

SourceStep ==
  \/ Start \/ Connect \/ OpenWindow \/ SkipOlder \/ CaptureEvent
  \/ CaptureIntoFullSpool \/ MarkEvent \/ CompleteWindow

Deliver == source.pc # "down" /\ OutboxNext /\ UNCHANGED <<daemonVars, captureVars>>

CaptureNext ==
  \/ Tick \/ \E e \in Events : Publish(e)
  \/ SourceStep \/ LoseConnection \/ SourceDies \/ CaptureRestart
  \/ Deliver

(* The two loops go on and back-off times pass.                             *)
CaptureFairness ==
  /\ WF_dockerVars(SourceStep)
  /\ WF_dockerVars(source.pc # "down" /\ DeliveryStep /\ UNCHANGED <<daemonVars, captureVars>>)
  /\ \A e \in Events :
       WF_dockerVars(source.pc # "down" /\ BackoffEnds(e) /\ UNCHANGED <<daemonVars, captureVars>>)

CaptureSpec == CaptureInit /\ [][CaptureNext]_dockerVars
FairCaptureSpec == CaptureSpec /\ CaptureFairness

-------------------------------------------------------------------------------
(* Safety. *)

Published == {log[k] : k \in 1..Len(log)}
Captured  == Queued \union Stored

(* A window opened now asks for everything that is not captured yet: what   *)
(* happened before its `since` is in the outbox or stored, though the       *)
(* daemon publishes late, windows end, connections break and the collector  *)
(* is restarted between the outbox and the cursor.  Events from before the  *)
(* window that sets the first cursor are not owed.  (docker_source.py,      *)
(* _since_seconds, _run.)                                                   *)
NothingMissed ==
  docker_cursor # NoCursor =>
    \A e \in Published :
      begun <= stamp[e] /\ stamp[e] < Since => e \in Captured

(* Every step of the collector, the backend and the daemon is one of        *)
(* EventDelivery, which begins with what an earlier version left in the     *)
(* spool: what is captured is owed until the backend has committed it, and  *)
(* is stored once, however calls, loops and processes fail.  (spool.py,     *)
(* main.py, delivery_loop.)                                                 *)
DeliveryFromOld == Owed = Old /\ Stored = {} /\ [][Delivery!Next]_<<Owed, Stored>>

(* Liveness: every event since the first window, and what an earlier        *)
(* version left in the spool, is stored, unless one of the two loops has    *)
(* died.                                                                    *)
EveryEventIsStored ==
  \A e \in Events :
    (e \in Published /\ begun <= stamp[e]) \/ e \in Queued
    ~> e \in Stored \/ stamp[e] < begun \/ "dead" \in {source.pc, loop.pc}
===============================================================================
