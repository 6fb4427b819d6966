------------------------------ MODULE Heartbeats ------------------------------
(****************************************************************************)
(* The heartbeat of a service (collector, telemetry adapter, scanner or     *)
(* responder: their heartbeat_loop and readiness are alike) and the row the *)
(* backend keeps of it. A call the service gave up on may still be under    *)
(* way in the backend. Rows do not depend on each other, so one service is  *)
(* enough.                                                                  *)
(****************************************************************************)
EXTENDS Integers, FiniteSets

CONSTANTS
  CallTimeout,  \* the client's timeout
  FreshFor,     \* three heartbeat intervals
  MaxClock,     \* bound on time
  MaxSkew,      \* how far the service's clock runs ahead of the backend's
  MaxLate,      \* bound on the calls given up that the backend still handles
  BeatFaults,   \* bound on lost calls, failed calls and crashes
  NoTime, NoRow

ASSUME HeartbeatsAssumption ==
  /\ {CallTimeout, FreshFor, MaxClock, MaxSkew, MaxLate, BeatFaults} \subseteq Nat
  /\ NoTime \notin Int

VARIABLES
  now,
  beat,       \* the service and its heartbeat loop
  posts,      \* the heartbeats the backend has received and not dropped
  row,        \* ServiceHeartbeat
  committed,  \* when the backend last committed a heartbeat
  lost        \* faults so far

beatVars == <<now, beat, posts, row, committed, lost>>

Times == 0..MaxClock
Statuses == {"healthy", "degraded"}
Row == [status : Statuses, first_seen_at : Times, last_seen_at : Times]
ASSUME NoRowAssumption == NoRow \notin Row

Post == [status : Statuses, observed : 0..MaxClock + MaxSkew, sent : Times,
         step : {"sent", "read", "done", "failed"}, loaded : Row \union {NoRow}, awaited : BOOLEAN]
Service == [step : {"sleep", "count", "post"}, healthy : BOOLEAN, snapshot : BOOLEAN,
            success : Times \union {NoTime}]

Started(healthy) ==
  [step |-> "sleep", healthy |-> healthy, snapshot |-> FALSE, success |-> NoTime]

HeartbeatsInit ==
  /\ now = 0 /\ beat = Started(FALSE)
  /\ posts = {} /\ row = NoRow
  /\ committed = NoTime /\ lost = 0

Awaited == {p \in posts : p.awaited}

Tick ==
  /\ now < MaxClock /\ now' = now + 1
  /\ \A p \in Awaited : now < p.sent + CallTimeout
  /\ UNCHANGED <<beat, posts, row, committed, lost>>

HealthChanges ==
  /\ beat' = [beat EXCEPT !.healthy = ~@]
  /\ UNCHANGED <<now, posts, row, committed, lost>>

(* The state is read before the loop counts the spool in a thread.          *)
TakeSnapshot ==
  /\ beat.step = "sleep"
  /\ beat' = [beat EXCEPT !.step = "count", !.snapshot = beat.healthy]
  /\ UNCHANGED <<now, posts, row, committed, lost>>

StatusOf(healthy) == IF healthy THEN "healthy" ELSE "degraded"

PostHeartbeat ==
  /\ beat.step = "count"
  /\ beat' = [beat EXCEPT !.step = "post"]
  /\ \E observed \in now..now + MaxSkew :
       posts' = posts \union {[status |-> StatusOf(beat.snapshot), observed |-> observed,
                               sent |-> now, step |-> "sent", loaded |-> NoRow, awaited |-> TRUE]}
  /\ UNCHANGED <<now, row, committed, lost>>

Becomes(p, q) == posts' = (posts \ {p}) \union {q}
(* What the backend has finished is kept only while somebody waits for it.  *)
Finishes(p, step) == posts' = (posts \ {p}) \union {[q EXCEPT !.step = step] : q \in {p} \cap Awaited}

LoadRow(p) ==
  /\ p.step = "sent"
  /\ Becomes(p, [p EXCEPT !.step = "read", !.loaded = row])
  /\ UNCHANGED <<now, beat, row, committed, lost>>

Earlier(a, b) == IF a =< b THEN a ELSE b
Later(a, b) == IF a =< b THEN b ELSE a

SeenAt(p) == Earlier(p.observed, now)

LastSeen(p) == Later(p.loaded.last_seen_at, SeenAt(p))

InsertRow(p) ==
  /\ p.step = "read" /\ p.loaded = NoRow /\ row = NoRow
  /\ row' = [status |-> p.status, first_seen_at |-> SeenAt(p), last_seen_at |-> SeenAt(p)]
  /\ Finishes(p, "done") /\ committed' = now
  /\ UNCHANGED <<now, beat, lost>>

(* Somebody inserted the row meanwhile: the unique constraint refuses.      *)
InsertConflicts(p) ==
  /\ p.step = "read" /\ p.loaded = NoRow /\ row # NoRow
  /\ Finishes(p, "failed")
  /\ UNCHANGED <<now, beat, row, committed, lost>>

(* Only the columns that differ from what was loaded are written.           *)
UpdateRow(p) ==
  /\ p.step = "read" /\ p.loaded # NoRow
  /\ row' = [row EXCEPT
               !.status = IF p.status = p.loaded.status THEN @ ELSE p.status,
               !.last_seen_at = IF LastSeen(p) = p.loaded.last_seen_at THEN @ ELSE LastSeen(p)]
  /\ Finishes(p, "done") /\ committed' = now
  /\ UNCHANGED <<now, beat, lost>>

ReceiveAnswer(p) ==
  /\ p.awaited /\ p.step \in {"done", "failed"}
  /\ posts' = posts \ {p}
  /\ beat' = [beat EXCEPT !.step = "sleep", !.success = IF p.step = "done" THEN now ELSE @]
  /\ UNCHANGED <<now, row, committed, lost>>

(* What becomes of a call nobody waits for: lost, or handled late.          *)
GivenUp(p) ==
  \/ posts' = posts \ {p}
  \/ /\ p.step \in {"sent", "read"} /\ Cardinality(posts \ Awaited) < MaxLate
     /\ Becomes(p, [p EXCEPT !.awaited = FALSE])

CallFails(p) ==
  /\ p.awaited /\ lost < BeatFaults
  /\ beat' = [beat EXCEPT !.step = "sleep"]
  /\ GivenUp(p)
  /\ lost' = lost + 1
  /\ UNCHANGED <<now, row, committed>>

Crash ==
  /\ lost < BeatFaults
  /\ beat' = Started(FALSE)
  /\ IF Awaited = {} THEN UNCHANGED posts ELSE \E p \in Awaited : GivenUp(p)
  /\ lost' = lost + 1
  /\ UNCHANGED <<now, row, committed>>

HandlerStep(p) == LoadRow(p) \/ InsertRow(p) \/ InsertConflicts(p) \/ UpdateRow(p)

LoopStep == TakeSnapshot \/ PostHeartbeat \/ \E p \in posts : ReceiveAnswer(p)

HeartbeatsNext ==
  \/ Tick \/ HealthChanges \/ Crash
  \/ TakeSnapshot \/ PostHeartbeat
  \/ \E p \in posts : HandlerStep(p) \/ ReceiveAnswer(p) \/ CallFails(p)

HeartbeatsSpec == HeartbeatsInit /\ [][HeartbeatsNext]_beatVars

(* Mutant: one heartbeat is enough for ever.                                *)
HeartbeatOnce == beat.success # NoTime

HeartbeatIsFresh == beat.success # NoTime /\ now - beat.success =< FreshFor
Ready == beat.healthy /\ HeartbeatIsFresh

-------------------------------------------------------------------------------
HeartbeatsTypeOK ==
  /\ now \in Times /\ beat \in Service
  /\ posts \subseteq Post /\ row \in Row \union {NoRow}
  /\ committed \in Times \union {NoTime} /\ lost \in 0..BeatFaults

(* Late and concurrent heartbeats, and a service clock that runs ahead,     *)
(* leave a row that was seen first before last, and not in the future.      *)
SeenIsOrdered ==
  row # NoRow => row.first_seen_at =< row.last_seen_at /\ row.last_seen_at =< now

(* A service that says it is ready has a row, and the backend committed a   *)
(* heartbeat of it within three intervals and the time a call may take.     *)
ReadyIsKnown ==
  Ready => row # NoRow /\ committed # NoTime /\ now =< committed + FreshFor + CallTimeout

===============================================================================
