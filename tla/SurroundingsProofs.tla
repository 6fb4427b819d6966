--------------------------- MODULE SurroundingsProofs ---------------------------
(***************************************************************************)
(* Proofs about the parts around the core, for every value of their        *)
(* constants: heartbeats, the console's tokens and polling, the alert      *)
(* script, the auditor, image reports and the dead letters.                *)
(***************************************************************************)
EXTENDS Poller, Credentials, Heartbeats, IncidentAlerts, AiAudit, ImageReport, DeadLetters,
        FiniteSetTheorems, WellFoundedInduction, TLAPS

-------------------------------------------------------------------------------
(* Heartbeats: calls somebody waits for are recent, and what a handler has  *)
(* loaded is still the row it will write.                                   *)

(* The row a handler has loaded is the row, in its first_seen_at.           *)
LoadedIsOrdered(p) ==
  p.loaded # NoRow =>
    /\ row # NoRow /\ p.loaded.first_seen_at = row.first_seen_at
    /\ p.loaded.first_seen_at =< p.loaded.last_seen_at /\ p.loaded.last_seen_at =< now

(* A call somebody waits for is no older than its timeout; once done, its   *)
(* commit came after its start.                                             *)
AwaitedIsRecent(p) ==
  p.awaited =>
    /\ p.sent =< now /\ now =< p.sent + CallTimeout
    /\ p.step = "done" => row # NoRow /\ committed # NoTime /\ p.sent =< committed

(* Nothing was committed in the future, and the last success the service    *)
(* knows of was committed a call's time before it at most.                  *)
SuccessIsCommitted ==
  /\ committed # NoTime => committed =< now
  /\ beat.success # NoTime =>
       row # NoRow /\ committed # NoTime /\ beat.success =< committed + CallTimeout

HeartbeatsInv ==
  /\ HeartbeatsTypeOK
  /\ SeenIsOrdered
  /\ \A p \in posts : LoadedIsOrdered(p) /\ AwaitedIsRecent(p)
  /\ SuccessIsCommitted

LEMMA HeartbeatConstants ==
  /\ CallTimeout \in Nat /\ FreshFor \in Nat /\ MaxClock \in Nat /\ MaxSkew \in Nat
  /\ BeatFaults \in Nat
  /\ NoTime \notin Times /\ NoRow \notin Row
BY HeartbeatsAssumption, NoRowAssumption DEF HeartbeatsAssumption, NoRowAssumption, Times

LEMMA HeartbeatsInitially == HeartbeatsInit => HeartbeatsInv
BY HeartbeatConstants DEF HeartbeatsInit, HeartbeatsInv, HeartbeatsTypeOK, SeenIsOrdered,
   SuccessIsCommitted,
   Started, Service, Times

(* Time goes on only as far as the timeouts of the awaited calls.           *)
LEMMA TickStep ==
  ASSUME HeartbeatsInv, Tick
  PROVE  HeartbeatsInv'
<1>1. now' = now + 1 /\ now \in Times /\ now' \in Times
  BY HeartbeatConstants DEF HeartbeatsInv, HeartbeatsTypeOK, Tick, Times
<1>2. UNCHANGED <<beat, posts, row, committed, lost>>
  BY DEF Tick
<1>3. HeartbeatsTypeOK' /\ SuccessIsCommitted'
  BY <1>1, <1>2, HeartbeatConstants DEF HeartbeatsInv, HeartbeatsTypeOK, SuccessIsCommitted, Times
<1>4. SeenIsOrdered'
  BY <1>1, <1>2, HeartbeatConstants DEF HeartbeatsInv, HeartbeatsTypeOK, SeenIsOrdered, Row, Times
<1>5. ASSUME NEW p \in posts PROVE LoadedIsOrdered(p)' /\ AwaitedIsRecent(p)'
  <2>1. p \in Post /\ LoadedIsOrdered(p) /\ AwaitedIsRecent(p)
    BY DEF HeartbeatsInv, HeartbeatsTypeOK
  <2>2. LoadedIsOrdered(p)'
    BY <1>1, <1>2, <2>1 DEF LoadedIsOrdered, Post, Row, Times
  <2>3. p.awaited => now < p.sent + CallTimeout
    BY DEF Tick, Awaited
  <2>4. AwaitedIsRecent(p)'
    BY <1>1, <1>2, <2>1, <2>3, HeartbeatConstants DEF AwaitedIsRecent, Post, Times
  <2>5. QED
    BY <2>2, <2>4
<1>6. QED
  BY <1>2, <1>3, <1>4, <1>5 DEF HeartbeatsInv

LEMMA HealthStep ==
  ASSUME HeartbeatsInv, HealthChanges \/ TakeSnapshot
  PROVE  HeartbeatsInv'
<1>1. UNCHANGED <<now, posts, row, committed, lost>>
  BY DEF HealthChanges, TakeSnapshot
<1>2. beat' \in Service /\ beat'.success = beat.success
  BY DEF HeartbeatsInv, HeartbeatsTypeOK, HealthChanges, TakeSnapshot, Service
<1>3. QED
  BY <1>1, <1>2 DEF HeartbeatsInv, HeartbeatsTypeOK, SeenIsOrdered, SuccessIsCommitted,
     LoadedIsOrdered, AwaitedIsRecent

LEMMA PostStep ==
  ASSUME HeartbeatsInv, PostHeartbeat
  PROVE  HeartbeatsInv'
<1>1. UNCHANGED <<now, row, committed, lost>> /\ beat' \in Service /\ beat'.success = beat.success
  BY DEF HeartbeatsInv, HeartbeatsTypeOK, PostHeartbeat, Service
<1>2. PICK observed \in now..now + MaxSkew :
        posts' = posts \union {[status |-> StatusOf(beat.snapshot), observed |-> observed,
                                sent |-> now, step |-> "sent", loaded |-> NoRow,
                                awaited |-> TRUE]}
  BY DEF PostHeartbeat
<1>3. now \in Times /\ observed \in 0..MaxClock + MaxSkew
  BY HeartbeatConstants DEF HeartbeatsInv, HeartbeatsTypeOK, Times
<1>4. PICK new \in Post : /\ posts' = posts \union {new} /\ new.loaded = NoRow
                          /\ new.sent = now /\ new.step = "sent"
  <2> DEFINE fresh == [status |-> StatusOf(beat.snapshot), observed |-> observed,
                       sent |-> now, step |-> "sent", loaded |-> NoRow, awaited |-> TRUE]
  <2>1. fresh \in Post
    BY <1>3 DEF Post, StatusOf, Statuses
  <2>2. fresh.loaded = NoRow /\ fresh.sent = now /\ fresh.step = "sent"
    OBVIOUS
  <2>3. posts' = posts \union {fresh}
    BY <1>2
  <2>4. QED
    BY <2>1, <2>2, <2>3
<1>5. LoadedIsOrdered(new)' /\ AwaitedIsRecent(new)'
  BY <1>1, <1>3, <1>4, HeartbeatConstants DEF LoadedIsOrdered, AwaitedIsRecent, Times
<1>6. \A p \in posts : LoadedIsOrdered(p)' /\ AwaitedIsRecent(p)'
  BY <1>1 DEF HeartbeatsInv, LoadedIsOrdered, AwaitedIsRecent
<1>7. \A p \in posts' : LoadedIsOrdered(p)' /\ AwaitedIsRecent(p)'
  BY <1>4, <1>5, <1>6
<1>8. QED
  BY <1>1, <1>4, <1>7 DEF HeartbeatsInv, HeartbeatsTypeOK, SeenIsOrdered, SuccessIsCommitted

(* Its steps finish a call or leave it to nobody; neither breaks what is    *)
(* known of the others.                                                     *)
LEMMA LoadStep ==
  ASSUME HeartbeatsInv, NEW p \in posts, LoadRow(p)
  PROVE  HeartbeatsInv'
<1> DEFINE new == [p EXCEPT !.step = "read", !.loaded = row]
<1>1. UNCHANGED <<now, beat, row, committed, lost>> /\ posts' = (posts \ {p}) \union {new}
  BY DEF LoadRow, Becomes
<1>2. p \in Post /\ row \in Row \union {NoRow} /\ now \in Times
  BY DEF HeartbeatsInv, HeartbeatsTypeOK
<1>3. new \in Post
  BY <1>2 DEF Post
<1>4. LoadedIsOrdered(new)'
  BY <1>1, <1>2 DEF HeartbeatsInv, SeenIsOrdered, LoadedIsOrdered, Post
<1>5. AwaitedIsRecent(new)'
  BY <1>1, <1>2 DEF HeartbeatsInv, AwaitedIsRecent, Post
<1>6. \A q \in posts' : LoadedIsOrdered(q)' /\ AwaitedIsRecent(q)'
  BY <1>1, <1>4, <1>5 DEF HeartbeatsInv, LoadedIsOrdered, AwaitedIsRecent
<1>7. QED
  BY <1>1, <1>3, <1>6 DEF HeartbeatsInv, HeartbeatsTypeOK, SeenIsOrdered, SuccessIsCommitted

(* The earlier of two times is a time, and not in the future.               *)
LEMMA SeenTypes ==
  ASSUME HeartbeatsInv, NEW p \in posts
  PROVE  SeenAt(p) \in Times /\ SeenAt(p) =< now /\ now \in Times
BY HeartbeatConstants DEF HeartbeatsInv, HeartbeatsTypeOK, SeenAt, Earlier, Post, Times

(* After a commit: the row is there, was seen first before last, and every  *)
(* other handler has still loaded its first_seen_at.                        *)
LEMMA CommitStep ==
  ASSUME HeartbeatsInv, NEW p \in posts, p.step = "read",
         row' \in Row,
         row'.first_seen_at =< row'.last_seen_at, row'.last_seen_at =< now,
         row # NoRow => row'.first_seen_at = row.first_seen_at,
         Finishes(p, "done"), committed' = now, UNCHANGED <<now, beat, lost>>
  PROVE  HeartbeatsInv'
<1> DEFINE done == [p EXCEPT !.step = "done"]
<1>1. \A q \in posts' : q \in posts \/ (p \in Awaited /\ q = done)
  BY DEF Finishes
<1>2. now \in Times /\ p \in Post /\ row' # NoRow /\ now # NoTime
  BY HeartbeatConstants DEF HeartbeatsInv, HeartbeatsTypeOK
<1>3. ASSUME NEW q \in posts PROVE LoadedIsOrdered(q)' /\ AwaitedIsRecent(q)'
  <2>1. q \in Post /\ LoadedIsOrdered(q) /\ AwaitedIsRecent(q)
    BY DEF HeartbeatsInv, HeartbeatsTypeOK
  <2>2. QED
    BY <1>2, <2>1 DEF LoadedIsOrdered, AwaitedIsRecent
<1>4. ASSUME p \in Awaited
      PROVE  done \in Post /\ LoadedIsOrdered(done)' /\ AwaitedIsRecent(done)'
  <2>1. /\ done \in Post /\ done.loaded = p.loaded /\ done.awaited = p.awaited
        /\ done.sent = p.sent /\ p.awaited
    BY <1>2, <1>4 DEF Post, Awaited
  <2>2. LoadedIsOrdered(done)'
    BY <1>3, <2>1 DEF LoadedIsOrdered
  <2>3. AwaitedIsRecent(done)'
    BY <1>2, <2>1 DEF HeartbeatsInv, AwaitedIsRecent
  <2>4. QED
    BY <2>1, <2>2, <2>3
<1>5. \A q \in posts' : q \in Post /\ LoadedIsOrdered(q)' /\ AwaitedIsRecent(q)'
  <2> SUFFICES ASSUME NEW q \in posts'
               PROVE  q \in Post /\ LoadedIsOrdered(q)' /\ AwaitedIsRecent(q)'
    OBVIOUS
  <2>1. CASE q \in posts
    BY <1>3, <2>1 DEF HeartbeatsInv, HeartbeatsTypeOK
  <2>2. CASE p \in Awaited /\ q = done
    BY <1>4, <2>2
  <2>3. QED
    BY <1>1, <2>1, <2>2
<1>6. SuccessIsCommitted'
  BY <1>2, HeartbeatConstants DEF HeartbeatsInv, HeartbeatsTypeOK, SuccessIsCommitted, Service,
     Times
<1>7. HeartbeatsTypeOK'
  BY <1>2, <1>5 DEF HeartbeatsInv, HeartbeatsTypeOK
<1>8. QED
  BY <1>5, <1>6, <1>7 DEF HeartbeatsInv, SeenIsOrdered

LEMMA InsertStep ==
  ASSUME HeartbeatsInv, NEW p \in posts, InsertRow(p)
  PROVE  HeartbeatsInv'
<1>1. row' \in Row /\ row'.first_seen_at = SeenAt(p) /\ row'.last_seen_at = SeenAt(p)
  BY SeenTypes DEF InsertRow, HeartbeatsInv, HeartbeatsTypeOK, Post, Row
<1>2. row'.first_seen_at =< row'.last_seen_at
  BY <1>1, SeenTypes DEF Times
<1>3. QED
  BY <1>1, <1>2, SeenTypes, CommitStep DEF InsertRow

LEMMA UpdateStep ==
  ASSUME HeartbeatsInv, NEW p \in posts, UpdateRow(p)
  PROVE  HeartbeatsInv'
<1>1. p \in Post /\ p.loaded \in Row /\ row \in Row /\ LoadedIsOrdered(p)
  BY DEF UpdateRow, HeartbeatsInv, HeartbeatsTypeOK, LoadedIsOrdered, Post
<1>2. LastSeen(p) \in Times /\ LastSeen(p) =< now /\ p.loaded.last_seen_at =< LastSeen(p)
  BY <1>1, SeenTypes DEF LastSeen, Later, LoadedIsOrdered, UpdateRow, Row, Times
<1>3. /\ row' \in Row /\ row'.first_seen_at = row.first_seen_at
      /\ row'.last_seen_at \in {row.last_seen_at, LastSeen(p)}
  BY <1>1, <1>2 DEF UpdateRow, Row, Post
<1>4. row'.first_seen_at =< row'.last_seen_at /\ row'.last_seen_at =< now
  BY <1>1, <1>2, <1>3, SeenTypes, HeartbeatConstants
     DEF HeartbeatsInv, SeenIsOrdered, LoadedIsOrdered, UpdateRow, Row, Times
<1>5. QED
  BY <1>3, <1>4, CommitStep DEF UpdateRow

LEMMA ConflictStep ==
  ASSUME HeartbeatsInv, NEW p \in posts, InsertConflicts(p)
  PROVE  HeartbeatsInv'
<1> DEFINE new == [p EXCEPT !.step = "failed"]
<1>1. UNCHANGED <<now, beat, row, committed, lost>>
  BY DEF InsertConflicts
<1>2. \A q \in posts' : q \in posts \/ q = new
  BY DEF InsertConflicts, Finishes, Awaited
<1>3. p \in Post
  BY DEF HeartbeatsInv, HeartbeatsTypeOK
<1>4. /\ new \in Post /\ new.loaded = p.loaded /\ new.awaited = p.awaited /\ new.sent = p.sent
      /\ new.step # "done"
  BY <1>3 DEF Post
<1>5. \A q \in posts' : q \in Post /\ LoadedIsOrdered(q)' /\ AwaitedIsRecent(q)'
  BY <1>1, <1>2, <1>4 DEF HeartbeatsInv, HeartbeatsTypeOK, LoadedIsOrdered, AwaitedIsRecent
<1>6. QED
  BY <1>1, <1>5 DEF HeartbeatsInv, HeartbeatsTypeOK, SeenIsOrdered, SuccessIsCommitted

LEMMA AnswerStep ==
  ASSUME HeartbeatsInv, NEW p \in posts, ReceiveAnswer(p)
  PROVE  HeartbeatsInv'
<1>1. UNCHANGED <<now, row, committed, lost>> /\ posts' \subseteq posts
  BY DEF ReceiveAnswer
<1>2. now \in Times /\ p \in Post /\ AwaitedIsRecent(p) /\ p.awaited
  BY DEF HeartbeatsInv, HeartbeatsTypeOK, ReceiveAnswer
<1>3. beat' \in Service
  BY <1>2 DEF HeartbeatsInv, HeartbeatsTypeOK, ReceiveAnswer, Service
<1>4. SuccessIsCommitted'
  <2>1. CASE p.step = "done"
    <3>1. beat'.success = now /\ committed # NoTime /\ row # NoRow
      BY <1>2, <2>1 DEF AwaitedIsRecent, ReceiveAnswer, HeartbeatsInv, HeartbeatsTypeOK, Service
    <3>2. now =< committed + CallTimeout
      BY <1>2, <2>1, <3>1, HeartbeatConstants
         DEF AwaitedIsRecent, HeartbeatsInv, HeartbeatsTypeOK, Post, Times
    <3>3. QED
      BY <1>1, <3>1, <3>2 DEF HeartbeatsInv, SuccessIsCommitted
  <2>2. CASE p.step # "done"
    <3>1. beat'.success = beat.success
      BY <2>2 DEF ReceiveAnswer, HeartbeatsInv, HeartbeatsTypeOK, Service
    <3>2. QED
      BY <1>1, <3>1 DEF HeartbeatsInv, SuccessIsCommitted
  <2>3. QED
    BY <2>1, <2>2
<1>5. QED
  BY <1>1, <1>3, <1>4 DEF HeartbeatsInv, HeartbeatsTypeOK, SeenIsOrdered, LoadedIsOrdered,
     AwaitedIsRecent

(* Giving up on a call adds at most a copy of it nobody waits for.          *)
LEMMA FaultStep ==
  ASSUME HeartbeatsInv, beat' \in Service, beat'.success \in {beat.success, NoTime},
         \/ UNCHANGED posts
         \/ \E p \in posts : GivenUp(p),
         lost < BeatFaults, lost' = lost + 1, UNCHANGED <<now, row, committed>>
  PROVE  HeartbeatsInv'
<1>1. ASSUME NEW q \in posts'
      PROVE  q \in Post /\ LoadedIsOrdered(q)' /\ AwaitedIsRecent(q)'
  <2>1. CASE q \in posts
    BY <2>1 DEF HeartbeatsInv, HeartbeatsTypeOK, LoadedIsOrdered, AwaitedIsRecent
  <2>2. CASE q \notin posts
    <3>1. PICK p \in posts : q = [p EXCEPT !.awaited = FALSE]
      BY <2>2 DEF GivenUp, Becomes
    <3>2. p \in Post /\ LoadedIsOrdered(p)
      BY DEF HeartbeatsInv, HeartbeatsTypeOK
    <3>3. q \in Post /\ q.loaded = p.loaded /\ ~q.awaited
      BY <3>1, <3>2 DEF Post
    <3>4. QED
      BY <3>2, <3>3 DEF LoadedIsOrdered, AwaitedIsRecent
  <2>3. QED
    BY <2>1, <2>2
<1>2. HeartbeatsTypeOK'
  BY <1>1, HeartbeatConstants DEF HeartbeatsInv, HeartbeatsTypeOK
<1>3. QED
  BY <1>1, <1>2 DEF HeartbeatsInv, SeenIsOrdered, SuccessIsCommitted

LEMMA CallFailsStep ==
  ASSUME HeartbeatsInv, NEW p \in posts, CallFails(p)
  PROVE  HeartbeatsInv'
<1>1. beat' \in Service /\ beat'.success = beat.success
  BY DEF CallFails, HeartbeatsInv, HeartbeatsTypeOK, Service
<1>2. QED
  BY <1>1, FaultStep DEF CallFails

LEMMA CrashStep ==
  ASSUME HeartbeatsInv, Crash
  PROVE  HeartbeatsInv'
<1>1. beat' \in Service /\ beat'.success = NoTime
  BY DEF Crash, Started, Service
<1>2. UNCHANGED posts \/ \E p \in posts : GivenUp(p)
  BY DEF Crash, Awaited
<1>3. QED
  BY <1>1, <1>2, FaultStep DEF Crash

LEMMA HeartbeatsStep == HeartbeatsInv /\ [HeartbeatsNext]_beatVars => HeartbeatsInv'
<1> SUFFICES ASSUME HeartbeatsInv, [HeartbeatsNext]_beatVars PROVE HeartbeatsInv'
  OBVIOUS
<1>1. CASE Tick
  BY <1>1, TickStep
<1>2. CASE HealthChanges \/ TakeSnapshot
  BY <1>2, HealthStep
<1>3. CASE Crash
  BY <1>3, CrashStep
<1>4. CASE PostHeartbeat
  BY <1>4, PostStep
<1>5. ASSUME NEW p \in posts, HandlerStep(p) \/ ReceiveAnswer(p) \/ CallFails(p) PROVE HeartbeatsInv'
  BY <1>5, LoadStep, InsertStep, UpdateStep, ConflictStep, AnswerStep, CallFailsStep
     DEF HandlerStep
<1>6. CASE UNCHANGED beatVars
  BY <1>6 DEF beatVars, HeartbeatsInv, HeartbeatsTypeOK, SeenIsOrdered, SuccessIsCommitted,
     LoadedIsOrdered, AwaitedIsRecent
<1>7. QED
  BY <1>1, <1>2, <1>3, <1>4, <1>5, <1>6 DEF HeartbeatsNext

LEMMA SpecHeartbeatsInv == HeartbeatsSpec => []HeartbeatsInv
BY HeartbeatsInitially, HeartbeatsStep, PTL DEF HeartbeatsSpec

(* The service, its calls and its row keep their types.                     *)
THEOREM HeartbeatsTypeCorrect == HeartbeatsSpec => []HeartbeatsTypeOK
<1>1. HeartbeatsInv => HeartbeatsTypeOK
  BY DEF HeartbeatsInv
<1>2. QED
  BY SpecHeartbeatsInv, <1>1, PTL

(* Lost updates, late heartbeats and a service clock that runs ahead never  *)
(* leave a row seen last before it was seen first, or in the future.        *)
THEOREM SeenStaysOrdered == HeartbeatsSpec => []SeenIsOrdered
<1>1. HeartbeatsInv => SeenIsOrdered
  BY DEF HeartbeatsInv
<1>2. QED
  BY SpecHeartbeatsInv, <1>1, PTL

(* A ready service was heard of within three intervals and a call's time.   *)
THEOREM ReadyWasHeardOf == HeartbeatsSpec => []ReadyIsKnown
<1>1. HeartbeatsInv => ReadyIsKnown
  <2> SUFFICES ASSUME HeartbeatsInv, Ready PROVE row # NoRow /\ committed # NoTime
                                        /\ now =< committed + FreshFor + CallTimeout
    BY DEF ReadyIsKnown
  <2>1. beat.success # NoTime /\ now - beat.success =< FreshFor
    BY DEF Ready, HeartbeatIsFresh
  <2>2. now \in Times /\ beat.success \in Times /\ committed \in Times /\ row # NoRow
        /\ beat.success =< committed + CallTimeout
    BY <2>1 DEF HeartbeatsInv, HeartbeatsTypeOK, SuccessIsCommitted, Service
  <2>3. QED
    BY <2>1, <2>2, HeartbeatConstants DEF Times
<1>2. QED
  BY SpecHeartbeatsInv, <1>1, PTL

-------------------------------------------------------------------------------
(* AiAudit: until an audit is done, whatever it has asked for is unknown.   *)

AuditFields ==
  DOMAIN audit = {"step", "provider", "model", "todo", "discovered", "calls", "status", "report"}

(* An audit that goes on has no report, and all it asked for does not exist. *)
AuditGoesOn(a) ==
  /\ a.status # 200 /\ a.report = NoReport
  /\ \A k \in 1..Len(a.calls) : a.calls[k] = "unknown"
  /\ Len(a.calls) > 0 => a.provider = "gemini"

AuditInv ==
  /\ AuditFields
  /\ audit.calls \in Seq(Outcomes)
  /\ audit.step # "done" => AuditGoesOn(audit)
  /\ ReportIsTheLastAnswer

LEMMA RequestsEstablishAuditInv ==
  ASSUME NEW p \in Providers, NEW m \in Models
  PROVE  /\ audit = Request(p, m) => AuditInv
         /\ audit' = Request(p, m) => AuditInv'
<1> DEFINE a == Request(p, m)
<1>1. /\ DOMAIN a = {"step", "provider", "model", "todo", "discovered", "calls", "status", "report"}
      /\ a.calls = <<>> /\ a.status = 0 /\ a.report = NoReport
  BY DEF Request
<1>2. a.calls \in Seq(Outcomes) /\ Len(a.calls) = 0 /\ a.status # 200
  BY <1>1
<1> HIDE DEF a
<1>3. AuditGoesOn(a)
  BY <1>1, <1>2 DEF AuditGoesOn
<1>4. ASSUME audit = a PROVE AuditInv
  <2>1. ReportIsTheLastAnswer
    BY <1>1, <1>2, <1>4 DEF ReportIsTheLastAnswer
  <2>2. QED
    BY <1>1, <1>2, <1>3, <1>4, <2>1 DEF AuditInv, AuditFields
<1>5. ASSUME audit' = a PROVE AuditInv'
  <2>1. ReportIsTheLastAnswer'
    BY <1>1, <1>2, <1>5 DEF ReportIsTheLastAnswer
  <2>2. QED
    BY <1>1, <1>2, <1>3, <1>5, <2>1 DEF AuditInv, AuditFields
<1>6. QED
  BY <1>4, <1>5 DEF a

(* Going on over another unknown model, or over none.                       *)
LEMMA GoesOnKeeps ==
  ASSUME DOMAIN audit' = DOMAIN audit, AuditFields, audit'.calls \in Seq(Outcomes),
         AuditGoesOn(audit')
  PROVE  AuditInv'
<1>1. ReportIsTheLastAnswer'
  <2> DEFINE asked == audit'.calls
  <2>1. Len(asked) \in Nat /\ \A k \in 1..Len(asked) : asked[k] = "unknown"
    BY DEF AuditGoesOn
  <2>2. Len(asked) > 0 => asked[Len(asked)] # "answered"
    BY <2>1
  <2>3. QED
    BY <2>1, <2>2 DEF AuditGoesOn, ReportIsTheLastAnswer
<1>2. QED
  BY <1>1 DEF AuditInv, AuditFields

(* The record after a request.                                              *)
LEMMA CalledRecord ==
  ASSUME AuditInv, audit.step = "calling", NEW outcome \in Outcomes
  PROVE  LET a == Called(outcome)
             n == Len(a.calls)
         IN /\ DOMAIN a = DOMAIN audit /\ a.calls \in Seq(Outcomes)
            /\ n \in Nat /\ n > 0 /\ a.calls[n] = outcome
            /\ \A k \in 1..n : k < n => a.calls[k] = "unknown"
            /\ n > 1 => a.provider = "gemini"
            /\ a.provider = audit.provider /\ a.status = audit.status /\ a.report = audit.report
            /\ a.status # 200 /\ a.report = NoReport
<1> DEFINE old == audit.calls
           a == Called(outcome)
<1>1. old \in Seq(Outcomes) /\ AuditGoesOn(audit) /\ AuditFields
  BY DEF AuditInv
<1>2. /\ DOMAIN a = DOMAIN audit /\ a.calls = Append(old, outcome)
      /\ a.provider = audit.provider /\ a.status = audit.status /\ a.report = audit.report
  BY <1>1 DEF Called, AuditFields
<1>3. Len(old) \in Nat /\ \A k \in 1..Len(old) : old[k] = "unknown"
  BY <1>1 DEF AuditGoesOn
<1>4. /\ a.calls \in Seq(Outcomes) /\ Len(a.calls) = Len(old) + 1
      /\ \A k \in 1..Len(old) : a.calls[k] = old[k]
      /\ a.calls[Len(old) + 1] = outcome
  BY <1>1, <1>2
<1>5. \A k \in 1..Len(a.calls) : k < Len(a.calls) => a.calls[k] = "unknown"
  BY <1>3, <1>4
<1>6. Len(a.calls) > 1 => a.provider = "gemini"
  BY <1>1, <1>2, <1>3, <1>4 DEF AuditGoesOn
<1> HIDE DEF a
<1>7. QED
  BY <1>1, <1>2, <1>3, <1>4, <1>5, <1>6 DEF AuditGoesOn, a

(* The request that ends the audit, with a report or without.               *)
LEMMA EndsCalledKeeps ==
  ASSUME AuditInv, audit.step = "calling", NEW status, NEW outcome \in Outcomes,
         EndsCalled(status, outcome), status # 200, outcome # "answered"
  PROVE  AuditInv'
<1> DEFINE a == Called(outcome)
<1>1. audit' = [a EXCEPT !.step = "done", !.status = status]
  BY DEF EndsCalled
<1>2. /\ DOMAIN a = DOMAIN audit /\ a.calls \in Seq(Outcomes) /\ AuditFields
      /\ Len(a.calls) \in Nat /\ Len(a.calls) > 0 /\ a.calls[Len(a.calls)] = outcome
      /\ \A k \in 1..Len(a.calls) : k < Len(a.calls) => a.calls[k] = "unknown"
      /\ Len(a.calls) > 1 => a.provider = "gemini"
      /\ a.report = NoReport
  BY CalledRecord DEF AuditInv
<1> HIDE DEF a
<1>3. /\ DOMAIN audit' = DOMAIN audit /\ audit'.calls = a.calls /\ audit'.step = "done"
      /\ audit'.status = status /\ audit'.report = a.report /\ audit'.provider = a.provider
  BY <1>1, <1>2 DEF AuditFields
<1>4. QED
  BY <1>2, <1>3 DEF AuditInv, AuditFields, ReportIsTheLastAnswer

LEMMA AnswerKeeps ==
  ASSUME AuditInv, audit.step = "calling", NEW report, report # NoReport,
         audit' = [Called("answered") EXCEPT !.step = "done", !.status = 200, !.report = report]
  PROVE  AuditInv'
<1> DEFINE a == Called("answered")
<1>1. audit' = [a EXCEPT !.step = "done", !.status = 200, !.report = report]
  OBVIOUS
<1>2. /\ DOMAIN a = DOMAIN audit /\ a.calls \in Seq(Outcomes) /\ AuditFields
      /\ Len(a.calls) \in Nat /\ Len(a.calls) > 0 /\ a.calls[Len(a.calls)] = "answered"
      /\ \A k \in 1..Len(a.calls) : k < Len(a.calls) => a.calls[k] = "unknown"
      /\ Len(a.calls) > 1 => a.provider = "gemini"
  BY CalledRecord DEF AuditInv, Outcomes
<1> HIDE DEF a
<1>3. /\ DOMAIN audit' = DOMAIN audit /\ audit'.calls = a.calls /\ audit'.step = "done"
      /\ audit'.status = 200 /\ audit'.report = report /\ audit'.provider = a.provider
  BY <1>1, <1>2 DEF AuditFields
<1>4. QED
  BY <1>2, <1>3 DEF AuditInv, AuditFields, ReportIsTheLastAnswer

LEMMA AuditStep == AuditInv /\ [AuditNext]_audit => AuditInv'
<1> SUFFICES ASSUME AuditInv, [AuditNext]_audit PROVE AuditInv'
  OBVIOUS
<1>1. /\ AuditFields /\ audit.calls \in Seq(Outcomes)
      /\ audit.step # "done" => AuditGoesOn(audit)
  BY DEF AuditInv
<1>2. ASSUME NEW status, status # 200, audit.step # "done", Ends(status)
      PROVE  AuditInv'
  <2>1. /\ DOMAIN audit' = DOMAIN audit /\ audit'.calls = audit.calls
        /\ audit'.report = audit.report /\ audit'.status = status
        /\ audit'.provider = audit.provider
    BY <1>1, <1>2 DEF Ends, AuditFields
  <2>2. QED
    BY <1>1, <1>2, <2>1, GoesOnKeeps DEF AuditGoesOn
<1>3. CASE Refuse
  BY <1>2, <1>3 DEF Refuse
<1>4. CASE Dispatch
  <2>1. audit' = [audit EXCEPT !.step = "calling", !.todo = Candidates] /\ audit.step # "done"
    BY <1>4 DEF Dispatch
  <2>2. /\ DOMAIN audit' = DOMAIN audit /\ audit'.calls = audit.calls
        /\ audit'.report = audit.report /\ audit'.status = audit.status
        /\ audit'.provider = audit.provider
    BY <1>1, <2>1 DEF AuditFields
  <2>3. QED
    BY <1>1, <2>1, <2>2, GoesOnKeeps DEF AuditGoesOn
<1>5. ASSUME audit.step = "calling", NEW status, NEW outcome \in Outcomes, status # 200,
             outcome # "answered", EndsCalled(status, outcome)
      PROVE  AuditInv'
  BY <1>5, EndsCalledKeeps
<1>6. CASE ProviderRefuses \/ ProviderIsUnreachable \/ AnswerIsMalformed
  BY <1>5, <1>6 DEF ProviderRefuses, ProviderIsUnreachable, AnswerIsMalformed, Calling, Outcomes
<1>7. CASE ModelIsUnknown
  <2>1. CASE audit.provider = "gemini" /\ audit' = Called("unknown")
    <3>1. audit.step = "calling"
      BY <1>7 DEF ModelIsUnknown, Calling
    <3>2. /\ DOMAIN audit' = DOMAIN audit /\ audit'.calls \in Seq(Outcomes)
          /\ Len(audit'.calls) \in Nat /\ audit'.calls[Len(audit'.calls)] = "unknown"
          /\ \A k \in 1..Len(audit'.calls) : k < Len(audit'.calls) => audit'.calls[k] = "unknown"
          /\ audit'.provider = audit.provider
          /\ audit'.status # 200 /\ audit'.report = NoReport
      BY <2>1, <3>1, CalledRecord DEF Outcomes
    <3>3. AuditGoesOn(audit')
      BY <2>1, <3>2 DEF AuditGoesOn
    <3>4. QED
      BY <1>1, <3>2, <3>3, GoesOnKeeps
  <2>2. CASE EndsCalled(502, "unknown")
    BY <1>5, <1>7, <2>2 DEF ModelIsUnknown, Calling, Outcomes
  <2>3. QED
    BY <1>7, <2>1, <2>2 DEF ModelIsUnknown
<1>8. CASE ProviderAnswers
  <2>1. audit.step = "calling"
    BY <1>8 DEF ProviderAnswers, Calling
  <2>2. CASE EndsCalled(502, "malformed")
    BY <1>5, <2>1, <2>2 DEF Outcomes
  <2>3. ASSUME NEW answer, NEW level,
               audit' = [Called("answered") EXCEPT !.step = "done", !.status = 200,
                                                   !.report = Report(answer, level)]
        PROVE  AuditInv'
    <3>1. Report(answer, level) # NoReport
      BY DEF Report, NoReport
    <3>2. QED
      BY <2>1, <2>3, <3>1, AnswerKeeps
  <2>4. QED
    BY <1>8, <2>2, <2>3 DEF ProviderAnswers
<1>9. CASE ListGeminiModels
  <2>1. audit.step = "calling"
    BY <1>9 DEF ListGeminiModels
  <2>2. CASE audit' = [audit EXCEPT !.todo = <<Discovered>>, !.discovered = TRUE]
    <3>1. /\ DOMAIN audit' = DOMAIN audit /\ audit'.calls = audit.calls
          /\ audit'.report = audit.report /\ audit'.status = audit.status
          /\ audit'.provider = audit.provider
      BY <1>1, <2>2 DEF AuditFields
    <3>2. QED
      BY <1>1, <2>1, <3>1, GoesOnKeeps DEF AuditGoesOn
  <2>3. CASE Ends(502)
    BY <1>2, <2>1, <2>3
  <2>4. QED
    BY <1>9, <2>2, <2>3 DEF ListGeminiModels
<1>10. CASE NextRequest
  <2>1. PICK p \in Providers, m \in Models : audit' = Request(p, m)
    BY <1>10 DEF NextRequest, Requests
  <2>2. QED
    BY <2>1, RequestsEstablishAuditInv
<1>11. CASE UNCHANGED audit
  BY <1>11 DEF AuditInv, AuditFields, AuditGoesOn, ReportIsTheLastAnswer
<1>12. QED
  BY <1>3, <1>4, <1>6, <1>7, <1>8, <1>9, <1>10, <1>11 DEF AuditNext, CallProvider

(* However the providers answer, and whichever models the request, the      *)
(* chain and the list name: a report is the answer of the last request, and *)
(* no request follows one that was refused, lost or unreadable.             *)
THEOREM FailedAuditsReportNothing == AuditSpec => []ReportIsTheLastAnswer
<1>1. AuditInit => AuditInv
  BY RequestsEstablishAuditInv DEF AuditInit, Requests
<1>2. AuditInv => ReportIsTheLastAnswer
  BY DEF AuditInv
<1>3. QED
  BY <1>1, <1>2, AuditStep, PTL DEF AuditSpec

-------------------------------------------------------------------------------
(* IncidentAlerts: what a check takes for notified has been mailed.         *)

CheckFields(record) == DOMAIN record = {"step", "notified", "todo"}

AlertsInv ==
  /\ check = [p \in Checks |-> check[p]]
  /\ \A p \in Checks : CheckFields(check[p]) /\ check[p].notified \subseteq mailed
  /\ NotifiedWasMailed

LEMMA AlertsInitially == AlertsInit => AlertsInv
BY DEF AlertsInit, AlertsInv, CheckFields, NotifiedWasMailed, Sleeping

(* A check goes on, and the others stay as they are.                        *)
LEMMA GoesKeeps ==
  ASSUME AlertsInv, NEW p \in Checks, NEW record, Goes(p, record), mailed \subseteq mailed',
         CheckFields(record), record.notified \subseteq mailed'
  PROVE  /\ check' = [q \in Checks |-> check'[q]]
         /\ \A q \in Checks : CheckFields(check'[q]) /\ check'[q].notified \subseteq mailed'
BY DEF AlertsInv, Goes, CheckFields

LEMMA CheckStepKeeps ==
  ASSUME AlertsInv, NEW p \in Checks, CheckStep(p) \/ SendFails(p) \/ CheckFails(p)
  PROVE  AlertsInv'
<1>1. CheckFields(check[p]) /\ check[p].notified \subseteq mailed
  BY DEF AlertsInv
<1>2. CASE LoadState(p)
  <2> DEFINE new == [Sleeping EXCEPT !.step = "fetch", !.notified = stateFile]
  <2>1. CheckFields(new) /\ new.notified = stateFile /\ stateFile \subseteq mailed
    BY <1>2 DEF LoadState, Sleeping, AlertsInv, NotifiedWasMailed, CheckFields
  <2>2. Goes(p, new) /\ UNCHANGED <<mailed, stateFile>>
    BY <1>2 DEF LoadState
  <2> HIDE DEF new
  <2>3. QED
    BY <2>1, <2>2, GoesKeeps DEF AlertsInv, NotifiedWasMailed
<1>3. CASE FetchOpenIncidents(p)
  <2> DEFINE todo == SelectSeq(Listed, LAMBDA i : i \notin handled \union check[p].notified)
             new == [check[p] EXCEPT !.step = "send", !.todo = todo]
  <2>1. Goes(p, new) /\ UNCHANGED <<mailed, stateFile>>
    BY <1>3 DEF FetchOpenIncidents
  <2> HIDE DEF todo
  <2>2. CheckFields(new) /\ new.notified = check[p].notified
    BY <1>1 DEF CheckFields
  <2> HIDE DEF new
  <2>3. QED
    BY <1>1, <2>1, <2>2, GoesKeeps DEF AlertsInv, NotifiedWasMailed
<1>4. CASE SendEmail(p)
  <2> DEFINE i == Head(check[p].todo)
             new == [check[p] EXCEPT !.todo = Tail(@), !.notified = @ \union {i}]
  <2>1. Goes(p, new) /\ mailed' = mailed \union {i} /\ UNCHANGED stateFile
    BY <1>4 DEF SendEmail
  <2> HIDE DEF i
  <2>2. CheckFields(new) /\ new.notified = check[p].notified \union {i}
    BY <1>1 DEF CheckFields
  <2> HIDE DEF new
  <2>3. QED
    BY <1>1, <2>1, <2>2, GoesKeeps DEF AlertsInv, NotifiedWasMailed
<1>5. CASE AllSent(p)
  <2> DEFINE new == [check[p] EXCEPT !.step = "write"]
  <2>1. Goes(p, new) /\ UNCHANGED <<mailed, stateFile>>
    BY <1>5 DEF AllSent
  <2>2. CheckFields(new) /\ new.notified = check[p].notified
    BY <1>1 DEF CheckFields
  <2> HIDE DEF new
  <2>3. QED
    BY <1>1, <2>1, <2>2, GoesKeeps DEF AlertsInv, NotifiedWasMailed
<1>6. CASE SaveState(p)
  <2>1. Goes(p, Sleeping) /\ UNCHANGED mailed /\ stateFile' = check[p].notified
    BY <1>6 DEF SaveState
  <2>2. QED
    BY <1>1, <2>1, GoesKeeps DEF AlertsInv, NotifiedWasMailed, Sleeping, CheckFields
<1>7. CASE SendFails(p)
  <2>1. Goes(p, Sleeping) /\ mailed \subseteq mailed' /\ UNCHANGED stateFile
    BY <1>7 DEF SendFails
  <2>2. QED
    BY <2>1, GoesKeeps DEF AlertsInv, NotifiedWasMailed, Sleeping, CheckFields
<1>8. CASE CheckFails(p)
  <2>1. Goes(p, Sleeping) /\ UNCHANGED mailed /\ (stateFile' = Torn \/ UNCHANGED stateFile)
    BY <1>8 DEF CheckFails
  <2>2. QED
    BY <2>1, GoesKeeps DEF AlertsInv, NotifiedWasMailed, Sleeping, CheckFields
<1>9. QED
  BY <1>2, <1>3, <1>4, <1>5, <1>6, <1>7, <1>8 DEF CheckStep

(* For any number of incidents, of concurrent checks and of failures, no    *)
(* incident is written down as notified that was not mailed.                *)
THEOREM NoAlertIsDropped == AlertsSpec => []NotifiedWasMailed
<1>1. AlertsInv /\ [AlertsNext]_alertVars => AlertsInv'
  <2> SUFFICES ASSUME AlertsInv, [AlertsNext]_alertVars PROVE AlertsInv'
    OBVIOUS
  <2>1. CASE \E i \in Incidents : Opens(i) \/ Handle(i)
    <3>1. UNCHANGED <<stateFile, check, mailed>>
      BY <2>1 DEF Opens, Handle
    <3>2. QED
      BY <3>1 DEF AlertsInv, CheckFields, NotifiedWasMailed
  <2>2. CASE UNCHANGED alertVars
    BY <2>2 DEF AlertsInv, CheckFields, NotifiedWasMailed, alertVars
  <2>3. QED
    BY <2>1, <2>2, CheckStepKeeps DEF AlertsNext
<1>2. AlertsInv => NotifiedWasMailed
  BY DEF AlertsInv
<1>3. QED
  BY <1>1, <1>2, AlertsInitially, PTL DEF AlertsSpec

-------------------------------------------------------------------------------
(* Credentials: the timer finds the entry expired or it is younger than its *)
(* lifetime; so what it lets pass is at most as much too old as the timer   *)
(* is late.                                                                 *)

CredentialsInv == idle \in Nat /\ overdue \in Nat /\ IdleTokenIsLocked

LEMMA CredentialStep == CredentialsInv /\ [CredentialsNext]_credentialVars => CredentialsInv'
<1> SUFFICES ASSUME CredentialsInv, [CredentialsNext]_credentialVars PROVE CredentialsInv'
  OBVIOUS
<1> USE CredentialsAssumption DEF CredentialsAssumption, CredentialsInv, IdleTokenIsLocked, Expired
<1>1. CASE Load
  BY <1>1 DEF Load, get
<1>2. CASE CloseTab
  BY <1>2 DEF CloseTab
<1>3. CASE Send
  BY <1>3 DEF Send, get
<1>4. CASE ClearToken
  BY <1>4 DEF ClearToken, Set
<1>5. CASE EnforceCredentialExpiry
  BY <1>5 DEF EnforceCredentialExpiry, get
<1>6. CASE CredentialsTick
  BY <1>6 DEF CredentialsTick
<1>7. CASE \E t \in Tokens : Enter(t)
  BY <1>7 DEF Enter, Set
<1>8. CASE \E t \in calls : Answered(t) \/ Rejected(t)
  BY <1>8 DEF Answered, Rejected, Set
<1>9. CASE UNCHANGED credentialVars
  BY <1>9 DEF credentialVars
<1>10. QED
  BY <1>1, <1>2, <1>3, <1>4, <1>5, <1>6, <1>7, <1>8, <1>9 DEF CredentialsNext

(* For every lifetime, and however late the timer of the browser fires: a   *)
(* token that went idle is kept no longer than until its next firing, and   *)
(* until a token is idle, store and mirror agree.                           *)
THEOREM IdleTokensLock == CredentialsSpec => []IdleTokenIsLocked
<1>1. CredentialsInit => CredentialsInv
  BY CredentialsAssumption
     DEF CredentialsAssumption, CredentialsInit, CredentialsInv, IdleTokenIsLocked
<1>2. CredentialsInv => IdleTokenIsLocked
  BY DEF CredentialsInv
<1>3. QED
  BY <1>1, <1>2, CredentialStep, PTL DEF CredentialsSpec

LEMMA CredentialsTypeStep ==
  ASSUME CredentialsTypeOK, [CredentialsNext]_credentialVars
  PROVE  CredentialsTypeOK'
<1> USE CredentialsAssumption DEF CredentialsAssumption, CredentialsTypeOK, MaybeToken
<1>1. CASE Load
  BY <1>1 DEF Load, get
<1>2. CASE CloseTab
  <2>1. tab' \in BOOLEAN
    BY <1>2, Zenon DEF CloseTab
  <2>2. /\ idle' \in Nat /\ overdue' \in 0..MaxOverdue /\ calls' \subseteq Tokens
        /\ stored' \in MaybeToken /\ mirror' \in MaybeToken /\ legacy' \in MaybeToken
    BY <1>2 DEF CloseTab
  <2>3. QED
    BY <2>1, <2>2
<1>3. CASE Send
  BY <1>3 DEF Send, get
<1>4. CASE ClearToken
  BY <1>4 DEF ClearToken, Set
<1>5. CASE EnforceCredentialExpiry
  BY <1>5 DEF EnforceCredentialExpiry, get
<1>6. CASE CredentialsTick
  BY <1>6 DEF CredentialsTick
<1>7. CASE \E t \in Tokens : Enter(t)
  BY <1>7 DEF Enter, Set
<1>8. CASE \E t \in calls : Answered(t) \/ Rejected(t)
  BY <1>8 DEF Answered, Rejected, Set
<1>9. CASE UNCHANGED credentialVars
  BY <1>9 DEF credentialVars
<1>10. QED
  BY <1>1, <1>2, <1>3, <1>4, <1>5, <1>6, <1>7, <1>8, <1>9 DEF CredentialsNext

(* Store, mirror, timer and calls keep their types; a request under way     *)
(* always carries a token.                                                  *)
THEOREM CredentialsTypeCorrect == CredentialsSpec => []CredentialsTypeOK
<1>1. ASSUME CredentialsInit PROVE CredentialsTypeOK
  <2>1. tab \in BOOLEAN
    BY <1>1, Zenon DEF CredentialsInit
  <2>2. /\ idle \in Nat /\ overdue \in 0..MaxOverdue /\ calls \subseteq Tokens
        /\ stored \in MaybeToken /\ mirror \in MaybeToken /\ legacy \in MaybeToken
    BY <1>1, CredentialsAssumption DEF CredentialsAssumption, CredentialsInit, MaybeToken
  <2>3. QED
    BY <2>1, <2>2 DEF CredentialsTypeOK
<1>2. QED
  BY <1>1, CredentialsTypeStep, PTL DEF CredentialsSpec

-------------------------------------------------------------------------------
(* ImageReport: what a completion has fetched and read.                     *)

Fetched == [ReportCves -> FetchedRow]

(* A score that is said to be returned is one; a row that was loaded is     *)
(* still there, since none is deleted.                                      *)
JobSound(j) ==
  /\ j.step \in {"complete", "commit"} =>
       /\ j.fetched \in Fetched
       /\ \A c \in ReportCves : j.fetched[c].epss_record_returned => j.fetched[c].epss_score # NoScore
  /\ j.step = "commit" =>
       /\ j.seen \in Seen /\ j.loaded \in [ReportCves -> Intel \union {NoIntel}]
       /\ \A c \in ReportCves : j.loaded[c] # NoIntel => intelRow[c] # NoIntel

ReportInv ==
  /\ ReportTypeOK
  /\ \A s \in Completions : JobSound(job[s])

LEMMA MergedIsIntel ==
  ASSUME NEW intel \in Intel \union {NoIntel}, NEW fetched \in FetchedRow
  PROVE  Merged(intel, fetched) \in Intel
BY DEF Merged, Nothing, Intel, Score, FetchedRow

(* What is written is a row, each of whose columns is the merged or the     *)
(* current one.                                                             *)
LEMMA WrittenColumns ==
  ASSUME NEW intel, NEW new \in Intel, NEW current \in Intel
  PROVE  /\ Written(intel, new, current) \in Intel
         /\ intel # NoIntel =>
              /\ Written(intel, new, current).kev = IF new.kev = intel.kev THEN current.kev ELSE new.kev
              /\ Written(intel, new, current).epss_score =
                   IF new.epss_score = intel.epss_score THEN current.epss_score ELSE new.epss_score
<1>1. DOMAIN current = {"kev", "epss_score"}
  BY DEF Intel
<1>2. CASE intel = NoIntel
  BY <1>2 DEF Written
<1>3. CASE intel # NoIntel
  <2> DEFINE w == [f \in {"kev", "epss_score"} |-> IF new[f] = intel[f] THEN current[f] ELSE new[f]]
  <2>1. Written(intel, new, current) = w
    BY <1>1, <1>3 DEF Written
  <2>2. w = [kev |-> w["kev"], epss_score |-> w["epss_score"]]
    OBVIOUS
  <2>3. w["kev"] \in BOOLEAN /\ w["epss_score"] \in Score
    BY DEF Intel
  <2>4. w \in Intel
    BY <2>2, <2>3 DEF Intel
  <2>5. QED
    BY <2>1, <2>4
<1>4. QED
  BY <1>2, <1>3

LEMMA FetchStep ==
  ASSUME ReportInv, NEW s \in Completions, FetchIntel(s)
  PROVE  ReportInv'
<1>1. PICK kevComplete \in BOOLEAN, failed \in SUBSET ReportCves :
        job' = [job EXCEPT ![s] =
                  [step |-> "complete", fetched |->
                     MergeIntel(ParsedKev(kevComplete), ParsedEpss(failed), kevComplete, failed)]]
  BY DEF FetchIntel
<1> DEFINE rows == MergeIntel(ParsedKev(kevComplete), ParsedEpss(failed), kevComplete, failed)
<1>2. UNCHANGED <<feed, intelRow, findings, seen, changes>>
  BY DEF FetchIntel
<1>3. rows \in Fetched /\ \A c \in ReportCves : rows[c].epss_record_returned => rows[c].epss_score # NoScore
  BY DEF ReportInv, ReportTypeOK, MergeIntel, ParsedKev, ParsedEpss, Fetched, FetchedRow, Intel,
     Score
<1> HIDE DEF rows
<1>4. job' = [job EXCEPT ![s] = [step |-> "complete", fetched |-> rows]]
  BY <1>1 DEF rows
<1>5. [step |-> "complete", fetched |-> rows] \in Jobs
  BY <1>3 DEF Jobs, Fetched
<1>6. ReportTypeOK'
  BY <1>2, <1>4, <1>5 DEF ReportInv, ReportTypeOK
<1>7. \A q \in Completions : JobSound(job[q])'
  BY <1>2, <1>3, <1>4 DEF ReportInv, ReportTypeOK, JobSound
<1>8. QED
  BY <1>6, <1>7 DEF ReportInv

LEMMA ReadStep ==
  ASSUME ReportInv, NEW s \in Completions, ReadIntel(s)
  PROVE  ReportInv'
<1> DEFINE new == [step |-> "commit", fetched |-> job[s].fetched, loaded |-> intelRow, seen |-> seen]
<1>1. job' = [job EXCEPT ![s] = new] /\ UNCHANGED <<feed, intelRow, findings, seen, changes>>
  BY DEF ReadIntel
<1>2. job[s].step = "complete" /\ JobSound(job[s])
  BY DEF ReadIntel, ReportInv
<1>3. new \in Jobs
  BY <1>2 DEF Jobs, JobSound, Fetched, ReportInv, ReportTypeOK
<1>4. JobSound(new)
  BY <1>2 DEF JobSound, ReportInv, ReportTypeOK
<1> HIDE DEF new
<1>5. QED
  BY <1>1, <1>3, <1>4 DEF ReportInv, ReportTypeOK, JobSound

(* The rows a commit leaves, and where each of their columns comes from.    *)
LEMMA CommittedRows ==
  ASSUME ReportInv, NEW s \in Completions, CommitReport(s), NEW c \in ReportCves
  PROVE  /\ intelRow'[c] \in Intel
         /\ intelRow[c] # NoIntel =>
              /\ \/ intelRow'[c].kev = intelRow[c].kev
                 \/ /\ job[s].fetched[c].kev_fetch_complete
                    /\ intelRow'[c].kev = job[s].fetched[c].kev
              /\ \/ intelRow'[c].epss_score = intelRow[c].epss_score
                 \/ /\ intelRow'[c].epss_score = job[s].fetched[c].epss_score
                    /\ job[s].fetched[c].epss_score = NoScore => job[s].fetched[c].epss_fetch_complete
<1> DEFINE loaded == job[s].loaded[c]
           fetched == job[s].fetched[c]
           new == Merged(loaded, fetched)
<1>1. JobSound(job[s]) /\ job[s].step = "commit" /\ ~InsertFails(job[s])
  BY DEF ReportInv, CommitReport
<1>2. intelRow'[c] = Written(loaded, new, intelRow[c])
  BY DEF CommitReport
<1>3. /\ fetched \in FetchedRow /\ loaded \in Intel \union {NoIntel}
      /\ fetched.epss_record_returned => fetched.epss_score # NoScore
  BY <1>1 DEF JobSound, Fetched
<1>4. loaded # NoIntel <=> intelRow[c] # NoIntel
  BY <1>1 DEF JobSound, InsertFails
<1>5. new \in Intel
  BY <1>3, MergedIsIntel
<1>6. intelRow[c] \in Intel \union {NoIntel}
  BY DEF ReportInv, ReportTypeOK
<1>7. CASE intelRow[c] = NoIntel
  BY <1>2, <1>4, <1>5, <1>7 DEF Written
<1>8. CASE intelRow[c] # NoIntel
  <2>1. new = [kev |-> IF fetched.kev_fetch_complete THEN fetched.kev ELSE loaded.kev,
               epss_score |-> IF EpssAuthoritative(fetched) THEN fetched.epss_score
                              ELSE loaded.epss_score]
    BY <1>4, <1>8 DEF Merged
  <2> HIDE DEF new, loaded, fetched
  <2>2. /\ intelRow'[c] \in Intel
        /\ intelRow'[c].kev = IF new.kev = loaded.kev THEN intelRow[c].kev ELSE new.kev
        /\ intelRow'[c].epss_score =
             IF new.epss_score = loaded.epss_score THEN intelRow[c].epss_score ELSE new.epss_score
    BY <1>2, <1>4, <1>5, <1>6, <1>8, WrittenColumns
  <2>3. intelRow'[c].kev = intelRow[c].kev
        \/ (fetched.kev_fetch_complete /\ intelRow'[c].kev = fetched.kev)
    BY <2>1, <2>2
  <2>4. \/ intelRow'[c].epss_score = intelRow[c].epss_score
        \/ EpssAuthoritative(fetched) /\ intelRow'[c].epss_score = fetched.epss_score
    BY <2>1, <2>2
  <2>5. EpssAuthoritative(fetched) =>
          (fetched.epss_score = NoScore => fetched.epss_fetch_complete)
    BY <1>3 DEF EpssAuthoritative
  <2>6. QED
    BY <2>2, <2>3, <2>4, <2>5 DEF fetched
<1>9. QED
  BY <1>7, <1>8

LEMMA CommitReportStep ==
  ASSUME ReportInv, NEW s \in Completions, CommitReport(s)
  PROVE  ReportInv'
<1>1. /\ job' = [job EXCEPT ![s] = Ended] /\ UNCHANGED <<feed, seen, changes>>
      /\ findings' = findings \union NewFindings(job[s])
      /\ job[s].step = "commit" /\ JobSound(job[s])
  BY DEF CommitReport, ReportInv
<1>2. DOMAIN intelRow' = ReportCves /\ intelRow' = [c \in ReportCves |-> intelRow'[c]]
  BY DEF CommitReport
<1>3. intelRow' \in [ReportCves -> Intel]
  BY <1>2, CommittedRows
<1>4. \A c \in ReportCves : intelRow'[c] # NoIntel
  BY <1>3, NoIntelAssumption DEF NoIntelAssumption
<1>5. NewFindings(job[s]) \subseteq Finding
  <2> SUFFICES ASSUME NEW c \in ReportCves
               PROVE  [cve |-> c, stage |-> Stage(PackageOf[c], job[s].seen),
                       kev |-> Merged(job[s].loaded[c], job[s].fetched[c]).kev] \in Finding
    BY DEF NewFindings, Matches
  <2>1. Stage(PackageOf[c], job[s].seen) \in Stages
    BY DEF Stage, Stages
  <2>2. job[s].loaded[c] \in Intel \union {NoIntel} /\ job[s].fetched[c] \in FetchedRow
    BY <1>1 DEF JobSound, Fetched
  <2>3. Merged(job[s].loaded[c], job[s].fetched[c]).kev \in BOOLEAN
    BY <2>2, MergedIsIntel DEF Intel
  <2>4. QED
    BY <2>1, <2>3 DEF Finding
<1>6. ReportTypeOK'
  BY <1>1, <1>3, <1>5 DEF ReportInv, ReportTypeOK, Jobs
<1>7. \A q \in Completions : JobSound(job[q])'
  BY <1>1, <1>4 DEF ReportInv, ReportTypeOK, JobSound, Ended
<1>8. QED
  BY <1>6, <1>7 DEF ReportInv

LEMMA ReportStep == ReportInv /\ [ReportNext]_reportVars => ReportInv'
<1> SUFFICES ASSUME ReportInv, [ReportNext]_reportVars PROVE ReportInv'
  OBVIOUS
<1>1. CASE FeedMoves
  BY <1>1, ImageReportAssumption
  DEF FeedMoves, ReportInv, ReportTypeOK, JobSound, ImageReportAssumption
<1>2. CASE Observe
  <2>1. seen' \in Seen
    <3>1. seen \in Seen
      BY DEF ReportInv, ReportTypeOK
    <3>2. ASSUME NEW published \in BOOLEAN,
                 seen' = [seen EXCEPT !.running = TRUE, !.published = @ \/ published]
          PROVE  seen' \in Seen
      BY <3>1, <3>2, Zenon DEF Seen
    <3>3. ASSUME NEW p \in Packages, seen' = [seen EXCEPT !.executables = @ \union {p}]
          PROVE  seen' \in Seen
      <4>1. seen.executables \union {p} \in SUBSET Packages
        BY <3>1 DEF Seen
      <4>2. QED
        BY <3>1, <3>3, <4>1 DEF Seen
    <3>4. QED
      BY <1>2, <3>2, <3>3 DEF Observe
  <2>2. QED
    BY <1>2, <2>1 DEF Observe, ReportInv, ReportTypeOK, JobSound
<1>3. ASSUME NEW s \in Completions, RollBackReport(s) PROVE ReportInv'
  BY <1>3 DEF RollBackReport, ReportInv, ReportTypeOK, JobSound, Jobs, Ended
<1>4. CASE UNCHANGED reportVars
  BY <1>4 DEF reportVars, ReportInv, ReportTypeOK, JobSound
<1>5. QED
  BY <1>1, <1>2, <1>3, <1>4, FetchStep, ReadStep, CommitReportStep DEF ReportNext

LEMMA ReportInitially == ReportInit => ReportInv
<1> SUFFICES ASSUME ReportInit PROVE ReportInv
  OBVIOUS
<1>1. feed \in [ReportCves -> Intel] /\ intelRow \in [ReportCves -> Intel \union {NoIntel}]
  <2>1. Nothing \in Intel
    BY DEF Nothing, Intel, Score
  <2>2. QED
    BY <2>1 DEF ReportInit
<1>2. job = [s \in Completions |-> Waiting] /\ Waiting \in Jobs /\ JobSound(Waiting)
  BY DEF ReportInit, Waiting, Jobs, JobSound
<1>3. findings \subseteq Finding /\ seen \in Seen /\ changes \in 0..FeedChanges
  BY ImageReportAssumption DEF ReportInit, Seen, ImageReportAssumption
<1>4. QED
  BY <1>1, <1>2, <1>3 DEF ReportInv, ReportTypeOK

LEMMA SpecReportInv == ReportSpec => []ReportInv
BY ReportInitially, ReportStep, PTL DEF ReportSpec

(* The rows, the jobs and the findings of image reports have their types.   *)
THEOREM ReportTypeCorrect == ReportSpec => []ReportTypeOK
<1>1. ReportInv => ReportTypeOK
  BY DEF ReportInv
<1>2. QED
  BY SpecReportInv, <1>1, PTL

(* For any CVEs, scores and number of overlapping completions: a failed or  *)
(* incomplete fetch takes away no score and no KEV entry.                   *)
THEOREM OutagesKeepIntel == ReportSpec => OutageKeepsIntel
<1> DEFINE Kept(c) ==
       /\ \/ intelRow'[c].kev = intelRow[c].kev
          \/ \E s \in Completions :
               /\ job[s].step = "commit" /\ job'[s] = Ended
               /\ job[s].fetched[c].kev_fetch_complete
               /\ intelRow'[c].kev = job[s].fetched[c].kev
       /\ \/ intelRow'[c].epss_score = intelRow[c].epss_score
          \/ \E s \in Completions :
               /\ job[s].step = "commit" /\ job'[s] = Ended
               /\ intelRow'[c].epss_score = job[s].fetched[c].epss_score
               /\ job[s].fetched[c].epss_score = NoScore => job[s].fetched[c].epss_fetch_complete
<1>1. ReportInv /\ [ReportNext]_reportVars
      => [\A c \in ReportCves : intelRow[c] # NoIntel => Kept(c)]_reportVars
  <2> SUFFICES ASSUME ReportInv, ReportNext, NEW c \in ReportCves, intelRow[c] # NoIntel
               PROVE  Kept(c)
    OBVIOUS
  <2>1. ASSUME NEW s \in Completions, CommitReport(s) PROVE Kept(c)
    <3>1. job[s].step = "commit" /\ job'[s] = Ended
      BY <2>1 DEF CommitReport, ReportInv, ReportTypeOK
    <3>2. QED
      BY <2>1, <3>1, CommittedRows
  <2>2. CASE UNCHANGED intelRow
    BY <2>2
  <2>3. QED
    BY <2>1, <2>2 DEF ReportNext, FeedMoves, Observe, FetchIntel, ReadIntel, RollBackReport
<1>2. QED
  BY <1>1, SpecReportInv, PTL DEF ReportSpec, OutageKeepsIntel

-------------------------------------------------------------------------------
(* Poller: the fetches under way, the scheduler's records and the panels.   *)

(* A task does not overlap itself: one fetch by the scheduler, which the    *)
(* task's record knows of, and one direct fetch at most.                    *)
RunsAreSingle ==
  \A r \in runs :
    /\ r.scheduled => entry[r.task].inFlight
    /\ ~r.scheduled => r.task \in Direct
    /\ \A q \in runs : r.task = q.task /\ r.scheduled = q.scheduled => r = q

(* Answers and panels are no newer than the data, and the answer to a       *)
(* scheduled fetch is no older than what its panel shows.                   *)
AnswersAreNewer ==
  /\ \A t \in Tasks : shown[t] # None => shown[t] =< version
  /\ \A r \in runs : r.answer \in Versions =>
       /\ r.answer =< version
       /\ r.task \notin Direct /\ shown[r.task] # None => shown[r.task] =< r.answer

PollerInv ==
  /\ PollerTypeOK
  /\ RunsAreSingle
  /\ AnswersAreNewer
  /\ health = "offline" => streak = OfflineAfter

LEMMA PollerConstants ==
  /\ Direct \subseteq Tasks /\ Clearing \subseteq Tasks /\ MaxVersion \in Nat
  /\ DegradedAfter \in Nat /\ DegradedAfter > 0 /\ OfflineAfter \in Nat /\ OfflineAfter > 0
  /\ None \notin Versions /\ Failed \notin Versions /\ Failed # None
BY PollerAssumption DEF PollerAssumption, Versions

LEMMA NewRunType ==
  ASSUME NEW t \in Tasks, NEW scheduled \in BOOLEAN
  PROVE  /\ NewRun(t, scheduled) \in Runs /\ NewRun(t, scheduled).answer = None
         /\ NewRun(t, scheduled).task = t /\ NewRun(t, scheduled).scheduled = scheduled
BY DEF NewRun, Runs

LEMMA ExecutedType ==
  ASSUME NEW e \in Entries, running' \in BOOLEAN, hidden' \in BOOLEAN
  PROVE  /\ Executed(e) \in Entries
         /\ Executed(e).inFlight = (e.inFlight \/ Executable(e))
         /\ Scheduled(e) \in Entries /\ Scheduled(e).inFlight = e.inFlight
BY DEF Entries, Executed, Executable, Scheduled

(* Execute starts a run only of a task that has none under way.             *)
LEMMA ExecuteStep ==
  ASSUME PollerInv, NEW S \in SUBSET Tasks, Execute(S),
         running' \in BOOLEAN, hidden' \in BOOLEAN, UNCHANGED <<health, streak, shown, version>>
  PROVE  PollerInv'
<1> DEFINE new == {NewRun(t, TRUE) : t \in {u \in S : Executable(entry[u])}}
<1>1. /\ entry' = [t \in Tasks |-> IF t \in S THEN Executed(entry[t]) ELSE entry[t]]
      /\ runs' = runs \union new
  BY DEF Execute
<1>2. \A t \in Tasks : entry[t] \in Entries
  BY DEF PollerInv, PollerTypeOK
<1>3. ASSUME NEW r \in new
      PROVE  /\ r \in Runs /\ r.answer = None /\ r.scheduled /\ r.task \in S
             /\ r = NewRun(r.task, TRUE) /\ Executable(entry[r.task])
  <2>1. PICK t \in S : Executable(entry[t]) /\ r = NewRun(t, TRUE)
    BY <1>3
  <2>2. QED
    BY <2>1, NewRunType
<1> HIDE DEF new
<1>4. PollerTypeOK'
  BY <1>1, <1>2, <1>3, ExecutedType DEF PollerInv, PollerTypeOK
<1>5. RunsAreSingle'
  <2> SUFFICES ASSUME NEW r \in runs'
               PROVE  /\ r.scheduled => entry'[r.task].inFlight
                      /\ ~r.scheduled => r.task \in Direct
                      /\ \A q \in runs' : r.task = q.task /\ r.scheduled = q.scheduled => r = q
    BY DEF RunsAreSingle
  <2>1. r.task \in Tasks /\ r.scheduled \in BOOLEAN
    BY <1>4 DEF PollerTypeOK, Runs
  <2>2. r.scheduled => entry'[r.task].inFlight
    <3>1. r \in new => Executable(entry[r.task]) /\ r.task \in S
      BY <1>3
    <3>2. r \in runs /\ r.scheduled => entry[r.task].inFlight
      BY DEF PollerInv, RunsAreSingle
    <3>3. entry[r.task] \in Entries /\ Executed(entry[r.task]).inFlight
                                     = (entry[r.task].inFlight \/ Executable(entry[r.task]))
      BY <1>2, <2>1, ExecutedType
    <3>4. QED
      BY <1>1, <2>1, <3>1, <3>2, <3>3
  <2>3. ~r.scheduled => r.task \in Direct
    BY <1>1, <1>3 DEF PollerInv, RunsAreSingle
  <2>4. ASSUME NEW q \in runs', r.task = q.task, r.scheduled = q.scheduled PROVE r = q
    <3>1. CASE r \in runs /\ q \in runs
      BY <2>4, <3>1 DEF PollerInv, RunsAreSingle
    <3>2. CASE r \in new /\ q \in new
      BY <1>3, <2>4, <3>2
    <3>3. CASE r \in runs /\ q \in new
      <4>1. ~entry[r.task].inFlight /\ r.scheduled
        BY <1>3, <2>4, <3>3 DEF Executable
      <4>2. QED
        BY <3>3, <4>1 DEF PollerInv, RunsAreSingle
    <3>4. CASE q \in runs /\ r \in new
      <4>1. ~entry[q.task].inFlight /\ q.scheduled
        BY <1>3, <2>4, <3>4 DEF Executable
      <4>2. QED
        BY <3>4, <4>1 DEF PollerInv, RunsAreSingle
    <3>5. QED
      BY <1>1, <3>1, <3>2, <3>3, <3>4
  <2>5. QED
    BY <2>2, <2>3, <2>4
<1>6. AnswersAreNewer'
  BY <1>1, <1>3, PollerConstants DEF PollerInv, AnswersAreNewer
<1>7. QED
  BY <1>4, <1>5, <1>6 DEF PollerInv

(* Timers are set and cleared; what is under way stays so.                  *)
LEMMA TimersStep ==
  ASSUME PollerInv, running' \in BOOLEAN, hidden' \in BOOLEAN,
         entry' \in [Tasks -> Entries], \A t \in Tasks : entry'[t].inFlight = entry[t].inFlight,
         UNCHANGED <<runs, health, streak, shown, version>>
  PROVE  PollerInv'
BY DEF PollerInv, PollerTypeOK, RunsAreSingle, AnswersAreNewer, Runs, Versions

(* A fetch is answered, or aborted.                                         *)
LEMMA ReplaceStep ==
  ASSUME PollerInv, NEW r \in runs, NEW s \in Runs, Replace(r, s),
         s.task = r.task, s.scheduled = r.scheduled,
         s.answer \in Versions => s.answer = r.answer \/ s.answer = version,
         UNCHANGED <<running, hidden, health, streak, entry, shown, version>>
  PROVE  PollerInv'
<1>1. runs' = (runs \ {r}) \union {s} /\ r \in Runs
  BY DEF Replace, PollerInv, PollerTypeOK
<1>2. PollerTypeOK'
  BY <1>1 DEF PollerInv, PollerTypeOK
<1>3. RunsAreSingle'
  BY <1>1 DEF PollerInv, RunsAreSingle
<1>4. AnswersAreNewer'
  <2>1. s.answer \in Versions =>
          /\ s.answer =< version
          /\ s.task \notin Direct /\ shown[s.task] # None => shown[s.task] =< s.answer
    BY <1>1 DEF PollerInv, PollerTypeOK, AnswersAreNewer, Versions, Runs
  <2>2. QED
    BY <1>1, <2>1 DEF PollerInv, AnswersAreNewer
<1>5. QED
  BY <1>2, <1>3, <1>4 DEF PollerInv

LEMMA DirectStep ==
  ASSUME PollerInv, NEW t \in Tasks, FetchDirectly(t)
  PROVE  PollerInv'
<1> DEFINE new == NewRun(t, FALSE)
<1>1. /\ t \in Direct /\ \A r \in runs : r.task = t => r.scheduled
      /\ runs' = runs \union {new}
      /\ UNCHANGED <<running, hidden, health, streak, entry, shown, version>>
  BY DEF FetchDirectly
<1>2. new \in Runs /\ new.answer = None /\ new.task = t /\ new.scheduled = FALSE
  BY NewRunType
<1> HIDE DEF new
<1>3. PollerTypeOK'
  BY <1>1, <1>2 DEF PollerInv, PollerTypeOK
<1>4. RunsAreSingle'
  BY <1>1, <1>2 DEF PollerInv, RunsAreSingle
<1>5. AnswersAreNewer'
  BY <1>1, <1>2, PollerConstants DEF PollerInv, AnswersAreNewer
<1>6. QED
  BY <1>1, <1>3, <1>4, <1>5 DEF PollerInv

LEMMA PanelType ==
  ASSUME PollerInv, NEW r \in runs
  PROVE  /\ Panel(r) \in Versions \union {None}
         /\ Panel(r) # None => Panel(r) =< version
         /\ r.task \notin Direct /\ shown[r.task] # None /\ Panel(r) # None
              => shown[r.task] =< Panel(r)
<1>1. r \in Runs /\ shown \in [Tasks -> Versions \union {None}]
  BY DEF PollerInv, PollerTypeOK
<1>2. CASE Succeeded(r)
  <2>1. Panel(r) = r.answer /\ r.answer \in Versions
    BY <1>2 DEF Panel, Succeeded
  <2>2. QED
    BY <2>1 DEF PollerInv, AnswersAreNewer
<1>3. CASE ~Succeeded(r)
  <2>1. Panel(r) = IF r.task \in Clearing THEN None ELSE shown[r.task]
    BY <1>3 DEF Panel
  <2>2. r.task \in Tasks
    BY <1>1 DEF Runs
  <2>3. shown[r.task] # None => shown[r.task] \in Nat /\ shown[r.task] =< version
    BY <1>1, <2>2 DEF PollerInv, AnswersAreNewer, Versions
  <2>4. QED
    BY <1>1, <2>1, <2>2, <2>3 DEF Versions
<1>4. QED
  BY <1>2, <1>3

(* Once a fetch has settled, those that go on are of other panels, or were  *)
(* not started by the scheduler.                                            *)
LEMMA SettledPanels ==
  ASSUME PollerInv, NEW r \in runs,
         \A q \in runs' : q \in runs \ {r} \/ q.answer = None,
         shown' = [shown EXCEPT ![r.task] = Panel(r)], UNCHANGED version
  PROVE  AnswersAreNewer' /\ shown' \in [Tasks -> Versions \union {None}]
<1>1. /\ runs \subseteq Runs /\ shown \in [Tasks -> Versions \union {None}] /\ r.task \in Tasks
  BY DEF PollerInv, PollerTypeOK, Runs
<1>2. shown' \in [Tasks -> Versions \union {None}]
  BY <1>1, PanelType
<1>3. \A t \in Tasks : shown'[t] # None => shown'[t] =< version'
  BY <1>1, PanelType DEF PollerInv, AnswersAreNewer
<1>4. ASSUME NEW q \in runs', q.answer \in Versions
      PROVE  /\ q.answer =< version'
             /\ q.task \notin Direct /\ shown'[q.task] # None => shown'[q.task] =< q.answer
  <2>1. q \in runs /\ q # r /\ q.task \in Tasks
    BY <1>1, <1>4, PollerConstants DEF Runs
  <2>2. q.answer =< version'
    BY <1>4, <2>1 DEF PollerInv, AnswersAreNewer
  <2>3. q.task \notin Direct => q.task # r.task
    BY <1>1, <2>1 DEF PollerInv, RunsAreSingle, Runs
  <2>4. QED
    BY <1>1, <1>4, <2>1, <2>2, <2>3 DEF PollerInv, AnswersAreNewer
<1>5. QED
  BY <1>2, <1>3, <1>4 DEF AnswersAreNewer

LEMMA RecoverStep ==
  ASSUME PollerInv, NEW r \in runs, Settle(r), r.scheduled, Recover(r)
  PROVE  PollerInv' /\ health' = "healthy"
<1> DEFINE cleared == [t \in Tasks |-> [entry[t] EXCEPT !.failures = 0,
                                           !.inFlight = @ /\ t # r.task]]
           others == {t \in Tasks \ {r.task} : Executable(cleared[t])}
           new == {NewRun(t, TRUE) : t \in others}
<1>1. /\ streak' = 0 /\ health' = healthFor([t \in Tasks |-> cleared[t].failures], 0)
      /\ entry' = [t \in Tasks |-> IF t = r.task THEN Scheduled(cleared[t])
                                   ELSE Executed(cleared[t])]
      /\ runs' = (runs \ {r}) \union new
  BY DEF Recover
<1>2. shown' = [shown EXCEPT ![r.task] = Panel(r)] /\ UNCHANGED <<running, hidden, version>>
  BY DEF Settle
<1>3. r \in Runs /\ r.task \in Tasks /\ running' \in BOOLEAN /\ hidden' \in BOOLEAN
      /\ runs \subseteq Runs
  BY <1>2 DEF PollerInv, PollerTypeOK, Runs
<1>4. ASSUME NEW t \in Tasks
      PROVE  /\ cleared[t] \in Entries /\ cleared[t].failures = 0
             /\ cleared[t].inFlight = (entry[t].inFlight /\ t # r.task)
  <2> DEFINE zero == 0
             e == entry[t]
             other == t # r.task
             f == [e EXCEPT !.failures = zero, !.inFlight = @ /\ other]
  <2>1. e \in Entries /\ zero \in 0..DegradedAfter /\ other \in BOOLEAN
    BY PollerConstants DEF PollerInv, PollerTypeOK
  <2>2. cleared[t] = f /\ f = [e EXCEPT !.failures = zero, !.inFlight = @ /\ other]
    OBVIOUS
  <2> HIDE DEF zero, e, other, f, cleared
  <2>3. f \in Entries /\ f.failures = zero /\ f.inFlight = (e.inFlight /\ other)
    BY <2>1, <2>2 DEF Entries
  <2>4. QED
    BY <2>2, <2>3 DEF zero, e, other
<1>5. ASSUME NEW q \in new
      PROVE  /\ q \in Runs /\ q.answer = None /\ q.scheduled /\ q.task \in others
             /\ q = NewRun(q.task, TRUE)
  <2>1. PICK t \in others : q = NewRun(t, TRUE)
    OBVIOUS
  <2>2. t \in Tasks
    OBVIOUS
  <2> HIDE DEF others
  <2>3. QED
    BY <2>1, <2>2, NewRunType
<1>6. others \subseteq Tasks /\ \A t \in others : t # r.task /\ Executable(cleared[t])
  OBVIOUS
<1>7. \A t \in Tasks : t # r.task /\ Executable(cleared[t]) => t \in others
  OBVIOUS
<1> HIDE DEF cleared, others, new
<1>8. health' = "healthy"
  <2>1. \A t \in Tasks : ~([u \in Tasks |-> cleared[u].failures][t] >= DegradedAfter)
    BY <1>4, PollerConstants
  <2>2. QED
    BY <1>1, <2>1, PollerConstants DEF healthFor
<1>9. entry' \in [Tasks -> Entries]
  BY <1>1, <1>3, <1>4, ExecutedType
<1>10. ASSUME NEW t \in Tasks, t # r.task
       PROVE  /\ entry[t].inFlight \/ t \in others => entry'[t].inFlight
              /\ t \in others => ~entry[t].inFlight
  <2>1. entry'[t] = Executed(cleared[t])
    BY <1>1, <1>10
  <2>2. Executed(cleared[t]).inFlight = (cleared[t].inFlight \/ Executable(cleared[t]))
    BY <1>3, <1>4, ExecutedType
  <2>3. cleared[t].inFlight <=> entry[t].inFlight
    BY <1>4, <1>10
  <2>4. t \in others <=> Executable(cleared[t])
    BY <1>6, <1>7, <1>10
  <2>5. Executable(cleared[t]) => ~cleared[t].inFlight
    BY DEF Executable
  <2>6. QED
    BY <2>1, <2>2, <2>3, <2>4, <2>5
<1>11. RunsAreSingle'
  <2> SUFFICES ASSUME NEW q \in runs'
               PROVE  /\ q.scheduled => entry'[q.task].inFlight
                      /\ ~q.scheduled => q.task \in Direct
                      /\ \A p \in runs' : q.task = p.task /\ q.scheduled = p.scheduled => q = p
    BY DEF RunsAreSingle
  <2>1. CASE q \in new
    <3>1. q.scheduled /\ q.task \in others /\ q.task \in Tasks /\ q.task # r.task
          /\ q = NewRun(q.task, TRUE)
      BY <1>5, <1>6, <2>1
    <3>2. ~entry[q.task].inFlight /\ entry'[q.task].inFlight
      BY <1>10, <3>1
    <3>3. ASSUME NEW p \in runs', q.task = p.task, q.scheduled = p.scheduled PROVE q = p
      <4>1. p \notin runs
        BY <3>1, <3>2, <3>3 DEF PollerInv, RunsAreSingle
      <4>2. QED
        BY <1>1, <1>5, <3>1, <3>3, <4>1
    <3>4. QED
      BY <3>1, <3>2, <3>3
  <2>2. CASE q \in runs \ {r}
    <3>1. q.task \in Tasks /\ q.scheduled \in BOOLEAN /\ r.scheduled = TRUE
      BY <1>3, <2>2 DEF Runs
    <3>2. q.scheduled => q.task # r.task
      BY <2>2, <3>1 DEF PollerInv, RunsAreSingle
    <3>3. q.scheduled => entry[q.task].inFlight
      BY <2>2 DEF PollerInv, RunsAreSingle
    <3>4. q.scheduled => entry'[q.task].inFlight
      BY <1>10, <3>1, <3>2, <3>3
    <3>5. ASSUME NEW p \in runs', q.task = p.task, q.scheduled = p.scheduled PROVE q = p
      <4>1. CASE p \in runs
        BY <2>2, <3>5, <4>1 DEF PollerInv, RunsAreSingle
      <4>2. CASE p \in new
        <5>1. p.scheduled /\ p.task \in others
          BY <1>5, <4>2
        <5>2. QED
          BY <1>10, <3>1, <3>2, <3>3, <3>5, <5>1
      <4>3. QED
        BY <1>1, <4>1, <4>2
    <3>6. ~q.scheduled => q.task \in Direct
      BY <2>2 DEF PollerInv, RunsAreSingle
    <3>7. QED
      BY <3>4, <3>5, <3>6
  <2>3. QED
    BY <1>1, <2>1, <2>2
<1>12. AnswersAreNewer' /\ shown' \in [Tasks -> Versions \union {None}]
  BY <1>1, <1>2, <1>5, SettledPanels
<1>13. PollerTypeOK'
  <2>1. runs' \subseteq Runs
    BY <1>1, <1>3, <1>5
  <2>2. version' \in Versions /\ streak' \in 0..OfflineAfter
    BY <1>1, <1>2, PollerConstants DEF PollerInv, PollerTypeOK
  <2>3. QED
    BY <1>3, <1>8, <1>9, <1>12, <2>1, <2>2 DEF PollerTypeOK
<1>14. QED
  BY <1>8, <1>11, <1>12, <1>13 DEF PollerInv

LEMMA CountStep ==
  ASSUME PollerInv, NEW r \in runs, Settle(r), r.scheduled, Count(r)
  PROVE  PollerInv' /\ (health = "offline" => health' = "offline")
<1> DEFINE settled == [entry[r.task] EXCEPT !.inFlight = FALSE,
                         !.failures = IF Succeeded(r) THEN 0 ELSE Counted(@, DegradedAfter)]
<1>1. /\ streak' = IF Succeeded(r) THEN 0 ELSE Counted(streak, OfflineAfter)
      /\ entry' = [entry EXCEPT ![r.task] = Scheduled(settled)]
      /\ health' = healthFor([t \in Tasks |-> entry'[t].failures], streak')
      /\ runs' = runs \ {r}
      /\ ~(Succeeded(r) /\ health = "offline")
  BY DEF Count
<1>2. shown' = [shown EXCEPT ![r.task] = Panel(r)] /\ UNCHANGED <<running, hidden, version>>
  BY DEF Settle
<1>3. r \in Runs /\ r.task \in Tasks /\ running' \in BOOLEAN /\ hidden' \in BOOLEAN
      /\ runs \subseteq Runs
  BY <1>2 DEF PollerInv, PollerTypeOK, Runs
<1>4. settled \in Entries /\ settled.inFlight = FALSE
  <2> DEFINE e == entry[r.task]
             n == IF Succeeded(r) THEN 0 ELSE Counted(e.failures, DegradedAfter)
  <2>1. e \in Entries
    BY <1>3 DEF PollerInv, PollerTypeOK
  <2>2. settled = [e EXCEPT !.inFlight = FALSE, !.failures = n]
    OBVIOUS
  <2> HIDE DEF e, settled
  <2>3. n \in 0..DegradedAfter
    BY <2>1, PollerConstants DEF Entries, Counted
  <2> HIDE DEF n
  <2>4. QED
    BY <2>1, <2>2, <2>3 DEF Entries
<1> HIDE DEF settled
<1>5. entry' \in [Tasks -> Entries] /\ \A t \in Tasks : t # r.task => entry'[t] = entry[t]
  BY <1>1, <1>3, <1>4, ExecutedType DEF PollerInv, PollerTypeOK
<1>6. streak' \in 0..OfflineAfter /\ (health' = "offline" <=> streak' = OfflineAfter)
      /\ health' \in {"healthy", "degraded", "offline"}
  BY <1>1, PollerConstants DEF PollerInv, PollerTypeOK, Counted, healthFor
<1>7. health = "offline" => streak' = OfflineAfter
  BY <1>1, PollerConstants DEF PollerInv, Counted
<1>8. RunsAreSingle'
  BY <1>1, <1>3, <1>5 DEF PollerInv, RunsAreSingle, Runs
<1>9. AnswersAreNewer' /\ shown' \in [Tasks -> Versions \union {None}]
  <2>1. \A q \in runs' : q \in runs \ {r}
    BY <1>1
  <2>2. QED
    BY <1>2, <2>1, SettledPanels
<1>10. PollerTypeOK'
  BY <1>1, <1>2, <1>3, <1>5, <1>6, <1>9 DEF PollerInv, PollerTypeOK
<1>11. QED
  BY <1>6, <1>7, <1>8, <1>9, <1>10 DEF PollerInv

LEMMA SettleDirectStep ==
  ASSUME PollerInv, NEW r \in runs, Settle(r), ~r.scheduled
  PROVE  PollerInv' /\ UNCHANGED health
<1>1. /\ runs' = runs \ {r} /\ shown' = [shown EXCEPT ![r.task] = Panel(r)]
      /\ UNCHANGED <<running, hidden, health, streak, entry, version>>
  BY DEF Settle
<1>2. AnswersAreNewer' /\ shown' \in [Tasks -> Versions \union {None}]
  BY <1>1, SettledPanels
<1>3. RunsAreSingle' /\ runs' \subseteq Runs
  BY <1>1 DEF PollerInv, PollerTypeOK, RunsAreSingle
<1>4. QED
  BY <1>1, <1>2, <1>3 DEF PollerInv, PollerTypeOK

LEMMA RunStepKeeps ==
  ASSUME PollerInv, NEW r \in runs, RunStep(r)
  PROVE  PollerInv'
<1>1. r \in Runs /\ version \in Versions
  BY DEF PollerInv, PollerTypeOK
<1>2. CASE BackendAnswers(r)
  <2>1. PICK a \in {version, Failed} : Replace(r, [r EXCEPT !.answer = a])
    BY <1>2 DEF BackendAnswers
  <2> DEFINE s == [r EXCEPT !.answer = a]
  <2>2. s \in Runs /\ s.task = r.task /\ s.scheduled = r.scheduled /\ s.answer = a
    BY <1>1 DEF Runs, Answers
  <2>3. s.answer \in Versions => s.answer = version
    BY <2>2, PollerConstants
  <2> HIDE DEF s
  <2>4. Replace(r, s) /\ UNCHANGED <<running, hidden, health, streak, entry, shown, version>>
    BY <1>2, <2>1 DEF BackendAnswers, s
  <2>5. QED
    BY <2>2, <2>3, <2>4, ReplaceStep
<1>3. CASE TimeoutFires(r)
  <2> DEFINE s == [r EXCEPT !.aborted = TRUE]
  <2>1. s \in Runs /\ s.task = r.task /\ s.scheduled = r.scheduled /\ s.answer = r.answer
    BY <1>1 DEF Runs
  <2>2. Replace(r, s) /\ UNCHANGED <<running, hidden, health, streak, entry, shown, version>>
    BY <1>3 DEF TimeoutFires
  <2> HIDE DEF s
  <2>3. QED
    BY <2>1, <2>2, ReplaceStep
<1>4. CASE Settle(r)
  BY <1>1, <1>4, RecoverStep, CountStep, SettleDirectStep DEF Settle, Runs
<1>5. QED
  BY <1>2, <1>3, <1>4 DEF RunStep

LEMMA ClearTimersKeeps ==
  ASSUME PollerInv, ClearTimers
  PROVE  /\ entry' \in [Tasks -> Entries] /\ UNCHANGED runs
         /\ \A t \in Tasks : entry'[t].inFlight = entry[t].inFlight
<1>1. entry' = [t \in Tasks |-> [entry[t] EXCEPT !.timer = FALSE]] /\ UNCHANGED runs
  BY DEF ClearTimers
<1>2. \A t \in Tasks : entry[t] \in Entries
  BY DEF PollerInv, PollerTypeOK
<1>3. QED
  BY <1>1, <1>2 DEF Entries

LEMMA PollerStep == PollerInv /\ [PollerNext]_pollerVars => PollerInv'
<1> SUFFICES ASSUME PollerInv, [PollerNext]_pollerVars PROVE PollerInv'
  OBVIOUS
<1>1. running \in BOOLEAN /\ hidden \in BOOLEAN
  BY DEF PollerInv, PollerTypeOK
<1>2. ASSUME NEW immediately \in BOOLEAN, Start(immediately) PROVE PollerInv'
  <2>1. running' = TRUE /\ hidden' \in BOOLEAN /\ UNCHANGED <<hidden, health, streak, shown, version>>
    BY <1>1, <1>2 DEF Start
  <2>2. CASE RunAll
    BY <2>1, <2>2, ExecuteStep DEF RunAll
  <2>3. CASE entry' = [t \in Tasks |-> Scheduled(entry[t])] /\ UNCHANGED runs
    <3>1. \A t \in Tasks : entry[t] \in Entries
      BY DEF PollerInv, PollerTypeOK
    <3>2. entry' \in [Tasks -> Entries] /\ \A t \in Tasks : entry'[t].inFlight = entry[t].inFlight
      BY <2>1, <2>3, <3>1, ExecutedType
    <3>3. QED
      BY <2>1, <2>3, <3>2, TimersStep
  <2>4. QED
    BY <1>2, <2>2, <2>3 DEF Start
<1>3. CASE Stop
  <2>1. running' = FALSE /\ hidden' \in BOOLEAN /\ ClearTimers
        /\ UNCHANGED <<hidden, health, streak, shown, version>>
    BY <1>1, <1>3 DEF Stop
  <2>2. QED
    BY <2>1, ClearTimersKeeps, TimersStep
<1>4. CASE VisibilityChange
  <2>1. running' \in BOOLEAN /\ hidden' \in BOOLEAN /\ UNCHANGED <<health, streak, shown, version>>
    BY <1>1, <1>4 DEF VisibilityChange
  <2>2. CASE UNCHANGED <<entry, runs>>
    BY <2>1, <2>2, TimersStep DEF PollerInv, PollerTypeOK
  <2>3. CASE ClearTimers
    BY <2>1, <2>3, ClearTimersKeeps, TimersStep
  <2>4. CASE RunAll
    BY <2>1, <2>4, ExecuteStep DEF RunAll
  <2>5. QED
    BY <1>4, <2>2, <2>3, <2>4 DEF VisibilityChange
<1>5. CASE Refresh
  <2>1. RunAll /\ UNCHANGED <<running, hidden, health, streak, shown, version>>
    BY <1>5 DEF Refresh
  <2>2. QED
    BY <1>1, <2>1, ExecuteStep DEF RunAll
<1>6. CASE BackendChanges
  <2>1. version' = version + 1 /\ version' \in Versions /\ version \in Nat
        /\ UNCHANGED <<running, hidden, health, streak, entry, runs, shown>>
    BY <1>6, PollerConstants DEF BackendChanges, PollerInv, PollerTypeOK, Versions
  <2>2. AnswersAreNewer'
    BY <2>1 DEF PollerInv, PollerTypeOK, AnswersAreNewer, Versions
  <2>3. QED
    BY <2>1, <2>2 DEF PollerInv, PollerTypeOK, RunsAreSingle
<1>7. ASSUME NEW t \in Tasks, TimerFires(t) PROVE PollerInv'
  <2>1. Execute({t}) /\ {t} \in SUBSET Tasks
        /\ UNCHANGED <<running, hidden, health, streak, shown, version>>
    BY <1>7 DEF TimerFires
  <2>2. QED
    BY <1>1, <2>1, ExecuteStep
<1>8. CASE UNCHANGED pollerVars
  BY <1>8 DEF pollerVars, PollerInv, PollerTypeOK, RunsAreSingle, AnswersAreNewer
<1>9. QED
  BY <1>2, <1>3, <1>4, <1>5, <1>6, <1>7, <1>8, DirectStep, RunStepKeeps DEF PollerNext

LEMMA PollerInitially == PollerInit => PollerInv
<1> SUFFICES ASSUME PollerInit PROVE PollerInv
  OBVIOUS
<1> DEFINE resting == [failures |-> 0, timer |-> FALSE, inFlight |-> FALSE]
<1>1. entry = [t \in Tasks |-> resting] /\ resting \in Entries
  BY PollerConstants DEF PollerInit, Entries
<1> HIDE DEF resting
<1>2. PollerTypeOK
  <2>1. version \in Versions /\ streak \in 0..OfflineAfter
    BY PollerConstants DEF PollerInit, Versions
  <2>2. shown \in [Tasks -> Versions \union {None}] /\ runs \subseteq Runs
    BY DEF PollerInit
  <2>3. running \in BOOLEAN /\ hidden \in BOOLEAN /\ health \in {"healthy", "degraded", "offline"}
    BY DEF PollerInit
  <2>4. QED
    BY <1>1, <2>1, <2>2, <2>3 DEF PollerTypeOK
<1>3. QED
  BY <1>2 DEF PollerInit, PollerInv, RunsAreSingle, AnswersAreNewer

LEMMA SpecPollerInv == PollerSpec => []PollerInv
BY PollerInitially, PollerStep, PTL DEF PollerSpec

(* The scheduler's records, the fetches and the panels have their types.    *)
THEOREM PollerTypeCorrect == PollerSpec => []PollerTypeOK
<1>1. PollerInv => PollerTypeOK
  BY DEF PollerInv
<1>2. QED
  BY SpecPollerInv, <1>1, PTL

(* What a step shows is no older, and a success ends an outage for good.    *)
LEMMA NothingGoesBack ==
  ASSUME PollerInv, PollerNext
  PROVE  /\ \A t \in Tasks \ Direct :
              shown[t] # None /\ shown'[t] # None => shown[t] =< shown'[t]
         /\ health = "offline" => health' # "degraded"
<1>1. \A t \in Tasks : shown[t] # None => shown[t] =< shown[t]
  BY DEF PollerInv, PollerTypeOK, Versions
<1>2. ASSUME NEW r \in runs, Settle(r)
      PROVE  /\ \A t \in Tasks \ Direct :
                  shown[t] # None /\ shown'[t] # None => shown[t] =< shown'[t]
             /\ health = "offline" => health' # "degraded"
  <2>1. shown' = [shown EXCEPT ![r.task] = Panel(r)] /\ r \in Runs
    BY <1>2 DEF Settle, PollerInv, PollerTypeOK
  <2>2. \A t \in Tasks \ Direct : shown[t] # None /\ shown'[t] # None => shown[t] =< shown'[t]
    BY <1>1, <2>1, PanelType DEF PollerInv, PollerTypeOK
  <2>3. health = "offline" => health' # "degraded"
    BY <1>2, <2>1, RecoverStep, CountStep, SettleDirectStep DEF Settle, Runs
  <2>4. QED
    BY <2>2, <2>3
<1>3. (\E r \in runs : Settle(r)) \/ UNCHANGED <<shown, health>>
  BY DEF PollerNext, RunStep, Start, Stop, VisibilityChange, Refresh, BackendChanges, TimerFires,
     FetchDirectly, BackendAnswers, TimeoutFires
<1>4. QED
  BY <1>1, <1>2, <1>3

(* For any tasks, thresholds and versions, and however the page is hidden,  *)
(* the fetches fail, hang or answer, the console never goes back.           *)
THEOREM ConsoleGoesForward == PollerSpec => ConsoleNeverGoesBack
<1>1. PollerInv /\ [PollerNext]_pollerVars
      => [/\ \A t \in Tasks \ Direct :
                shown[t] # None /\ shown'[t] # None => shown[t] =< shown'[t]
          /\ health = "offline" => health' # "degraded"]_pollerVars
  BY NothingGoesBack
<1>2. QED
  BY <1>1, SpecPollerInv, PTL DEF PollerSpec, ConsoleNeverGoesBack

-------------------------------------------------------------------------------
(* Induction over finite sets, and sums of numbers over them.               *)

(* Among sets of subsets of a finite set there is a smallest one.           *)
LEMMA SmallestSubset ==
  ASSUME NEW S, IsFiniteSet(S), NEW Bad, Bad \subseteq SUBSET S, Bad # {}
  PROVE  \E s \in Bad : \A t \in Bad : ~(t \subseteq s /\ t # s)
<1>1. IsWellFoundedOn(StrictSubsetOrdering(S), FiniteSubsetsOf(S)) /\ FiniteSubsetsOf(S) = SUBSET S
  BY FS_StrictSubsetOrderingWellFounded, FS_FiniteSubsetsOfFinite
<1>2. PICK s \in Bad : \A t \in Bad : <<t, s>> \notin StrictSubsetOrdering(S)
  BY <1>1, WFMin
<1>3. QED
  BY <1>2 DEF StrictSubsetOrdering

One(s) == CHOOSE x \in s : TRUE

(* f[s] adds up the w of the elements of s, for every subset s of S.        *)
Adds(f, w, S) ==
  f = [s \in SUBSET S |-> IF s = {} THEN 0 ELSE w[One(s)] + f[s \ {One(s)}]]

LEMMA OneIsElement == ASSUME NEW s, s # {} PROVE One(s) \in s
BY DEF One

LEMMA AddsUnique ==
  ASSUME NEW S, NEW T, NEW U, IsFiniteSet(U), U \subseteq S, U \subseteq T,
         NEW f, NEW g, NEW w, Adds(f, w, S), Adds(g, w, T)
  PROVE  f[U] = g[U]
<1> DEFINE Bad == {u \in SUBSET U : f[u] # g[u]}
<1>1. SUFFICES ASSUME Bad # {} PROVE FALSE
  OBVIOUS
<1> HIDE DEF Bad
<1>2. PICK u \in Bad : \A t \in Bad : ~(t \subseteq u /\ t # u)
  <2>1. Bad \subseteq SUBSET U /\ IsFiniteSet(U)
    BY DEF Bad
  <2>2. QED
    BY <1>1, <2>1, SmallestSubset
<1>3. u \in SUBSET U /\ f[u] # g[u] /\ \A t \in SUBSET u : t # u => f[t] = g[t]
  BY <1>2 DEF Bad
<1>4. /\ f[u] = IF u = {} THEN 0 ELSE w[One(u)] + f[u \ {One(u)}]
      /\ g[u] = IF u = {} THEN 0 ELSE w[One(u)] + g[u \ {One(u)}]
  BY <1>3 DEF Adds
<1>5. u # {} => f[u \ {One(u)}] = g[u \ {One(u)}]
  BY <1>3, OneIsElement
<1>6. QED
  BY <1>3, <1>4, <1>5

Adder(w, S) == CHOOSE f : Adds(f, w, S)
Sum(w, S) == Adder(w, S)[S]

LEMMA AdderAdds == ASSUME NEW S, IsFiniteSet(S), NEW w PROVE Adds(Adder(w, S), w, S)
<1> DEFINE Bad == {s \in SUBSET S : ~\E f : Adds(f, w, s)}
<1>1. SUFFICES ASSUME Bad # {} PROVE FALSE
  BY DEF Adder
<1> HIDE DEF Bad
<1>2. PICK s \in Bad : \A t \in Bad : ~(t \subseteq s /\ t # s)
  <2>1. Bad \subseteq SUBSET S /\ IsFiniteSet(S)
    BY DEF Bad
  <2>2. QED
    BY <1>1, <2>1, SmallestSubset
<1>3. ASSUME NEW t \in SUBSET s, t # s PROVE Adds(Adder(w, t), w, t)
  <2>1. t \notin Bad /\ t \in SUBSET S
    BY <1>2, <1>3 DEF Bad
  <2>2. QED
    BY <2>1 DEF Adder, Bad
<1> DEFINE f == [t \in SUBSET s |-> IF t = {} THEN 0
                                    ELSE w[One(t)] + Sum(w, t \ {One(t)})]
<1>4. ASSUME NEW t \in SUBSET s, t # {} PROVE f[t \ {One(t)}] = Sum(w, t \ {One(t)})
  <2> DEFINE u == t \ {One(t)}
  <2>1. u \in SUBSET s /\ u # s /\ IsFiniteSet(u)
    <3>1. s \in SUBSET S
      BY <1>2 DEF Bad
    <3>2. u \in SUBSET s /\ u # s
      BY <1>4, OneIsElement
    <3>3. QED
      BY <3>1, <3>2, FS_Subset
  <2>2. Adds(Adder(w, u), w, u)
    BY <1>3, <2>1
  <2>3. Sum(w, u) = IF u = {} THEN 0 ELSE w[One(u)] + Adder(w, u)[u \ {One(u)}]
    BY <2>2 DEF Adds, Sum
  <2>4. u # {} => Adder(w, u)[u \ {One(u)}] = Sum(w, u \ {One(u)})
    <3> DEFINE v == u \ {One(u)}
    <3> SUFFICES ASSUME u # {} PROVE Adder(w, u)[v] = Sum(w, v)
      OBVIOUS
    <3>1. v \in SUBSET s /\ v # s /\ IsFiniteSet(v) /\ v \subseteq u
      BY <2>1, OneIsElement, FS_Subset
    <3>2. Adds(Adder(w, v), w, v)
      BY <1>3, <3>1
    <3>3. Adder(w, u)[v] = Adder(w, v)[v]
      BY <2>2, <3>1, <3>2, AddsUnique
    <3>4. QED
      BY <3>3 DEF Sum
  <2>5. QED
    BY <2>1, <2>3, <2>4
<1>5. Adds(f, w, s)
  BY <1>4 DEF Adds
<1> HIDE DEF f
<1>6. QED
  BY <1>2, <1>5 DEF Bad

LEMMA SumIsSame ==
  ASSUME NEW S, IsFiniteSet(S), NEW T \in SUBSET S, NEW f, NEW w, Adds(f, w, S)
  PROVE  f[T] = Sum(w, T)
<1>1. IsFiniteSet(T)
  BY FS_Subset
<1>2. QED
  BY <1>1, AdderAdds, AddsUnique DEF Sum

LEMMA SumEmpty == ASSUME NEW w PROVE Sum(w, {}) = 0
<1>1. PICK f : f = Adder(w, {})
  OBVIOUS
<1>2. Adds(f, w, {})
  BY <1>1, AdderAdds, FS_EmptySet
<1>3. f[{}] = 0
  <2>1. \A s \in SUBSET {} : f[s] = IF s = {} THEN 0 ELSE w[One(s)] + f[s \ {One(s)}]
    BY <1>2, Zenon DEF Adds
  <2>2. {} \in SUBSET {}
    OBVIOUS
  <2>3. QED
    BY <2>1, <2>2, Zenon
<1>4. QED
  BY <1>1, <1>3 DEF Sum

LEMMA SumOne ==
  ASSUME NEW S, IsFiniteSet(S), S # {}, NEW w
  PROVE  Sum(w, S) = w[One(S)] + Sum(w, S \ {One(S)})
<1>1. Adds(Adder(w, S), w, S)
  BY AdderAdds
<1>2. Sum(w, S) = w[One(S)] + Adder(w, S)[S \ {One(S)}]
  BY <1>1 DEF Sum, Adds
<1>3. QED
  BY <1>1, <1>2, SumIsSame

LEMMA SumIsNat ==
  ASSUME NEW S, IsFiniteSet(S), NEW w, \A x \in S : w[x] \in Nat
  PROVE  Sum(w, S) \in Nat
<1> DEFINE Bad == {s \in SUBSET S : Sum(w, s) \notin Nat}
<1>1. SUFFICES ASSUME Bad # {} PROVE FALSE
  OBVIOUS
<1> HIDE DEF Bad
<1>2. PICK s \in Bad : \A t \in Bad : ~(t \subseteq s /\ t # s)
  <2>1. Bad \subseteq SUBSET S /\ IsFiniteSet(S)
    BY DEF Bad
  <2>2. QED
    BY <1>1, <2>1, SmallestSubset
<1>3. s \in SUBSET S /\ s # {} /\ IsFiniteSet(s)
  <2>1. s \in SUBSET S /\ Sum(w, s) \notin Nat
    BY <1>2 DEF Bad
  <2>2. s # {}
    BY <2>1, SumEmpty
  <2>3. QED
    BY <2>1, <2>2, FS_Subset
<1>4. One(s) \in s /\ Sum(w, s \ {One(s)}) \in Nat
  BY <1>2, <1>3, OneIsElement DEF Bad
<1>5. Sum(w, s) = w[One(s)] + Sum(w, s \ {One(s)}) /\ w[One(s)] \in Nat
  BY <1>2, <1>3, <1>4, SumOne DEF Bad
<1>6. QED
  BY <1>2, <1>4, <1>5 DEF Bad

(* Any element may be taken out first.                                      *)
LEMMA SumRemove ==
  ASSUME NEW S, IsFiniteSet(S), NEW w, \A x \in S : w[x] \in Nat, NEW e \in S
  PROVE  Sum(w, S) = w[e] + Sum(w, S \ {e})
<1> DEFINE Bad == {s \in SUBSET S : \E x \in s : Sum(w, s) # w[x] + Sum(w, s \ {x})}
<1>1. SUFFICES ASSUME Bad # {} PROVE FALSE
  OBVIOUS
<1> HIDE DEF Bad
<1>2. PICK s \in Bad : \A t \in Bad : ~(t \subseteq s /\ t # s)
  <2>1. Bad \subseteq SUBSET S /\ IsFiniteSet(S)
    BY DEF Bad
  <2>2. QED
    BY <1>1, <2>1, SmallestSubset
<1>3. PICK x \in s : Sum(w, s) # w[x] + Sum(w, s \ {x})
  BY <1>2 DEF Bad
<1> DEFINE p == One(s)
<1>4. p \in s /\ IsFiniteSet(s) /\ Sum(w, s) = w[p] + Sum(w, s \ {p}) /\ s \in SUBSET S
  <2>1. s \in SUBSET S /\ s # {}
    BY <1>2, <1>3 DEF Bad
  <2>2. IsFiniteSet(s)
    BY <2>1, FS_Subset
  <2>3. QED
    BY <2>1, <2>2, OneIsElement, SumOne
<1> HIDE DEF p
<1>5. p # x
  BY <1>3, <1>4
<1>6. Sum(w, s \ {p}) = w[x] + Sum(w, (s \ {p}) \ {x})
  BY <1>2, <1>4, <1>5 DEF Bad
<1>7. Sum(w, s \ {x}) = w[p] + Sum(w, (s \ {x}) \ {p})
  BY <1>2, <1>4, <1>5 DEF Bad
<1>8. (s \ {p}) \ {x} = (s \ {x}) \ {p}
  OBVIOUS
<1>9. Sum(w, (s \ {x}) \ {p}) \in Nat /\ w[x] \in Nat /\ w[p] \in Nat
  <2>1. IsFiniteSet((s \ {x}) \ {p}) /\ (s \ {x}) \ {p} \subseteq S
    BY <1>4, FS_Subset
  <2>2. QED
    BY <1>4, <2>1, SumIsNat
<1> DEFINE rest == Sum(w, (s \ {x}) \ {p})
<1> HIDE DEF rest
<1>10. rest \in Nat /\ Sum(w, s \ {p}) = w[x] + rest /\ Sum(w, s \ {x}) = w[p] + rest
  BY <1>6, <1>7, <1>8, <1>9 DEF rest
<1>11. QED
  BY <1>9, <1>10, <1>3, <1>4

LEMMA SumMonotone ==
  ASSUME NEW S, IsFiniteSet(S), NEW w, \A x \in S : w[x] \in Nat, NEW T \in SUBSET S
  PROVE  Sum(w, T) =< Sum(w, S)
<1> DEFINE Bad == {s \in SUBSET S : T \subseteq s /\ ~(Sum(w, T) =< Sum(w, s))}
<1>1. SUFFICES ASSUME Bad # {} PROVE FALSE
  OBVIOUS
<1> HIDE DEF Bad
<1>2. PICK s \in Bad : \A t \in Bad : ~(t \subseteq s /\ t # s)
  <2>1. Bad \subseteq SUBSET S /\ IsFiniteSet(S)
    BY DEF Bad
  <2>2. QED
    BY <1>1, <2>1, SmallestSubset
<1>3. s \in SUBSET S /\ IsFiniteSet(s) /\ IsFiniteSet(T) /\ Sum(w, T) \in Nat /\ Sum(w, s) \in Nat
  <2>1. s \in SUBSET S
    BY <1>2 DEF Bad
  <2>2. IsFiniteSet(s) /\ IsFiniteSet(T)
    BY <2>1, FS_Subset
  <2>3. QED
    BY <2>1, <2>2, SumIsNat
<1>4. PICK x \in s : x \notin T
  <2>1. T \subseteq s /\ T # s
    BY <1>2, <1>3 DEF Bad
  <2>2. QED
    BY <2>1
<1>5. Sum(w, T) =< Sum(w, s \ {x}) /\ T \subseteq s
  BY <1>2, <1>3, <1>4 DEF Bad
<1>6. Sum(w, s) = w[x] + Sum(w, s \ {x}) /\ w[x] \in Nat
  BY <1>3, SumRemove
<1>7. Sum(w, s \ {x}) \in Nat
  <2>1. IsFiniteSet(s \ {x}) /\ s \ {x} \subseteq S
    BY <1>3, FS_Subset
  <2>2. QED
    BY <2>1, SumIsNat
<1>8. ~(Sum(w, T) =< Sum(w, s))
  BY <1>2 DEF Bad
<1>9. QED
  BY <1>3, <1>5, <1>6, <1>7, <1>8

-------------------------------------------------------------------------------
(* DeadLetters: every change of the table is a pruning.                     *)

LEMMA BytesIsSum ==
  ASSUME NEW S, IsFiniteSet(S), NEW w, \A l \in S : w[l] = l.bytes
  PROVE  Bytes(S) = Sum(w, S)
<1> DEFINE Step(f) ==
             [s \in SUBSET S |-> IF s = {} THEN 0 ELSE One(s).bytes + f[s \ {One(s)}]]
           iter == CHOOSE f : f = Step(f)
<1>1. Bytes(S) = iter[S]
  BY DEF Bytes, MapThenSumSet, MapThenFoldSet, One
<1>2. ASSUME NEW f PROVE f = Step(f) <=> Adds(f, w, S)
  <2>1. \A s \in SUBSET S : s # {} => w[One(s)] = One(s).bytes
    BY OneIsElement
  <2>2. Step(f) = [s \in SUBSET S |-> IF s = {} THEN 0 ELSE w[One(s)] + f[s \ {One(s)}]]
    BY <2>1
  <2>3. QED
    BY <2>2 DEF Adds
<1>3. Adder(w, S) = Step(Adder(w, S))
  BY <1>2, AdderAdds
<1> HIDE DEF Step
<1>4. iter = Step(iter)
  BY <1>3
<1>5. QED
  BY <1>1, <1>2, <1>4, SumIsSame

LettersInv ==
  /\ LettersTypeOK
  /\ IsFiniteSet(letters)
  /\ \A l \in letters : l.id =< inserted + before
  /\ \A l, m \in letters : l.id = m.id => l = m
  /\ LettersAddUp

LEMMA LettersConstants ==
  /\ MaxRecords \in Nat /\ MaxBytes \in Nat /\ Retention \in Nat /\ MaxTime \in Nat
  /\ MaxInserted \in Nat /\ ExcerptSizes \subseteq Nat
BY DeadLettersAssumption DEF DeadLettersAssumption

LEMMA LetterType ==
  ASSUME NEW l \in Letters
  PROVE  l.id \in Nat /\ l.recorded_at \in Nat /\ l.bytes \in Nat
<1>1. l.id \in 1..MaxInserted + 1 /\ l.recorded_at \in 0..MaxTime /\ l.bytes \in ExcerptSizes
  BY DEF Letters
<1>2. l.id \in Nat /\ l.recorded_at \in Nat
  BY <1>1, LettersConstants
<1>3. QED
  BY <1>1, <1>2, LettersConstants

LEMMA BytesOf ==
  ASSUME NEW S \in SUBSET Letters, IsFiniteSet(S), NEW T \in SUBSET S
  PROVE  Bytes(T) \in Nat /\ Bytes(S) \in Nat /\ Bytes(T) =< Bytes(S)
<1> DEFINE w == [l \in S |-> l.bytes]
<1>1. \A l \in S : w[l] = l.bytes /\ w[l] \in Nat
  BY LetterType
<1> HIDE DEF w
<1>2. IsFiniteSet(T) /\ \A l \in T : w[l] = l.bytes /\ w[l] \in Nat
  BY <1>1, FS_Subset
<1>3. Bytes(T) = Sum(w, T) /\ Bytes(S) = Sum(w, S)
  BY <1>1, <1>2, BytesIsSum
<1>4. QED
  BY <1>1, <1>2, <1>3, SumIsNat, SumMonotone

LEMMA NothingHasNoBytes == Bytes({}) = 0
<1> DEFINE w == [l \in {} |-> 0]
<1>1. Bytes({}) = Sum(w, {})
  BY BytesIsSum, FS_EmptySet
<1> HIDE DEF w
<1>2. QED
  BY <1>1, SumEmpty

(* A table that is not empty has an oldest letter.                          *)
LEMMA OldestExists ==
  ASSUME NEW P \in SUBSET Letters, IsFiniteSet(P), P # {}
  PROVE  \E l \in P : \A m \in P : ~Older(m, l)
<1> DEFINE Before(l) == {m \in P : Older(m, l)}
           All == {Before(l) : l \in P}
<1>1. All \subseteq SUBSET P /\ All # {}
  OBVIOUS
<1>2. \E s \in All : \A t \in All : ~(t \subseteq s /\ t # s)
  <2> HIDE DEF All
  <2>1. QED
    BY <1>1, SmallestSubset
<1>3. PICK l \in P : \A m \in P : ~(Before(m) \subseteq Before(l) /\ Before(m) # Before(l))
  <2> HIDE DEF Before
  <2>1. QED
    BY <1>2
<1>4. ASSUME NEW m \in P, Older(m, l) PROVE FALSE
  <2>1. Before(m) \subseteq Before(l)
    BY <1>4, LetterType DEF Older
  <2>2. m \in Before(l) /\ m \notin Before(m)
    BY <1>4, LetterType DEF Older
  <2>3. QED
    BY <1>3, <2>1, <2>2
<1>5. QED
  BY <1>4

(* What pruning leaves is within the limits.                                *)
LEMMA PrunedFits ==
  ASSUME NEW table \in SUBSET Letters, IsFiniteSet(table)
  PROVE  /\ Pruned(table) \subseteq table /\ IsFiniteSet(Pruned(table))
         /\ Cardinality(Pruned(table)) =< MaxRecords
         /\ Bytes(Pruned(table)) =< MaxBytes
<1> DEFINE recent == Recent(table)
           newest == Newest(recent)
           left == Fitting(newest)
<1>1. recent \subseteq table /\ newest \subseteq recent /\ left \subseteq newest
      /\ Pruned(table) = left
  BY DEF Recent, Newest, Fitting, Pruned
<1>2. \A l \in left : /\ Cardinality(NoOlder(l, recent)) =< MaxRecords
                      /\ Bytes(NoOlder(l, newest)) =< MaxBytes
  BY DEF Newest, Fitting
<1> HIDE DEF recent, newest, left
<1>3. IsFiniteSet(recent) /\ IsFiniteSet(newest) /\ IsFiniteSet(left)
  BY <1>1, FS_Subset
<1>4. CASE left = {}
  <2>1. Cardinality(left) = 0
    BY <1>4, FS_EmptySet
  <2>2. Bytes(left) = 0
    BY <1>4, NothingHasNoBytes
  <2>3. QED
    BY <1>1, <1>3, <2>1, <2>2, LettersConstants
<1>5. CASE left # {}
  <2>1. PICK l \in left : \A m \in left : ~Older(m, l)
    BY <1>1, <1>3, <1>5, OldestExists
  <2>2. left \subseteq NoOlder(l, recent) /\ left \subseteq NoOlder(l, newest)
    BY <1>1, <2>1 DEF NoOlder
  <2>3. NoOlder(l, recent) \subseteq recent /\ NoOlder(l, newest) \subseteq newest
    BY DEF NoOlder
  <2>4. IsFiniteSet(NoOlder(l, recent)) /\ IsFiniteSet(NoOlder(l, newest))
    BY <1>3, <2>3, FS_Subset
  <2>5. /\ Cardinality(left) \in Nat /\ Cardinality(NoOlder(l, recent)) \in Nat
        /\ Cardinality(left) =< Cardinality(NoOlder(l, recent))
    BY <1>3, <2>2, <2>4, FS_Subset, FS_CardinalityType
  <2>6. /\ Bytes(left) \in Nat /\ Bytes(NoOlder(l, newest)) \in Nat
        /\ Bytes(left) =< Bytes(NoOlder(l, newest))
    BY <1>1, <2>2, <2>3, <2>4, BytesOf
  <2>7. QED
    BY <1>1, <1>2, <1>3, <2>5, <2>6, LettersConstants
<1>6. QED
  BY <1>4, <1>5

(* A pruning of a table as large as the accounts say keeps the invariant.   *)
LEMMA PruneKeeps ==
  ASSUME NEW table \in SUBSET Letters, IsFiniteSet(table), Prune(table), LettersTypeOK,
         inserted' \in 0..MaxInserted, UNCHANGED <<time, before>>,
         inserted' + before = evicted + Cardinality(table),
         \A l \in table : l.id =< inserted' + before,
         \A l, m \in table : l.id = m.id => l = m
  PROVE  LettersInv'
<1>1. letters' = Pruned(table) /\ evicted' = evicted + Cardinality(table) - Cardinality(letters')
  BY DEF Prune
<1>2. /\ letters' \subseteq table /\ IsFiniteSet(letters')
      /\ Cardinality(letters') =< MaxRecords /\ Bytes(letters') =< MaxBytes
  BY <1>1, PrunedFits
<1>3. /\ Cardinality(letters') \in Nat /\ Cardinality(table) \in Nat
      /\ Cardinality(letters') =< Cardinality(table)
  BY <1>2, FS_Subset, FS_CardinalityType
<1>4. time' \in 0..MaxTime /\ before' \in {0, 1} /\ before' = before
      /\ evicted \in 0..MaxInserted + 1
  BY DEF LettersTypeOK
<1>5. inserted' + before' = evicted' + Cardinality(letters') /\ evicted' \in 0..MaxInserted + 1
  BY <1>1, <1>3, <1>4, LettersConstants
<1>6. LettersTypeOK'
  BY <1>2, <1>4, <1>5 DEF LettersTypeOK
<1>7. LettersAddUp'
  BY <1>2, <1>5 DEF LettersAddUp
<1>8. QED
  BY <1>2, <1>4, <1>6, <1>7 DEF LettersInv

LEMMA RecordStep ==
  ASSUME LettersInv, NEW bytes \in ExcerptSizes, RecordDeadLetter(bytes)
  PROVE  LettersInv'
<1> DEFINE new == [id |-> NextId, recorded_at |-> time, bytes |-> bytes, raw |-> FALSE]
           table == letters \union {new}
<1>1. /\ inserted < MaxInserted /\ inserted' = inserted + 1 /\ Prune(table)
      /\ UNCHANGED <<time, before>>
  BY DEF RecordDeadLetter
<1>2. LettersTypeOK /\ IsFiniteSet(letters) /\ NextId = 1 + inserted + before
  BY DEF LettersInv, NextId
<1>3. NextId \in 1..MaxInserted + 1 /\ inserted' \in 0..MaxInserted
      /\ inserted \in Nat /\ before \in Nat /\ evicted \in Nat
  BY <1>1, <1>2, LettersConstants DEF LettersTypeOK
<1>4. new \in Letters /\ new.id = NextId
  BY <1>2, <1>3 DEF Letters, LettersTypeOK
<1> HIDE DEF new
<1>5. \A l \in letters : l.id \in Nat /\ l.id =< inserted + before
  BY <1>2, LetterType DEF LettersInv, LettersTypeOK
<1>6. new \notin letters
  BY <1>2, <1>3, <1>4, <1>5
<1>7. table \subseteq Letters /\ IsFiniteSet(table) /\ Cardinality(table) = Cardinality(letters) + 1
      /\ Cardinality(letters) \in Nat
  BY <1>2, <1>4, <1>6, FS_AddElement, FS_CardinalityType DEF LettersTypeOK
<1>8. inserted' + before = evicted + Cardinality(table)
  BY <1>1, <1>3, <1>7 DEF LettersInv, LettersAddUp
<1>9. \A l \in table : l.id =< inserted' + before
  BY <1>1, <1>2, <1>3, <1>4, <1>5
<1>10. \A l, m \in table : l.id = m.id => l = m
  BY <1>2, <1>3, <1>4, <1>5 DEF LettersInv
<1> HIDE DEF table
<1>11. QED
  BY <1>1, <1>2, <1>3, <1>7, <1>8, <1>9, <1>10, PruneKeeps

LEMMA OpenStep ==
  ASSUME LettersInv, OpenStore
  PROVE  LettersInv'
<1> DEFINE Cut(l) == [l EXCEPT !.raw = FALSE]
           table == {Cut(l) : l \in letters}
           f == [l \in letters |-> Cut(l)]
<1>1. Prune(table) /\ UNCHANGED <<time, inserted, before>>
  BY DEF OpenStore
<1>2. LettersTypeOK /\ IsFiniteSet(letters) /\ letters \subseteq Letters
  BY DEF LettersInv, LettersTypeOK
<1>3. \A l \in letters : Cut(l) \in Letters /\ Cut(l).id = l.id
  BY <1>2 DEF Letters
<1> HIDE DEF Cut
<1>4. table \subseteq Letters
  BY <1>3
<1>5. f \in Bijection(letters, table)
  <2>1. f \in [letters -> table] /\ \A t \in table : \E l \in letters : f[l] = t
    OBVIOUS
  <2>2. \A l, m \in letters : f[l] = f[m] => l = m
    BY <1>3 DEF LettersInv
  <2> HIDE DEF f, table
  <2>3. QED
    BY <2>1, <2>2 DEF Bijection, Injection, Surjection, IsInjective
<1>6. IsFiniteSet(table) /\ Cardinality(table) = Cardinality(letters)
  BY <1>2, <1>5, FS_Bijection DEF ExistsBijection
<1>7. inserted' \in 0..MaxInserted /\ inserted' + before = evicted + Cardinality(table)
  BY <1>1, <1>2, <1>6 DEF LettersInv, LettersTypeOK, LettersAddUp
<1>8. /\ \A l \in table : l.id =< inserted' + before
      /\ \A l, m \in table : l.id = m.id => l = m
  BY <1>1, <1>3 DEF LettersInv
<1> HIDE DEF table
<1>9. QED
  BY <1>1, <1>2, <1>4, <1>6, <1>7, <1>8, PruneKeeps

LEMMA LettersInitially == LettersInit => LettersInv
<1> SUFFICES ASSUME LettersInit PROVE LettersInv
  OBVIOUS
<1>1. time = 0 /\ inserted = 0 /\ evicted = 0 /\ before \in {0, 1}
  BY DEF LettersInit
<1>2. CASE letters = {} /\ before = 0
  <2>1. IsFiniteSet(letters) /\ Cardinality(letters) = 0
    BY <1>2, FS_EmptySet
  <2>2. Bytes(letters) = 0
    BY <1>2, NothingHasNoBytes
  <2>3. QED
    BY <1>1, <1>2, <2>1, <2>2, LettersConstants DEF LettersInv, LettersTypeOK, LettersAddUp
<1>3. CASE \E l \in Letters : l.id = 1 /\ l.raw /\ letters = {l} /\ before = 1
  <2>1. PICK l \in Letters : l.id = 1 /\ l.raw /\ letters = {l} /\ before = 1
    BY <1>3
  <2>2. IsFiniteSet(letters) /\ Cardinality(letters) = 1
    BY <2>1, FS_Singleton
  <2>3. QED
    BY <1>1, <2>1, <2>2, LettersConstants DEF LettersInv, LettersTypeOK, LettersAddUp
<1>4. QED
  BY <1>2, <1>3 DEF LettersInit

LEMMA SpecLettersInv == LettersSpec => []LettersInv
<1>1. LettersInv /\ [LettersNext]_letterVars => LettersInv'
  <2> SUFFICES ASSUME LettersInv, [LettersNext]_letterVars PROVE LettersInv'
    OBVIOUS
  <2>1. CASE SetClock \/ UNCHANGED letterVars
    <3>1. time' \in 0..MaxTime /\ UNCHANGED <<letters, inserted, evicted, before>>
      BY <2>1 DEF SetClock, letterVars, LettersInv, LettersTypeOK
    <3>2. QED
      BY <3>1 DEF LettersInv, LettersTypeOK, LettersAddUp
  <2>2. QED
    BY <2>1, OpenStep, RecordStep DEF LettersNext
<1>2. QED
  BY <1>1, LettersInitially, PTL DEF LettersSpec

(* The dead letters, the counters and the clock have their types.           *)
THEOREM LettersTypeCorrect == LettersSpec => []LettersTypeOK
<1>1. LettersInv => LettersTypeOK
  BY DEF LettersInv
<1>2. QED
  BY SpecLettersInv, <1>1, PTL

(* For every limit, and however the clock moves: every line recorded is     *)
(* kept or counted as evicted, and the table stays within its limits.       *)
THEOREM LettersAreAccountedFor == LettersSpec => []LettersAddUp
<1>1. LettersInv => LettersAddUp
  BY DEF LettersInv
<1>2. QED
  BY SpecLettersInv, <1>1, PTL

=================================================================================
