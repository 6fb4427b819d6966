------------------------------ MODULE ResponseApi ------------------------------
(***************************************************************************)
(* The response engine of the backend: the tables                          *)
(* response_recommendations, response_executions and response_audit_events *)
(* and the HTTP handlers of backend/src/porygon_api/main.py that change    *)
(* them, together with the incident status they depend on.                 *)
(*                                                                         *)
(* Handlers run in a thread pool on PostgreSQL at READ COMMITTED.  Every   *)
(* one of them reads its row with db.get (no lock, no version column),     *)
(* checks it, assigns attributes and commits.  SQLAlchemy then writes the  *)
(* columns whose value differs from the one that was LOADED.  A handler is *)
(* therefore two steps of a worker: a Read step that opens txns[w] with    *)
(* the row as loaded (seen) and as it should be (new), and a Commit step   *)
(* that flushes the difference into whatever the row has become.  A        *)
(* request the Read step refuses changes nothing and is not a step.  Only  *)
(* the claim handler locks its row (FOR UPDATE SKIP LOCKED); it is one     *)
(* step.                                                                   *)
(*                                                                         *)
(* A recommendation is identified by its recommendation_key, that is by    *)
(* incident and target; an execution by its recommendation, because of     *)
(* uq_response_executions_recommendation.                                  *)
(***************************************************************************)
EXTENDS ResponsePolicy

CONSTANTS
  Incidents,        (* incident ids                                           *)
  Recommendations,  (* recommendation keys: one per incident and target       *)
  IncidentOf,       (* [Recommendations -> Incidents]                         *)
  EvidenceOf,       (* [Recommendations -> Evidence]: what the incident showed *)
                    (* when the recommendation was generated                  *)
  TargetOf,         (* [Recommendations -> container ids and NoTarget]        *)
  NoTarget,         (* target_container_id is NULL                            *)
  Executors,        (* executor_instance_id values of the responders          *)
  NoExecutor,       (* executor_instance_id is NULL                           *)
  NoAction,         (* approved_action is NULL                                *)
  NoError,          (* error_code is NULL                                     *)
  ReportedCodes,    (* the error codes the responders may report              *)
  Workers,          (* handlers the backend may be running at one time        *)
  MaxAttempts       (* bound: an attempt of this number is neither lost nor   *)
                    (* retried.  The code has no such bound                   *)

ErrorCodes ==
  {"docker_unavailable", "docker_api_error", "executor_internal_error",
   "missing_target", "container_not_found", "protected_target", "invalid_request"}

(* Mutant: an attempt the executor could not account for is final.          *)
RetryableDockerCodes == {"docker_unavailable", "docker_api_error"}

(* The codes a failed action may be retried after.                          *)
RetryableCodes == {"docker_unavailable", "docker_api_error", "executor_internal_error"}

ASSUME ConstantsAssumption ==
  /\ EvidenceOf \in [Recommendations -> Evidence]
  /\ IncidentOf \in [Recommendations -> Incidents]
  /\ DOMAIN TargetOf = Recommendations
  /\ NoExecutor \notin Executors
  /\ NoAction \notin Actions
  /\ NoError \notin ErrorCodes
  /\ ReportedCodes \subseteq ErrorCodes
  /\ MaxAttempts \in Nat

VARIABLES
  incidents,   (* [Incidents -> status]                                       *)
  recs,        (* response_recommendations                                    *)
  execs,       (* response_executions                                         *)
  audit,       (* event types in response_audit_events, per recommendation    *)
  txns,        (* [Workers -> open transaction or Idle]                       *)
  claims,      (* claim responses handed out and not yet completed or lost    *)
  mode,        (* PORYGON_RESPONSE_EXECUTION_MODE of the running backend      *)
  clock        (* orders created_at and rollback_requested_at                 *)

vars == <<incidents, recs, execs, audit, txns, claims, mode, clock>>

-------------------------------------------------------------------------------
(* Rows. *)

ActiveIncident == {"open", "acknowledged"}
IncidentStatus == ActiveIncident \union {"resolved", "dismissed"}

(* "aged" abstracts created_at: it is older than                            *)
(* response_approval_max_age_seconds.                                       *)
RecommendationRow ==
  [status : {"absent", "proposed", "approved", "rejected"},
   approved_action : Actions \union {NoAction},
   aged : BOOLEAN]

Terminal == {"succeeded", "failed", "rolled_back", "rollback_failed"}
Claimed  == {"claimed", "rollback_claimed"}
Queued   == {"pending", "rollback_pending"}

(* "lease" abstracts lease_expires_at: NULL, in the future, in the past.    *)
ExecutionRow ==
  [status : {"absent"} \union Queued \union Claimed \union Terminal,
   action_type : Actions \union {NoAction},
   executor : Executors \union {NoExecutor},
   lease : {"none", "running", "expired"},
   attempt_count : Nat,
   error_code : ErrorCodes \union {NoError},
   created_at : Nat,
   rollback_requested_at : Nat]

Operations == {"execute", "rollback"}

(* What the claim endpoint returned to a responder, which the responder     *)
(* answers with at most one completion.                                     *)
Claim == [rec : Recommendations, executor : Executors, operation : Operations,
          attempt : Nat]

Outcomes == {NoError} \union ReportedCodes    \* NoError: success=True

EventTypes ==
  {"recommendation_created", "recommendation_approved", "recommendation_rejected",
   "execute_claimed", "execute_succeeded", "execute_failed",
   "rollback_requested", "rollback_claimed", "rollback_succeeded", "rollback_failed",
   "execution_retry_requested"}

GenerateTxn  == [op : {"generate"}, incident : Incidents, new : SUBSET Recommendations]
DecisionTxn  == [op : {"approve", "reject"}, rec : Recommendations,
                 seen : RecommendationRow, new : RecommendationRow]
ExecutionTxn == [op : {"complete", "rollback", "retry"}, rec : Recommendations,
                 seen : ExecutionRow, new : ExecutionRow, event : EventTypes]
IncidentTxn  == [op : {"incident"}, incident : Incidents, new : IncidentStatus]
Idle         == [op |-> "idle"]
Transaction  == GenerateTxn \union DecisionTxn \union ExecutionTxn \union IncidentTxn

AbsentRecommendation ==
  [status |-> "absent", approved_action |-> NoAction, aged |-> FALSE]

NewRecommendation == [AbsentRecommendation EXCEPT !.status = "proposed"]

AbsentExecution ==
  [status |-> "absent", action_type |-> NoAction, executor |-> NoExecutor,
   lease |-> "none", attempt_count |-> 0, error_code |-> NoError,
   created_at |-> 0, rollback_requested_at |-> 0]

TypeOK ==
  /\ incidents \in [Incidents -> IncidentStatus]
  /\ recs \in [Recommendations -> RecommendationRow]
  /\ execs \in [Recommendations -> ExecutionRow]
  /\ audit \in [Recommendations -> SUBSET EventTypes]
  /\ txns \in [Workers -> Transaction \union {Idle}]
  /\ claims \subseteq Claim
  /\ mode \in {"disabled", "live"}
  /\ clock \in Nat

(* Mutant: every column is written, as without dirty tracking.              *)
FlushRow(seen, new, current) == new

(* The ORM writes the changed columns only.                                 *)
Flush(seen, new, current) ==
  [c \in DOMAIN current |-> IF new[c] # seen[c] THEN new[c] ELSE current[c]]

HasTarget(r) == TargetOf[r] # NoTarget

AllowedActions(r) ==
  allowed_actions_for_incident(EvidenceOf[r], HasTarget(r))

Present(r) == execs[r].status # "absent"

Init ==
  /\ incidents = [i \in Incidents |-> "open"]
  /\ recs = [r \in Recommendations |-> AbsentRecommendation]
  /\ execs = [r \in Recommendations |-> AbsentExecution]
  /\ audit = [r \in Recommendations |-> {}]
  /\ txns = [w \in Workers |-> Idle]
  /\ claims = {}
  /\ mode \in {"disabled", "live"}
  /\ clock = 1

-------------------------------------------------------------------------------
(* Operator and analyst requests. *)

Open(w, t) == txns[w] = Idle /\ txns' = [txns EXCEPT ![w] = t]
Close(w) == txns' = [txns EXCEPT ![w] = Idle]
Log(r, event) == audit' = [audit EXCEPT ![r] = @ \union {event}]

(* generate_response_recommendations: one row per target that has none yet; *)
(* an existing row is returned as it is, whatever its status or age.        *)
GenerateRead(w, i) ==
  /\ incidents[i] \in ActiveIncident
  /\ LET missing == {r \in Recommendations :
                       IncidentOf[r] = i /\ recs[r].status = "absent"}
     IN  Open(w, [op |-> "generate", incident |-> i, new |-> missing])
  /\ UNCHANGED <<incidents, recs, execs, audit, claims, mode, clock>>

(* recommendation_key is unique: if another request inserted one of the     *)
(* rows meanwhile, the whole transaction is rolled back.                    *)
CommitGenerate(w) ==
  /\ txns[w].op = "generate"
  /\ LET inserted == IF \A r \in txns[w].new : recs[r].status = "absent"
                     THEN txns[w].new ELSE {}
     IN  /\ recs' = [r \in Recommendations |->
                       IF r \in inserted THEN NewRecommendation ELSE recs[r]]
         /\ audit' = [r \in Recommendations |->
                        IF r \in inserted THEN audit[r] \union {"recommendation_created"}
                        ELSE audit[r]]
  /\ Close(w)
  /\ UNCHANGED <<incidents, execs, claims, mode, clock>>

(* Mutant: the requested action is not compared with the allowed ones.      *)
ApproveAnyAction(w, r, a) ==
  /\ recs[r].status \notin {"absent", "rejected"}
  /\ ~Present(r)
  /\ incidents[IncidentOf[r]] \in ActiveIncident
  /\ a \in Disruptive => HasTarget(r)
  /\ ~recs[r].aged
  /\ Open(w, [op |-> "approve", rec |-> r, seen |-> recs[r],
              new |-> [recs[r] EXCEPT !.status = "approved", !.approved_action = a]])
  /\ UNCHANGED <<incidents, recs, execs, audit, claims, mode, clock>>

(* approve_response_recommendation, with the acknowledgement the action     *)
(* needs.  A recommendation that has an execution is not approved again.    *)
ApproveRead(w, r, a) ==
  /\ recs[r].status \notin {"absent", "rejected"}
  /\ ~Present(r)
  /\ incidents[IncidentOf[r]] \in ActiveIncident
  /\ a \in AllowedActions(r)
  /\ a \in Disruptive => HasTarget(r)
  /\ ~recs[r].aged
  /\ Open(w, [op |-> "approve", rec |-> r, seen |-> recs[r],
              new |-> [recs[r] EXCEPT !.status = "approved", !.approved_action = a]])
  /\ UNCHANGED <<incidents, recs, execs, audit, claims, mode, clock>>

(* Mutant: the table has no unique constraint.                              *)
NothingIsDuplicate(r) == FALSE

(* recommendation_id is unique in response_executions.                      *)
Duplicate(r) == Present(r)

(* A duplicate INSERT fails, and the UPDATE of the recommendation with it.  *)
CommitApprove(w) ==
  LET t == txns[w] IN
  /\ t.op = "approve"
  /\ \/ /\ Duplicate(t.rec)
        /\ UNCHANGED <<recs, execs, audit, clock>>
     \/ /\ ~Duplicate(t.rec)
        /\ recs' = [recs EXCEPT ![t.rec] = Flush(t.seen, t.new, @)]
        /\ execs' = [execs EXCEPT ![t.rec] =
                       [AbsentExecution EXCEPT !.status = "pending",
                                               !.action_type = t.new.approved_action,
                                               !.created_at = clock]]
        /\ Log(t.rec, "recommendation_approved")
        /\ clock' = clock + 1
  /\ Close(w)
  /\ UNCHANGED <<incidents, claims, mode>>

(* Mutant: an approved recommendation may be rejected.                      *)
RejectEvenApproved(w, r) ==
  /\ recs[r].status \notin {"absent", "rejected"}
  /\ Open(w, [op |-> "reject", rec |-> r, seen |-> recs[r],
              new |-> [recs[r] EXCEPT !.status = "rejected"]])
  /\ UNCHANGED <<incidents, recs, execs, audit, claims, mode, clock>>

(* reject_response_recommendation                                           *)
RejectRead(w, r) ==
  /\ recs[r].status = "proposed"
  /\ Open(w, [op |-> "reject", rec |-> r, seen |-> recs[r],
              new |-> [recs[r] EXCEPT !.status = "rejected"]])
  /\ UNCHANGED <<incidents, recs, execs, audit, claims, mode, clock>>

CommitReject(w) ==
  LET t == txns[w] IN
  /\ t.op = "reject"
  /\ recs' = [recs EXCEPT ![t.rec] = Flush(t.seen, t.new, @)]
  /\ Log(t.rec, "recommendation_rejected")
  /\ Close(w)
  /\ UNCHANGED <<incidents, execs, claims, mode, clock>>

(* Mutant: a failed action may be rolled back too.                          *)
RollbackEvenFailed(w, r) ==
  /\ execs[r].status \in {"succeeded", "failed"}
  /\ execs[r].action_type # "observe_only"
  /\ Open(w, [op |-> "rollback", rec |-> r, seen |-> execs[r],
              new |-> [execs[r] EXCEPT !.status = "rollback_pending",
                                       !.rollback_requested_at = clock],
              event |-> "rollback_requested"])
  /\ UNCHANGED <<incidents, recs, execs, audit, claims, mode, clock>>

(* request_response_rollback, with the acknowledgement stop_container needs *)
RollbackRead(w, r) ==
  /\ execs[r].status = "succeeded"
  /\ execs[r].action_type # "observe_only"
  /\ Open(w, [op |-> "rollback", rec |-> r, seen |-> execs[r],
              new |-> [execs[r] EXCEPT !.status = "rollback_pending",
                                       !.rollback_requested_at = clock],
              event |-> "rollback_requested"])
  /\ UNCHANGED <<incidents, recs, execs, audit, claims, mode, clock>>

(* retry_response_execution, with acknowledge_retry=true *)
RetryRead(w, r) ==
  /\ execs[r].status \in {"failed", "rollback_failed"}
  /\ execs[r].error_code \in RetryableCodes
  /\ execs[r].attempt_count < MaxAttempts
  /\ Open(w, [op |-> "retry", rec |-> r, seen |-> execs[r],
              new |-> [execs[r] EXCEPT
                         !.status = IF @ = "failed" THEN "pending" ELSE "rollback_pending",
                         !.executor = NoExecutor,
                         !.lease = "none",
                         !.error_code = NoError],
              event |-> "execution_retry_requested"])
  /\ UNCHANGED <<incidents, recs, execs, audit, claims, mode, clock>>

(* update_incident_status *)
Transitions ==
  [open |-> {"acknowledged", "resolved", "dismissed"},
   acknowledged |-> {"resolved", "dismissed"},
   resolved |-> {},
   dismissed |-> {}]

IncidentRead(w, i, s) ==
  /\ s \in Transitions[incidents[i]]
  /\ Open(w, [op |-> "incident", incident |-> i, new |-> s])
  /\ UNCHANGED <<incidents, recs, execs, audit, claims, mode, clock>>

CommitIncident(w) ==
  /\ txns[w].op = "incident"
  /\ incidents' = [incidents EXCEPT ![txns[w].incident] = txns[w].new]
  /\ Close(w)
  /\ UNCHANGED <<recs, execs, audit, claims, mode, clock>>

-------------------------------------------------------------------------------
(* Responder requests. *)

(* Mutants: a requeue that forgets one of the two phases, or turns a lost   *)
(* action into a rollback.                                                  *)
RequeueActions     == [claimed |-> "pending"]
RequeueRollbacks   == [rollback_claimed |-> "rollback_pending"]
RequeueAsRollback  == [claimed |-> "rollback_pending", rollback_claimed |-> "rollback_pending"]

(* The status an expired claim goes back to.                                *)
Requeue == [claimed |-> "pending", rollback_claimed |-> "rollback_pending"]

(* _requeue_expired_response_claims                                         *)
Requeued(r) ==
  IF execs[r].status \in DOMAIN Requeue /\ execs[r].lease = "expired"
  THEN [execs[r] EXCEPT !.status = Requeue[@],
                        !.executor = NoExecutor,
                        !.lease = "none"]
  ELSE execs[r]

(* rollback_requested_at first, created_at second *)
NoLaterRollback(p, q) ==
  \/ p.rollback_requested_at < q.rollback_requested_at
  \/ /\ p.rollback_requested_at = q.rollback_requested_at
     /\ p.created_at <= q.created_at

(* Mutant: the execution mode is not consulted.                             *)
AnyModeAllows(r) == TRUE

(* Only observe_only is claimable unless the backend runs in live mode.     *)
ModeAllows(r) == mode # "live" => execs[r].action_type = "observe_only"

(* A row whose handler has flushed and not yet committed is locked, and the *)
(* claim passes it over (SKIP LOCKED).                                      *)
MayBeLocked(r) ==
  \E w \in Workers :
    txns[w].op \in {"complete", "rollback", "retry"} /\ txns[w].rec = r

RequestedRollbacks == {r \in Recommendations : Requeued(r).status = "rollback_pending"}
PendingActions ==
  {r \in Recommendations : Requeued(r).status = "pending" /\ ModeAllows(r)}

(* The rows the claim handler may take: the oldest requested rollback, and  *)
(* only when there is none, the oldest pending action the mode allows.      *)
Claimable(r) ==
  \/ /\ r \in RequestedRollbacks
     /\ \A q \in RequestedRollbacks : MayBeLocked(q) \/ NoLaterRollback(execs[r], execs[q])
  \/ /\ \A q \in RequestedRollbacks : MayBeLocked(q)
     /\ r \in PendingActions
     /\ \A q \in PendingActions :
          MayBeLocked(q) \/ execs[r].created_at <= execs[q].created_at

OperationOn(r) == IF Requeued(r).status = "rollback_pending" THEN "rollback" ELSE "execute"

(* claim_response_execution, when there is something to claim.              *)
ClaimExecution(x, r) ==
  /\ Claimable(r)
  /\ LET operation == OperationOn(r)
         attempt == execs[r].attempt_count + 1
     IN  /\ execs' = [q \in Recommendations |->
                        IF q = r
                        THEN [Requeued(r) EXCEPT
                                !.status = IF operation = "execute" THEN "claimed"
                                           ELSE "rollback_claimed",
                                !.executor = x,
                                !.lease = "running",
                                !.attempt_count = attempt]
                        ELSE Requeued(q)]
         /\ Log(r, IF operation = "execute" THEN "execute_claimed" ELSE "rollback_claimed")
         /\ claims' = claims \union {[rec |-> r, executor |-> x,
                                      operation |-> operation, attempt |-> attempt]}
  /\ UNCHANGED <<incidents, recs, txns, mode, clock>>

(* claim_response_execution, when there is nothing to claim or all of it is *)
(* locked: the requeued rows are committed all the same.                    *)
ClaimNothing ==
  /\ \A r \in RequestedRollbacks \union PendingActions : MayBeLocked(r)
  /\ execs' = [r \in Recommendations |-> Requeued(r)]
  /\ UNCHANGED <<incidents, recs, audit, txns, claims, mode, clock>>

(* The status an operation ends in, and the audit event of its completion.  *)
OutcomeStatus(operation, success) ==
  IF operation = "execute"
  THEN IF success THEN "succeeded" ELSE "failed"
  ELSE IF success THEN "rolled_back" ELSE "rollback_failed"

OutcomeEvent(operation, success) ==
  IF operation = "execute"
  THEN IF success THEN "execute_succeeded" ELSE "execute_failed"
  ELSE IF success THEN "rollback_succeeded" ELSE "rollback_failed"

(* complete_response_execution.  The request names the executor but neither *)
(* the operation nor the attempt it answers: the operation is taken from    *)
(* the row.                                                                 *)
CompleteRead(w, c, outcome) ==
  /\ c \in claims
  /\ claims' = claims \ {c}
  /\ execs[c.rec].status \in Claimed
  /\ execs[c.rec].executor = c.executor
  /\ LET row == execs[c.rec]
         operation == IF row.status = "rollback_claimed" THEN "rollback" ELSE "execute"
         success == outcome = NoError
     IN  Open(w, [op |-> "complete", rec |-> c.rec, seen |-> row,
                  new |-> [row EXCEPT !.status = OutcomeStatus(operation, success),
                                      !.lease = "none",
                                      !.error_code = outcome],
                  event |-> OutcomeEvent(operation, success)])
  /\ UNCHANGED <<incidents, recs, execs, audit, mode, clock>>

(* A claim response or a completion that never arrives (connection lost,    *)
(* responder gone), or a completion that is answered without a change: the  *)
(* execution is already completed (200), not claimed (409) or claimed by    *)
(* another executor (409).                                                  *)
DropClaim(c) ==
  /\ c \in claims
  /\ claims' = claims \ {c}
  /\ UNCHANGED <<incidents, recs, execs, audit, txns, mode, clock>>

(* The commit of complete, rollback and retry. *)
CommitExecution(w) ==
  LET t == txns[w] IN
  /\ t.op \in {"complete", "rollback", "retry"}
  /\ execs' = [execs EXCEPT ![t.rec] = Flush(t.seen, t.new, @)]
  /\ Log(t.rec, t.event)
  /\ clock' = IF t.op = "rollback" THEN clock + 1 ELSE clock
  /\ Close(w)
  /\ UNCHANGED <<incidents, recs, claims, mode>>

-------------------------------------------------------------------------------
(* Time and restarts. *)

LeaseExpires(r) ==
  /\ execs[r].lease = "running"
  /\ execs[r].attempt_count < MaxAttempts
  /\ execs' = [execs EXCEPT ![r].lease = "expired"]
  /\ UNCHANGED <<incidents, recs, audit, txns, claims, mode, clock>>

RecommendationAges(r) ==
  /\ recs[r].status # "absent" /\ ~recs[r].aged
  /\ recs' = [recs EXCEPT ![r].aged = TRUE]
  /\ UNCHANGED <<incidents, execs, audit, txns, claims, mode, clock>>

(* The backend stops, which rolls back every open transaction, and starts   *)
(* again with a possibly different execution mode.                          *)
RestartBackend(m) ==
  /\ txns' = [w \in Workers |-> Idle]
  /\ mode' = m
  /\ UNCHANGED <<incidents, recs, execs, audit, claims, clock>>

OperatorRequest(w) ==
  \/ \E i \in Incidents :
       GenerateRead(w, i) \/ \E s \in IncidentStatus : IncidentRead(w, i, s)
  \/ \E r \in Recommendations :
       \/ \E a \in Actions : ApproveRead(w, r, a)
       \/ RejectRead(w, r)
       \/ RollbackRead(w, r)
       \/ RetryRead(w, r)

Commit(w) ==
  \/ CommitGenerate(w) \/ CommitApprove(w) \/ CommitReject(w)
  \/ CommitExecution(w) \/ CommitIncident(w)

ResponderRequest ==
  \/ \E x \in Executors, r \in Recommendations : ClaimExecution(x, r)
  \/ ClaimNothing
  \/ \E w \in Workers, c \in claims, outcome \in Outcomes : CompleteRead(w, c, outcome)
  \/ \E c \in claims : DropClaim(c)

Passing == \E r \in Recommendations : LeaseExpires(r) \/ RecommendationAges(r)

Next ==
  \/ \E w \in Workers : OperatorRequest(w) \/ Commit(w)
  \/ ResponderRequest
  \/ Passing
  \/ \E m \in {"disabled", "live"} : RestartBackend(m)

Spec == Init /\ [][Next]_vars

-------------------------------------------------------------------------------
(* Safety. *)

(* "No response action executes without an explicit human approval", and    *)
(* "The approved action must not exceed the policy's allowed action set"    *)
(* (response.py): every execution row carries the one action its            *)
(* recommendation was approved for, the policy allows it, an approval is    *)
(* in the audit trail, and a disruptive one has a container to act on.      *)
(* Approvals, rejections and retries race on the two rows.                  *)
AuthorizedExecution ==
  \A r \in Recommendations :
    Present(r) =>
      /\ execs[r].action_type \in AllowedActions(r)
      /\ execs[r].action_type = recs[r].approved_action
      /\ execs[r].action_type \in Disruptive => HasTarget(r)
      /\ {"recommendation_created", "recommendation_approved"} \subseteq audit[r]

(* A claimed row always carries an executor and a lease, so that the        *)
(* requeue of expired claims can free it: a claim without a lease would be  *)
(* stuck for ever.  Stale handlers clear both columns concurrently.         *)
ClaimIsRecoverable ==
  \A r \in Recommendations :
    execs[r].status \in Claimed =>
      execs[r].executor # NoExecutor /\ execs[r].lease # "none"

(* A claimed row belongs to the newest claim handed out for it: the         *)
(* outstanding claim with the row's attempt_count has the executor and the  *)
(* operation of the row, no claim is ahead of the row, none is for no row.  *)
ClaimMatchesRow ==
  \A c \in claims :
    /\ Present(c.rec)
    /\ c.attempt <= execs[c.rec].attempt_count
    /\ execs[c.rec].status \in Claimed /\ c.attempt = execs[c.rec].attempt_count =>
         /\ c.executor = execs[c.rec].executor
         /\ c.operation = IF execs[c.rec].status = "claimed" THEN "execute" ELSE "rollback"

(* Claims are leases: each can run out, and only the newest one of a row is *)
(* the row's.  (main.py, claim_response_execution and                       *)
(* complete_response_execution.)                                            *)
ClaimIsSound == ClaimIsRecoverable /\ ClaimMatchesRow

RollbackPhase == {"rollback_pending", "rollback_claimed", "rolled_back", "rollback_failed"}

(* The audit trail accounts for every status the tables show, although      *)
(* stale handlers may overwrite each other: "independently audited"         *)
(* (response.py), "complete audit evidence" (FINAL_PHASES.md).              *)
ExecutionExplained(status, events) ==
  /\ status \in {"claimed", "succeeded", "failed"} \union RollbackPhase
       => {"recommendation_approved", "execute_claimed"} \subseteq events
  /\ status = "failed" => "execute_failed" \in events
  /\ status \in {"succeeded"} \union RollbackPhase => "execute_succeeded" \in events
  /\ status \in RollbackPhase => "rollback_requested" \in events
  /\ status \in RollbackPhase \ {"rollback_pending"} => "rollback_claimed" \in events
  /\ status = "rolled_back" => "rollback_succeeded" \in events
  /\ status = "rollback_failed" => "rollback_failed" \in events

AuditExplainsStatus ==
  \A r \in Recommendations :
    /\ recs[r].status # "absent" <=> "recommendation_created" \in audit[r]
    /\ recs[r].status = "rejected" => "recommendation_rejected" \in audit[r]
    /\ ExecutionExplained(execs[r].status, audit[r])

(* "One idempotent execution per approved recommendation"                   *)
(* (FINAL_PHASES.md): once approved, an execution is never deleted or       *)
(* replaced and the approved action never changes, whatever is approved     *)
(* concurrently or later.                                                   *)
ApprovalIsBinding ==
  [][\A r \in Recommendations :
       Present(r) =>
         /\ execs'[r].action_type = execs[r].action_type
         /\ execs'[r].created_at = execs[r].created_at
         /\ recs'[r].approved_action = recs[r].approved_action]_vars

(* "Disruptive actions are claimable only in live execution mode"           *)
(* (main.py): an action the policy calls disruptive starts only while the   *)
(* backend runs in live mode, and starts only from the queue.               *)
NoDisruptionWhileDisabled ==
  [][\A r \in Recommendations :
       /\ execs'[r].status = "claimed"
       /\ execs'[r].attempt_count # execs[r].attempt_count
       /\ execs[r].action_type \in Disruptive
       => mode = "live" /\ execs[r].status \in {"pending", "claimed"}]_vars

-------------------------------------------------------------------------------
(* What the invariants rest on: an open transaction carries, in the columns *)
(* it will write, everything that must hold once it commits, however much   *)
(* the row has changed since it was read.                                   *)

TransactionSound(w) ==
  LET t == txns[w] IN
  /\ t.op = "approve" =>
       /\ t.seen.approved_action = NoAction
       /\ t.new.approved_action \in AllowedActions(t.rec)
       /\ t.new.status = "approved"
       /\ "recommendation_created" \in audit[t.rec]
  /\ t.op = "reject" =>
       /\ t.new.approved_action = t.seen.approved_action
       /\ t.new.status = "rejected"
       /\ "recommendation_created" \in audit[t.rec]
  /\ t.op \in {"complete", "rollback", "retry"} =>
       /\ Present(t.rec)
       /\ t.new.action_type = t.seen.action_type
       /\ t.new.created_at = t.seen.created_at
       /\ t.new.attempt_count = t.seen.attempt_count
       /\ t.new.status # t.seen.status
       /\ t.new.status \in Queued \union Terminal
       /\ ExecutionExplained(t.new.status, audit[t.rec] \union {t.event})

(* Approving sets approved_action and creates the execution in one commit.  *)
ApprovalHasExecution ==
  \A r \in Recommendations : recs[r].approved_action # NoAction => Present(r)

Inductive ==
  /\ TypeOK
  /\ AuthorizedExecution
  /\ ClaimIsRecoverable
  /\ ClaimMatchesRow
  /\ AuditExplainsStatus
  /\ ApprovalHasExecution
  /\ \A w \in Workers : TransactionSound(w)

-------------------------------------------------------------------------------
(* Refinement. *)

(* The life of an execution, and of a recommendation told from both tables. *)
ExecutionLife(row) ==
  CASE row.status = "failed" /\ row.error_code \notin RetryableCodes -> "abandoned"
    [] row.status = "rollback_failed" /\ row.error_code \notin RetryableCodes
         -> "rollback_abandoned"
    [] OTHER -> row.status

Life(r) ==
  IF ~Present(r) \/ recs[r].status = "rejected" THEN recs[r].status
  ELSE ExecutionLife(execs[r])

(* The move on r that an open transaction was decided to be.  A request for *)
(* the execution of a rejected recommendation moves nothing.                *)
MoveOf(t, r) ==
  CASE t.op = "generate" -> IF r \in t.new THEN {<<"absent", "proposed">>} ELSE {}
    [] t.op \in {"approve", "reject"} /\ t.rec = r
         -> {<<t.seen.status, IF t.op = "approve" THEN "pending" ELSE "rejected">>}
    [] t.op \in {"complete", "rollback", "retry"} /\ t.rec = r /\ recs[r].status # "rejected"
         -> {<<ExecutionLife(t.seen), ExecutionLife(t.new)>>}
    [] OTHER -> {}

Requests(r) == UNION {MoveOf(txns[w], r) : w \in Workers}

Lifecycle == INSTANCE ResponseLifecycle WITH
  life     <- [r \in Recommendations |-> Life(r)],
  requests <- [r \in Recommendations |-> Requests(r)]

(* The tables go through the life ResponseLifecycle promises, however many  *)
(* handlers run and whatever they overwrite.                                *)
LifecycleSpec == Lifecycle!Spec

(* "Approved recommendations cannot be rejected" and "Rejected              *)
(* recommendations cannot be approved" (main.py, reject_ and                *)
(* approve_response_recommendation): nothing is executed for a rejected     *)
(* recommendation.  The code does not keep this: both may have read the     *)
(* proposed row.                                                            *)
RejectedIsNotExecuted ==
  \A r \in Recommendations : recs[r].status = "rejected" => ~Present(r)

===============================================================================
