----------------------------- MODULE ResponseProofs -----------------------------
(***************************************************************************)
(* Proofs about ResponsePolicy, ResponseApi and ResponseEngine, for every  *)
(* set of incidents, recommendations, executors, containers and concurrent *)
(* handlers.  The first three parts are about the backend alone.  The last *)
(* is about the whole engine: its responders use the backend only in ways  *)
(* ResponseApi allows, so the theorems about ResponseApi hold of it too;   *)
(* what the responders do to the containers, and what the tables then say  *)
(* of it, is proved there.                                                 *)
(***************************************************************************)
EXTENDS ResponseEngine, TLAPS

-------------------------------------------------------------------------------
(* The policy, for every severity and confidence. *)

(* The thresholds are nested: whoever may stop a container may pause it.    *)
LEMMA StopImpliesPause ==
  ASSUME NEW e \in Evidence, StopAllowed(e)
  PROVE  PauseAllowed(e)
BY DEF Evidence, StopAllowed, PauseAllowed, StopMinSeverity, StopMinConfidence,
       PauseMinSeverity, PauseMinConfidence

(* The operator may always choose a less disruptive action than an allowed  *)
(* one ("Selected Less Disruptive Action", README.md): the policy never     *)
(* allows an action and forbids a milder one.                               *)
THEOREM LessDisruptiveIsAllowed ==
  ASSUME NEW e \in Evidence, NEW has_target \in BOOLEAN,
         NEW a \in allowed_actions_for_incident(e, has_target),
         NEW b \in Actions, ACTION_ORDER[b] <= ACTION_ORDER[a]
  PROVE  b \in allowed_actions_for_incident(e, has_target)
<1> DEFINE allowed == allowed_actions_for_incident(e, has_target)
<1>1. CASE b = "observe_only"
  BY <1>1 DEF allowed_actions_for_incident
<1>2. CASE b = "pause_container"
  <2>1. a \in Disruptive /\ has_target /\ (PauseAllowed(e) \/ StopAllowed(e))
    BY <1>2 DEF allowed_actions_for_incident, Disruptive, Actions, ACTION_ORDER
  <2>2. PauseAllowed(e)
    BY <2>1, StopImpliesPause
  <2>3. QED
    BY <1>2, <2>1, <2>2 DEF allowed_actions_for_incident, Disruptive, Actions
<1>3. CASE b = "stop_container"
  <2>1. a = "stop_container"
    BY <1>3 DEF allowed_actions_for_incident, Disruptive, Actions, ACTION_ORDER
  <2>2. QED
    BY <1>3, <2>1
<1>4. QED
  BY <1>1, <1>2, <1>3 DEF Actions

(* max() over the allowed actions exists and is one of them.                *)
THEOREM RecommendedIsAllowed ==
  ASSUME NEW e \in Evidence, NEW has_target \in BOOLEAN,
         NEW allowed, allowed = allowed_actions_for_incident(e, has_target)
  PROVE  /\ recommended_action(allowed) \in allowed
         /\ \A a \in allowed : ACTION_ORDER[a] <= ACTION_ORDER[recommended_action(allowed)]
<1>1. allowed \subseteq Actions /\ "observe_only" \in allowed
  BY DEF allowed_actions_for_incident, Disruptive, Actions
<1>2. \A a \in Actions : ACTION_ORDER[a] \in 0..2
  BY DEF Actions, ACTION_ORDER
<1>3. \E a \in allowed : \A b \in allowed : ACTION_ORDER[b] <= ACTION_ORDER[a]
  <2>1. CASE "stop_container" \in allowed
    BY <1>1, <1>2, <2>1 DEF Actions, ACTION_ORDER
  <2>2. CASE "stop_container" \notin allowed /\ "pause_container" \in allowed
    BY <1>1, <1>2, <2>2 DEF Actions, ACTION_ORDER
  <2>3. CASE "stop_container" \notin allowed /\ "pause_container" \notin allowed
    BY <1>1, <1>2, <2>3 DEF Actions, ACTION_ORDER
  <2>4. QED
    BY <2>1, <2>2, <2>3
<1>4. QED
  BY <1>3 DEF recommended_action

-------------------------------------------------------------------------------
(* Type correctness. *)

(* An open transaction is of the kind its op says.                          *)
LEMMA TransactionKinds ==
  ASSUME NEW t \in Transaction \union {Idle}
  PROVE  /\ t.op = "generate" => t \in GenerateTxn
         /\ t.op \in {"approve", "reject"} => t \in DecisionTxn
         /\ t.op \in {"complete", "rollback", "retry"} => t \in ExecutionTxn
         /\ t.op = "incident" => t \in IncidentTxn
BY DEF Transaction, Idle, GenerateTxn, DecisionTxn, ExecutionTxn, IncidentTxn

(* Writing the changed columns of a row into a row gives a row.             *)
LEMMA FlushRecommendation ==
  ASSUME NEW seen \in RecommendationRow, NEW new \in RecommendationRow,
         NEW current \in RecommendationRow
  PROVE  Flush(seen, new, current) \in RecommendationRow
BY DEF Flush, RecommendationRow

LEMMA FlushExecution ==
  ASSUME NEW seen \in ExecutionRow, NEW new \in ExecutionRow,
         NEW current \in ExecutionRow
  PROVE  Flush(seen, new, current) \in ExecutionRow
BY DEF Flush, ExecutionRow

(* Requeueing an expired claim keeps the row a row.                         *)
LEMMA RequeuedType ==
  ASSUME TypeOK, NEW r \in Recommendations
  PROVE  Requeued(r) \in ExecutionRow
<1>1. execs[r] \in ExecutionRow
  BY DEF TypeOK
<1>2. DOMAIN Requeue = Claimed /\ \A s \in Claimed : Requeue[s] \in Queued
  BY DEF Requeue, Claimed, Queued
<1>3. QED
  BY <1>1, <1>2 DEF Requeued, ExecutionRow

(* The rows a claim and a completion write are rows.                        *)
LEMMA ClaimedRow ==
  ASSUME NEW row \in ExecutionRow, NEW s \in Claimed, NEW x \in Executors, NEW n \in Nat
  PROVE  [row EXCEPT !.status = s, !.executor = x, !.lease = "running",
                     !.attempt_count = n] \in ExecutionRow
BY DEF ExecutionRow

LEMMA CompletedRow ==
  ASSUME NEW row \in ExecutionRow, NEW s \in Terminal,
         NEW e \in ErrorCodes \union {NoError}
  PROVE  [row EXCEPT !.status = s, !.lease = "none", !.error_code = e] \in ExecutionRow
BY DEF ExecutionRow

LEMMA ExpiredRow ==
  ASSUME NEW row \in ExecutionRow
  PROVE  [row EXCEPT !.lease = "expired"] \in ExecutionRow
BY DEF ExecutionRow

LEMMA RollbackRow ==
  ASSUME NEW row \in ExecutionRow, NEW n \in Nat
  PROVE  [row EXCEPT !.status = "rollback_pending", !.rollback_requested_at = n]
           \in ExecutionRow
BY DEF ExecutionRow, Queued

LEMMA RetriedRow ==
  ASSUME NEW row \in ExecutionRow, NEW s \in Queued
  PROVE  [row EXCEPT !.status = s, !.executor = NoExecutor, !.lease = "none",
                     !.error_code = NoError] \in ExecutionRow
BY DEF ExecutionRow

LEMMA AgedRow ==
  ASSUME NEW row \in RecommendationRow
  PROVE  [row EXCEPT !.aged = TRUE] \in RecommendationRow
BY DEF RecommendationRow

LEMMA AbsentTypes ==
  AbsentExecution \in ExecutionRow /\ NewRecommendation \in RecommendationRow
BY DEF AbsentExecution, ExecutionRow, NewRecommendation, AbsentRecommendation,
       RecommendationRow

LEMMA TypeInit == Init => TypeOK
BY DEF Init, TypeOK, IncidentStatus, ActiveIncident, RecommendationRow, ExecutionRow,
       AbsentRecommendation, AbsentExecution

LEMMA TypeRead ==
  ASSUME TypeOK, NEW w \in Workers, OperatorRequest(w)
  PROVE  TypeOK'
<1> USE DEF TypeOK, Open
<1>1. ASSUME NEW i \in Incidents, GenerateRead(w, i) PROVE TypeOK'
  BY <1>1 DEF GenerateRead, Transaction, GenerateTxn
<1>2. ASSUME NEW i \in Incidents, NEW s \in IncidentStatus, IncidentRead(w, i, s)
      PROVE  TypeOK'
  BY <1>2 DEF IncidentRead, Transaction, IncidentTxn
<1>3. ASSUME NEW r \in Recommendations, NEW a \in Actions, ApproveRead(w, r, a)
      PROVE  TypeOK'
  <2> DEFINE new == [recs[r] EXCEPT !.status = "approved", !.approved_action = a]
             t == [op |-> "approve", rec |-> r, seen |-> recs[r], new |-> new]
  <2>1. new \in RecommendationRow
    BY DEF RecommendationRow
  <2>2. t \in DecisionTxn
    BY <2>1 DEF DecisionTxn
  <2>3. QED
    BY <1>3, <2>2 DEF ApproveRead, Transaction
<1>4. ASSUME NEW r \in Recommendations, RejectRead(w, r) PROVE TypeOK'
  <2> DEFINE new == [recs[r] EXCEPT !.status = "rejected"]
             t == [op |-> "reject", rec |-> r, seen |-> recs[r], new |-> new]
  <2>1. new \in RecommendationRow
    BY DEF RecommendationRow
  <2>2. t \in DecisionTxn
    BY <2>1 DEF DecisionTxn
  <2>3. QED
    BY <1>4, <2>2 DEF RejectRead, Transaction
<1>5. ASSUME NEW r \in Recommendations, RollbackRead(w, r) PROVE TypeOK'
  <2> DEFINE new == [execs[r] EXCEPT !.status = "rollback_pending",
                                     !.rollback_requested_at = clock]
             t == [op |-> "rollback", rec |-> r, seen |-> execs[r], new |-> new,
                   event |-> "rollback_requested"]
  <2>1. new \in ExecutionRow
    <3>1. execs[r] \in ExecutionRow /\ clock \in Nat
      OBVIOUS
    <3>2. QED
      BY <3>1, RollbackRow
  <2>2. t \in ExecutionTxn
    BY <2>1 DEF ExecutionTxn, EventTypes
  <2>3. QED
    BY <1>5, <2>2 DEF RollbackRead, Transaction
<1>6. ASSUME NEW r \in Recommendations, RetryRead(w, r) PROVE TypeOK'
  <2> DEFINE new == [execs[r] EXCEPT
                       !.status = IF @ = "failed" THEN "pending" ELSE "rollback_pending",
                       !.executor = NoExecutor,
                       !.lease = "none",
                       !.error_code = NoError]
             t == [op |-> "retry", rec |-> r, seen |-> execs[r], new |-> new,
                   event |-> "execution_retry_requested"]
             s == IF execs[r].status = "failed" THEN "pending" ELSE "rollback_pending"
  <2>1. new \in ExecutionRow
    <3>1. execs[r] \in ExecutionRow
      OBVIOUS
    <3>2. s \in Queued
      BY DEF Queued
    <3>3. new = [execs[r] EXCEPT !.status = s, !.executor = NoExecutor,
                                 !.lease = "none", !.error_code = NoError]
      OBVIOUS
    <3>4. QED
      BY <3>1, <3>2, <3>3, RetriedRow
  <2>2. t \in ExecutionTxn
    BY <2>1 DEF ExecutionTxn, EventTypes
  <2>3. QED
    BY <1>6, <2>2 DEF RetryRead, Transaction
<1>7. QED
  BY <1>1, <1>2, <1>3, <1>4, <1>5, <1>6 DEF OperatorRequest

LEMMA TypeCommit ==
  ASSUME TypeOK, NEW w \in Workers, Commit(w)
  PROVE  TypeOK'
<1> USE DEF TypeOK, Close, Log
<1>0. txns[w] \in Transaction \union {Idle}
  OBVIOUS
<1>t. txns' \in [Workers -> Transaction \union {Idle}]
  BY DEF Commit, CommitGenerate, CommitApprove, CommitReject, CommitExecution,
         CommitIncident
<1>1. CASE CommitGenerate(w)
  <2>1. txns[w] \in GenerateTxn
    BY <1>0, <1>1, TransactionKinds DEF CommitGenerate
  <2>2. "recommendation_created" \in EventTypes
    BY DEF EventTypes
  <2>3. recs' \in [Recommendations -> RecommendationRow]
    BY <1>1, AbsentTypes DEF CommitGenerate
  <2>4. audit' \in [Recommendations -> SUBSET EventTypes]
    BY <1>1, <2>2 DEF CommitGenerate
  <2>5. QED
    BY <1>1, <1>t, <2>3, <2>4 DEF CommitGenerate
<1>2. CASE CommitApprove(w)
  <2> DEFINE t == txns[w]
  <2>1. t \in DecisionTxn
    BY <1>0, <1>2, TransactionKinds DEF CommitApprove
  <2>2. /\ t.rec \in Recommendations
        /\ t.seen \in RecommendationRow /\ t.new \in RecommendationRow
    BY <2>1 DEF DecisionTxn
  <2>3. Flush(t.seen, t.new, recs[t.rec]) \in RecommendationRow
    BY <2>2, FlushRecommendation
  <2>4. [AbsentExecution EXCEPT !.status = "pending",
                                !.action_type = t.new.approved_action,
                                !.created_at = clock] \in ExecutionRow
    BY <2>2, AbsentTypes DEF ExecutionRow, RecommendationRow, Queued
  <2>5. "recommendation_approved" \in EventTypes
    BY DEF EventTypes
  <2>6. QED
    BY <1>2, <1>t, <2>2, <2>3, <2>4, <2>5 DEF CommitApprove
<1>3. CASE CommitReject(w)
  <2> DEFINE t == txns[w]
  <2>1. t \in DecisionTxn
    BY <1>0, <1>3, TransactionKinds DEF CommitReject
  <2>2. /\ t.rec \in Recommendations
        /\ t.seen \in RecommendationRow /\ t.new \in RecommendationRow
    BY <2>1 DEF DecisionTxn
  <2>3. Flush(t.seen, t.new, recs[t.rec]) \in RecommendationRow
    BY <2>2, FlushRecommendation
  <2>4. "recommendation_rejected" \in EventTypes
    BY DEF EventTypes
  <2>5. QED
    BY <1>3, <1>t, <2>2, <2>3, <2>4 DEF CommitReject
<1>4. CASE CommitExecution(w)
  <2> DEFINE t == txns[w]
  <2>1. t \in ExecutionTxn
    BY <1>0, <1>4, TransactionKinds DEF CommitExecution
  <2>2. /\ t.rec \in Recommendations /\ t.event \in EventTypes
        /\ t.seen \in ExecutionRow /\ t.new \in ExecutionRow
    BY <2>1 DEF ExecutionTxn
  <2>3. Flush(t.seen, t.new, execs[t.rec]) \in ExecutionRow
    BY <2>2, FlushExecution
  <2>4. clock' \in Nat
    BY <1>4 DEF CommitExecution
  <2>5. QED
    BY <1>4, <1>t, <2>2, <2>3, <2>4 DEF CommitExecution
<1>5. CASE CommitIncident(w)
  <2>1. txns[w] \in IncidentTxn
    BY <1>0, <1>5, TransactionKinds DEF CommitIncident
  <2>2. txns[w].new \in IncidentStatus
    BY <2>1 DEF IncidentTxn
  <2>3. QED
    BY <1>5, <1>t, <2>2 DEF CommitIncident
<1>6. QED
  BY <1>1, <1>2, <1>3, <1>4, <1>5 DEF Commit

LEMMA TypeResponder ==
  ASSUME ConstantsAssumption, TypeOK, ResponderRequest
  PROVE  TypeOK'
<1> USE DEF TypeOK
<1>1. ASSUME NEW x \in Executors, NEW r \in Recommendations, ClaimExecution(x, r)
      PROVE  TypeOK'
  <2> DEFINE op == OperationOn(r)
             attempt == execs[r].attempt_count + 1
             row == [Requeued(r) EXCEPT
                       !.status = IF op = "execute" THEN "claimed" ELSE "rollback_claimed",
                       !.executor = x,
                       !.lease = "running",
                       !.attempt_count = attempt]
  <2>1. attempt \in Nat
    BY DEF ExecutionRow
  <2>2. row \in ExecutionRow
    <3>1. Requeued(r) \in ExecutionRow
      BY RequeuedType
    <3>2. (IF op = "execute" THEN "claimed" ELSE "rollback_claimed") \in Claimed
      BY DEF Claimed
    <3>3. QED
      BY <2>1, <3>1, <3>2, ClaimedRow
  <2>3. execs' \in [Recommendations -> ExecutionRow]
    <3>1. execs' = [q \in Recommendations |-> IF q = r THEN row ELSE Requeued(q)]
      BY <1>1 DEF ClaimExecution
    <3>2. QED
      BY <2>2, <3>1, RequeuedType
  <2>4. [rec |-> r, executor |-> x, operation |-> op, attempt |-> attempt] \in Claim
    BY <2>1 DEF Claim, OperationOn, Operations
  <2>5. claims' \subseteq Claim
    BY <1>1, <2>4 DEF ClaimExecution
  <2>6. {"execute_claimed", "rollback_claimed"} \subseteq EventTypes
    BY DEF EventTypes
  <2>7. audit' \in [Recommendations -> SUBSET EventTypes]
    BY <1>1, <2>6 DEF ClaimExecution, Log
  <2>8. QED
    BY <1>1, <2>3, <2>5, <2>7 DEF ClaimExecution
<1>2. CASE ClaimNothing
  BY <1>2, RequeuedType DEF ClaimNothing
<1>3. ASSUME NEW w \in Workers, NEW c \in claims, NEW outcome \in Outcomes,
             CompleteRead(w, c, outcome)
      PROVE  TypeOK'
  <2> DEFINE row == execs[c.rec]
             op == IF row.status = "rollback_claimed" THEN "rollback" ELSE "execute"
             new == [row EXCEPT !.status = OutcomeStatus(op, outcome = NoError),
                                !.lease = "none",
                                !.error_code = outcome]
             t == [op |-> "complete", rec |-> c.rec, seen |-> row, new |-> new,
                   event |-> OutcomeEvent(op, outcome = NoError)]
  <2>1. c.rec \in Recommendations /\ row \in ExecutionRow
    BY DEF Claim
  <2>2. outcome \in ErrorCodes \union {NoError}
    BY DEF ConstantsAssumption, Outcomes
  <2>3. OutcomeStatus(op, outcome = NoError) \in Terminal
    BY DEF OutcomeStatus, Terminal
  <2>4. OutcomeEvent(op, outcome = NoError) \in EventTypes
    BY DEF OutcomeEvent, EventTypes
  <2>5. new \in ExecutionRow
    BY <2>1, <2>2, <2>3, CompletedRow
  <2>6. t \in ExecutionTxn
    BY <2>1, <2>4, <2>5 DEF ExecutionTxn
  <2>7. txns' = [txns EXCEPT ![w] = t]
    BY <1>3 DEF CompleteRead, Open
  <2>8. txns' \in [Workers -> Transaction \union {Idle}]
    BY <2>6, <2>7 DEF Transaction
  <2>9. QED
    BY <1>3, <2>8 DEF CompleteRead
<1>4. ASSUME NEW c \in claims, DropClaim(c) PROVE TypeOK'
  BY <1>4 DEF DropClaim
<1>5. QED
  BY <1>1, <1>2, <1>3, <1>4 DEF ResponderRequest

LEMMA TypeStep ==
  ASSUME ConstantsAssumption, TypeOK, [Next]_vars
  PROVE  TypeOK'
<1>1. ASSUME NEW r \in Recommendations, LeaseExpires(r) PROVE TypeOK'
  <2>1. [execs[r] EXCEPT !.lease = "expired"] \in ExecutionRow
    <3>1. execs[r] \in ExecutionRow
      BY DEF TypeOK
    <3>2. QED
      BY <3>1, ExpiredRow
  <2>2. execs' = [execs EXCEPT ![r] = [execs[r] EXCEPT !.lease = "expired"]]
    BY <1>1 DEF LeaseExpires, TypeOK, ExecutionRow
  <2>3. QED
    BY <1>1, <2>1, <2>2 DEF LeaseExpires, TypeOK
<1>2. ASSUME NEW r \in Recommendations, RecommendationAges(r) PROVE TypeOK'
  <2>1. [recs[r] EXCEPT !.aged = TRUE] \in RecommendationRow
    <3>1. recs[r] \in RecommendationRow
      BY DEF TypeOK
    <3>2. QED
      BY <3>1, AgedRow
  <2>2. recs' = [recs EXCEPT ![r] = [recs[r] EXCEPT !.aged = TRUE]]
    BY <1>2 DEF RecommendationAges, TypeOK, RecommendationRow
  <2>3. QED
    BY <1>2, <2>1, <2>2 DEF RecommendationAges, TypeOK
<1>3. ASSUME NEW m \in {"disabled", "live"}, RestartBackend(m) PROVE TypeOK'
  BY <1>3 DEF RestartBackend, TypeOK
<1>4. CASE UNCHANGED vars
  BY <1>4 DEF vars, TypeOK
<1>5. QED
  BY <1>1, <1>2, <1>3, <1>4, TypeRead, TypeCommit, TypeResponder DEF Next, Passing

(* The tables, the open transactions and the claims keep their types.       *)
THEOREM TypeCorrect == Spec => []TypeOK
<1>1. TypeOK /\ [Next]_vars => TypeOK'
  BY ConstantsAssumption, TypeStep
<1>2. QED
  BY <1>1, TypeInit, PTL DEF Spec

-------------------------------------------------------------------------------
(* The inductive invariant. *)

TableInvariants ==
  /\ AuthorizedExecution
  /\ ClaimIsRecoverable
  /\ ClaimMatchesRow
  /\ AuditExplainsStatus
  /\ ApprovalHasExecution

(* The policy allows a disruptive action only with a target.                *)
LEMMA AllowedHasTarget ==
  ASSUME NEW r \in Recommendations, NEW a \in AllowedActions(r), a \in Disruptive
  PROVE  HasTarget(r)
BY DEF AllowedActions, allowed_actions_for_incident, Disruptive, Actions

(* An explanation stays one when the audit trail grows.                     *)
LEMMA ExplanationGrows ==
  ASSUME NEW s, NEW A, NEW B, A \subseteq B, ExecutionExplained(s, A)
  PROVE  ExecutionExplained(s, B)
BY DEF ExecutionExplained

(* A step that keeps the executions, the audit trail and the decisions, and *)
(* hands out no claim, keeps the invariants of the tables.                  *)
LEMMA TablesKept ==
  ASSUME TypeOK, TableInvariants,
         UNCHANGED <<execs, audit>>, claims' \subseteq claims,
         \A r \in Recommendations :
           /\ recs'[r].status = recs[r].status
           /\ recs'[r].approved_action = recs[r].approved_action
  PROVE  TableInvariants'
BY DEF TypeOK, TableInvariants, AuthorizedExecution, ClaimIsRecoverable, ClaimMatchesRow,
       AuditExplainsStatus, ApprovalHasExecution, Present, AllowedActions, HasTarget

(* A transaction that stays open stays sound while the audit trail grows    *)
(* and no execution disappears.                                             *)
LEMMA SoundnessKept ==
  ASSUME TypeOK, NEW w \in Workers, TransactionSound(w), txns'[w] = txns[w],
         \A r \in Recommendations : audit[r] \subseteq audit'[r],
         \A r \in Recommendations : Present(r) => Present(r)'
  PROVE  TransactionSound(w)'
<1> DEFINE t == txns[w]
<1>1. t \in Transaction \union {Idle}
  BY DEF TypeOK
<1>2. t.op \in {"approve", "reject", "complete", "rollback", "retry"}
        => t.rec \in Recommendations
  BY <1>1, TransactionKinds DEF DecisionTxn, ExecutionTxn
<1>3. t.op \in {"complete", "rollback", "retry"} =>
        ExecutionExplained(t.new.status, audit'[t.rec] \union {t.event})
  BY <1>2, ExplanationGrows DEF TransactionSound
<1>4. QED
  BY <1>2, <1>3 DEF TransactionSound, AllowedActions, HasTarget

(* A worker without an open transaction has nothing to be sound about.      *)
LEMMA IdleIsSound ==
  ASSUME NEW w \in Workers, txns[w] = Idle
  PROVE  TransactionSound(w)
BY DEF TransactionSound, Idle

(* What a commit of complete, rollback or retry makes of its row.           *)
LEMMA FlushedExecution ==
  ASSUME TypeOK, NEW w \in Workers, TransactionSound(w), CommitExecution(w)
  PROVE  LET t == txns[w]
             row == execs'[t.rec]
         IN  /\ t.rec \in Recommendations
             /\ Present(t.rec)
             /\ row.status = t.new.status
             /\ row.status \in Queued \union Terminal
             /\ row.action_type = execs[t.rec].action_type
             /\ row.created_at = execs[t.rec].created_at
             /\ row.attempt_count = execs[t.rec].attempt_count
             /\ ExecutionExplained(row.status, audit'[t.rec])
<1> DEFINE t == txns[w]
<1>1. t.op \in {"complete", "rollback", "retry"} /\ t \in ExecutionTxn
  BY TransactionKinds DEF TypeOK, CommitExecution
<1>2. t.rec \in Recommendations
  BY <1>1 DEF ExecutionTxn
<1>3. execs'[t.rec] = Flush(t.seen, t.new, execs[t.rec])
  BY <1>2 DEF CommitExecution, TypeOK
<1>4. audit'[t.rec] = audit[t.rec] \union {t.event}
  BY <1>2 DEF CommitExecution, Log, TypeOK
<1>5. DOMAIN execs[t.rec] = {"status", "action_type", "executor", "lease", "attempt_count",
                             "error_code", "created_at", "rollback_requested_at"}
  BY <1>2 DEF TypeOK, ExecutionRow
<1>6. QED
  BY <1>1, <1>2, <1>3, <1>4, <1>5 DEF TransactionSound, Flush

LEMMA InductiveInit == ASSUME ConstantsAssumption, Init PROVE Inductive
<1>1. \A w \in Workers : TransactionSound(w)
  BY IdleIsSound DEF Init
<1>2. QED
  BY <1>1, TypeInit
  DEF Init, Inductive, AuthorizedExecution, ClaimIsRecoverable, ClaimMatchesRow,
      AuditExplainsStatus, ApprovalHasExecution, ExecutionExplained, Present,
      AbsentExecution, AbsentRecommendation, Claimed, Terminal, RollbackPhase

(* Reading a row and deciding about it: only the new transaction counts.    *)
LEMMA InductiveRead ==
  ASSUME Inductive, NEW w \in Workers, OperatorRequest(w)
  PROVE  Inductive'
<1> USE DEF Inductive
<1>1. TypeOK'
  BY TypeRead
<1>2. UNCHANGED <<recs, execs, audit, claims>>
  BY DEF OperatorRequest, GenerateRead, IncidentRead, ApproveRead, RejectRead,
         RollbackRead, RetryRead
<1>3. TableInvariants'
  BY <1>2, TablesKept DEF TableInvariants
<1>4. \A v \in Workers \ {w} : txns'[v] = txns[v]
  BY DEF TypeOK, OperatorRequest, GenerateRead, IncidentRead, ApproveRead, RejectRead,
         RollbackRead, RetryRead, Open
<1>5. \A v \in Workers \ {w} : TransactionSound(v)'
  BY <1>2, <1>4, SoundnessKept DEF Present
<1>6. TransactionSound(w)'
  <2>1. ASSUME NEW i \in Incidents, GenerateRead(w, i) PROVE TransactionSound(w)'
    BY <2>1 DEF GenerateRead, Open, TypeOK, TransactionSound
  <2>2. ASSUME NEW i \in Incidents, NEW s \in IncidentStatus, IncidentRead(w, i, s)
        PROVE  TransactionSound(w)'
    BY <2>2 DEF IncidentRead, Open, TypeOK, TransactionSound
  <2>3. ASSUME NEW r \in Recommendations, NEW a \in Actions, ApproveRead(w, r, a)
        PROVE  TransactionSound(w)'
    <3> DEFINE new == [recs[r] EXCEPT !.status = "approved", !.approved_action = a]
    <3>1. txns'[w] = [op |-> "approve", rec |-> r, seen |-> recs[r], new |-> new]
      BY <2>3 DEF ApproveRead, Open, TypeOK
    <3>2. recs[r].approved_action = NoAction
      BY <2>3 DEF ApproveRead, ApprovalHasExecution
    <3>3. new.approved_action = a /\ new.status = "approved"
      BY DEF TypeOK, RecommendationRow
    <3>4. a \in AllowedActions(r) /\ "recommendation_created" \in audit[r]
      BY <2>3 DEF ApproveRead, AuditExplainsStatus
    <3> HIDE DEF new, Inductive
    <3>5. QED
      BY <1>2, <3>1, <3>2, <3>3, <3>4
      DEF TransactionSound, AllowedActions, HasTarget
  <2>4. ASSUME NEW r \in Recommendations, RejectRead(w, r) PROVE TransactionSound(w)'
    <3> DEFINE new == [recs[r] EXCEPT !.status = "rejected"]
    <3>1. txns'[w] = [op |-> "reject", rec |-> r, seen |-> recs[r], new |-> new]
      BY <2>4 DEF RejectRead, Open, TypeOK
    <3>2. new.approved_action = recs[r].approved_action /\ new.status = "rejected"
      BY DEF TypeOK, RecommendationRow
    <3>3. "recommendation_created" \in audit[r]
      BY <2>4 DEF RejectRead, AuditExplainsStatus
    <3> HIDE DEF new, Inductive
    <3>4. QED
      BY <1>2, <3>1, <3>2, <3>3 DEF TransactionSound
  <2>5. ASSUME NEW r \in Recommendations, RollbackRead(w, r) PROVE TransactionSound(w)'
    <3> DEFINE new == [execs[r] EXCEPT !.status = "rollback_pending",
                                       !.rollback_requested_at = clock]
    <3>1. txns'[w] = [op |-> "rollback", rec |-> r, seen |-> execs[r], new |-> new,
                      event |-> "rollback_requested"]
      BY <2>5 DEF RollbackRead, Open, TypeOK
    <3>2. /\ new.status = "rollback_pending"
          /\ new.action_type = execs[r].action_type
          /\ new.created_at = execs[r].created_at
          /\ new.attempt_count = execs[r].attempt_count
      BY DEF TypeOK, ExecutionRow
    <3>3. execs[r].status = "succeeded" /\ Present(r)
      BY <2>5 DEF RollbackRead, Present
    <3>4. ExecutionExplained("rollback_pending", audit[r] \union {"rollback_requested"})
      BY <3>3 DEF AuditExplainsStatus, ExecutionExplained, RollbackPhase
    <3> HIDE DEF new, Inductive
    <3>5. QED
      BY <1>2, <3>1, <3>2, <3>3, <3>4 DEF TransactionSound, Present, Queued
  <2>6. ASSUME NEW r \in Recommendations, RetryRead(w, r) PROVE TransactionSound(w)'
    <3> DEFINE status == IF execs[r].status = "failed" THEN "pending"
                         ELSE "rollback_pending"
               new == [execs[r] EXCEPT !.status = status, !.executor = NoExecutor,
                                       !.lease = "none", !.error_code = NoError]
    <3>1. txns'[w] = [op |-> "retry", rec |-> r, seen |-> execs[r], new |-> new,
                      event |-> "execution_retry_requested"]
      BY <2>6 DEF RetryRead, Open, TypeOK
    <3>2. /\ new.status = status
          /\ new.action_type = execs[r].action_type
          /\ new.created_at = execs[r].created_at
          /\ new.attempt_count = execs[r].attempt_count
      BY DEF TypeOK, ExecutionRow
    <3>3. execs[r].status \in {"failed", "rollback_failed"} /\ Present(r)
      BY <2>6 DEF RetryRead, Present
    <3>4. ExecutionExplained(status, audit[r] \union {"execution_retry_requested"})
      BY <3>3 DEF AuditExplainsStatus, ExecutionExplained, RollbackPhase
    <3> HIDE DEF new, Inductive
    <3>5. QED
      BY <1>2, <3>1, <3>2, <3>3, <3>4 DEF TransactionSound, Present, Queued
  <2>7. QED
    BY <2>1, <2>2, <2>3, <2>4, <2>5, <2>6 DEF OperatorRequest
<1>7. QED
  BY <1>1, <1>3, <1>5, <1>6 DEF TableInvariants

(* Committing a transaction.                                                *)
LEMMA InductiveCommit ==
  ASSUME ConstantsAssumption, Inductive, NEW w \in Workers, Commit(w)
  PROVE  Inductive'
<1> DEFINE t == txns[w]
<1> USE DEF Inductive
<1>1. TypeOK'
  BY TypeCommit
<1>2. txns' = [txns EXCEPT ![w] = Idle] /\ UNCHANGED claims
  BY DEF Commit, CommitGenerate, CommitApprove, CommitReject, CommitExecution,
         CommitIncident, Close
<1>3. TransactionSound(w)'
  BY <1>2 DEF TypeOK, TransactionSound, Idle
<1>4. t \in Transaction \union {Idle}
  BY DEF TypeOK
<1>5. SUFFICES /\ TableInvariants'
               /\ \A r \in Recommendations : audit[r] \subseteq audit'[r]
               /\ \A r \in Recommendations : Present(r) => Present(r)'
  <2>1. \A v \in Workers \ {w} : TransactionSound(v)'
    BY <1>2, <1>5, SoundnessKept DEF TypeOK
  <2>2. QED
    BY <1>1, <1>3, <1>5, <2>1 DEF TableInvariants
<1>6. CASE CommitGenerate(w)
  <2>1. UNCHANGED execs /\ \A r \in Recommendations : Present(r)' = Present(r)
    BY <1>6 DEF CommitGenerate, Present
  <2>2. PICK inserted \in SUBSET Recommendations :
          /\ \A r \in inserted : recs[r].status = "absent"
          /\ \A r \in Recommendations :
               /\ recs'[r] = IF r \in inserted THEN NewRecommendation ELSE recs[r]
               /\ audit'[r] = IF r \in inserted
                             THEN audit[r] \union {"recommendation_created"} ELSE audit[r]
    <3>1. t.new \in SUBSET Recommendations
      BY <1>4, <1>6, TransactionKinds DEF CommitGenerate, GenerateTxn
    <3>2. CASE \A r \in t.new : recs[r].status = "absent"
      <4>1. WITNESS t.new \in SUBSET Recommendations
      <4>2. QED
        BY <1>6, <3>1, <3>2 DEF CommitGenerate
    <3>3. CASE ~ \A r \in t.new : recs[r].status = "absent"
      <4>1. WITNESS {} \in SUBSET Recommendations
      <4>2. QED
        BY <1>6, <3>1, <3>3 DEF CommitGenerate
    <3>4. QED
      BY <3>2, <3>3
  <2>3. NewRecommendation.status = "proposed" /\ NewRecommendation.approved_action = NoAction
    BY DEF NewRecommendation, AbsentRecommendation
  <2>4. AuthorizedExecution'
    BY <2>1, <2>2 DEF AuthorizedExecution, AuditExplainsStatus, AllowedActions, HasTarget
  <2>5. AuditExplainsStatus'
    <3>1. ASSUME NEW r \in Recommendations
          PROVE  ExecutionExplained(execs'[r].status, audit'[r])
      <4>1. execs'[r].status = execs[r].status /\ audit[r] \subseteq audit'[r]
        BY <2>1, <2>2
      <4>2. ExecutionExplained(execs[r].status, audit[r])
        BY <1>2 DEF AuditExplainsStatus
      <4>3. QED
        BY <4>1, <4>2, ExplanationGrows
    <3>2. QED
      BY <2>2, <2>3, <3>1 DEF AuditExplainsStatus
  <2>6. (ClaimIsRecoverable /\ ClaimMatchesRow /\ ApprovalHasExecution)'
    BY <1>2, <2>1, <2>2, <2>3
    DEF ClaimIsRecoverable, ClaimMatchesRow, ApprovalHasExecution, Present, TypeOK
  <2>7. QED
    BY <2>1, <2>2, <2>4, <2>5, <2>6 DEF TableInvariants
<1>7. CASE CommitApprove(w) /\ Duplicate(t.rec)
  <2>1. UNCHANGED <<recs, execs, audit>>
    BY <1>7 DEF CommitApprove
  <2>2. QED
    BY <1>2, <2>1, TablesKept DEF TableInvariants, Present
<1>8. CASE CommitApprove(w) /\ ~Duplicate(t.rec)
  <2> DEFINE r == t.rec
             action == t.new.approved_action
             row == [AbsentExecution EXCEPT !.status = "pending", !.action_type = action,
                                            !.created_at = clock]
  <2>1. t.op = "approve" /\ t \in DecisionTxn
    BY <1>4, <1>8, TransactionKinds DEF CommitApprove
  <2>2. r \in Recommendations /\ ~Present(r)
    BY <1>8, <2>1 DEF DecisionTxn, Duplicate
  <2>3. /\ recs' = [recs EXCEPT ![r] = Flush(t.seen, t.new, recs[r])]
        /\ execs' = [execs EXCEPT ![r] = row]
        /\ audit' = [audit EXCEPT ![r] = audit[r] \union {"recommendation_approved"}]
    BY <1>8, <2>2 DEF CommitApprove, Log, Duplicate, TypeOK
  <2>4. /\ t.seen.approved_action = NoAction
        /\ action \in AllowedActions(r)
        /\ t.new.status = "approved"
        /\ "recommendation_created" \in audit[r]
    BY <2>1 DEF TransactionSound
  <2>5. action # NoAction
    BY <2>4 DEF ConstantsAssumption, AllowedActions, allowed_actions_for_incident, Disruptive,
               Actions
  <2>6. DOMAIN recs[r] = {"status", "approved_action", "aged"}
    BY <2>2 DEF TypeOK, RecommendationRow
  <2>7. /\ recs'[r].approved_action = action
        /\ recs'[r].status \in {"approved", recs[r].status}
    BY <2>2, <2>3, <2>4, <2>5, <2>6 DEF Flush, TypeOK
  <2>8. /\ execs'[r].status = "pending"
        /\ execs'[r].action_type = action
    BY <2>2, <2>3 DEF TypeOK, AbsentExecution
  <2>9. audit'[r] = audit[r] \union {"recommendation_approved"}
    BY <2>2, <2>3 DEF TypeOK
  <2>10. \A q \in Recommendations \ {r} :
           recs'[q] = recs[q] /\ execs'[q] = execs[q] /\ audit'[q] = audit[q]
    BY <2>3 DEF TypeOK
  <2>11. AuthorizedExecution'
    <3>1. action \in Disruptive => HasTarget(r)
      BY <2>2, <2>4, AllowedHasTarget
    <3>2. QED
      BY <2>4, <2>7, <2>8, <2>9, <2>10, <3>1
      DEF AuthorizedExecution, Present, AllowedActions, HasTarget
  <2>12. AuditExplainsStatus'
    BY <2>4, <2>7, <2>8, <2>9, <2>10
    DEF AuditExplainsStatus, ExecutionExplained, Terminal, Claimed, RollbackPhase
  <2>13. ClaimIsRecoverable'
    BY <2>8, <2>10 DEF ClaimIsRecoverable, Claimed
  <2>14. ClaimMatchesRow'
    BY <1>2, <2>2, <2>10 DEF ClaimMatchesRow, Present, TypeOK, Claim
  <2>15. ApprovalHasExecution'
    BY <2>8, <2>10 DEF ApprovalHasExecution, Present
  <2>16. QED
    BY <2>8, <2>9, <2>10, <2>11, <2>12, <2>13, <2>14, <2>15 DEF TableInvariants, Present
<1>9. CASE CommitReject(w)
  <2> DEFINE r == t.rec
  <2>1. t.op = "reject" /\ t \in DecisionTxn
    BY <1>4, <1>9, TransactionKinds DEF CommitReject
  <2>2. r \in Recommendations
    BY <2>1 DEF DecisionTxn
  <2>3. /\ UNCHANGED execs
        /\ recs' = [recs EXCEPT ![r] = Flush(t.seen, t.new, recs[r])]
        /\ audit' = [audit EXCEPT ![r] = audit[r] \union {"recommendation_rejected"}]
    BY <1>9, <2>2 DEF CommitReject, Log, TypeOK
  <2>4. /\ t.new.approved_action = t.seen.approved_action
        /\ t.new.status = "rejected"
        /\ "recommendation_created" \in audit[r]
    BY <2>1 DEF TransactionSound
  <2>5. DOMAIN recs[r] = {"status", "approved_action", "aged"}
    BY <2>2 DEF TypeOK, RecommendationRow
  <2>6. /\ recs'[r].approved_action = recs[r].approved_action
        /\ recs'[r].status \in {"rejected", recs[r].status}
    BY <2>2, <2>3, <2>4, <2>5 DEF Flush, TypeOK
  <2>7. audit'[r] = audit[r] \union {"recommendation_rejected"}
    BY <2>2, <2>3 DEF TypeOK
  <2>8. \A q \in Recommendations \ {r} : recs'[q] = recs[q] /\ audit'[q] = audit[q]
    BY <2>3 DEF TypeOK
  <2>9. \A q \in Recommendations : audit[q] \subseteq audit'[q]
    BY <2>7, <2>8
  <2>10. AuthorizedExecution'
    BY <2>3, <2>6, <2>8, <2>9 DEF AuthorizedExecution, Present, AllowedActions, HasTarget
  <2>11. AuditExplainsStatus'
    BY <2>3, <2>4, <2>6, <2>7, <2>8, <2>9, ExplanationGrows DEF AuditExplainsStatus
  <2>12. (ClaimIsRecoverable /\ ClaimMatchesRow /\ ApprovalHasExecution)'
    BY <1>2, <2>3, <2>6, <2>8
    DEF ClaimIsRecoverable, ClaimMatchesRow, ApprovalHasExecution, Present
  <2>13. QED
    BY <2>3, <2>9, <2>10, <2>11, <2>12 DEF TableInvariants, Present
<1>10. CASE CommitExecution(w)
  <2> DEFINE r == t.rec
             row == execs'[r]
  <2>1. /\ r \in Recommendations
        /\ Present(r)
        /\ row.status \in Queued \union Terminal
        /\ row.action_type = execs[r].action_type
        /\ row.attempt_count = execs[r].attempt_count
        /\ ExecutionExplained(row.status, audit'[r])
    BY <1>10, FlushedExecution
  <2>2. UNCHANGED recs
    BY <1>10 DEF CommitExecution
  <2>3. \A q \in Recommendations \ {r} : execs'[q] = execs[q] /\ audit'[q] = audit[q]
    BY <1>10, <2>1 DEF CommitExecution, Log, TypeOK
  <2>4. audit'[r] = audit[r] \union {t.event}
    BY <1>10, <2>1 DEF CommitExecution, Log, TypeOK
  <2>5. "recommendation_created" \in audit[r]
    BY <2>1 DEF AuthorizedExecution
  <2>6. \A q \in Recommendations : audit[q] \subseteq audit'[q]
    BY <2>3, <2>4
  <2>7. \A q \in Recommendations : Present(q)' = Present(q)
    BY <2>1, <2>3 DEF Present, Queued, Terminal
  <2>8. AuthorizedExecution'
    BY <2>1, <2>2, <2>3, <2>6, <2>7
    DEF AuthorizedExecution, AllowedActions, HasTarget
  <2>9. AuditExplainsStatus'
    BY <2>1, <2>2, <2>3, <2>4, <2>5, <2>6 DEF AuditExplainsStatus
  <2>10. ClaimIsRecoverable'
    BY <2>1, <2>3 DEF ClaimIsRecoverable, Claimed, Queued, Terminal
  <2>11. ClaimMatchesRow'
    BY <1>2, <2>1, <2>3, <2>7 DEF ClaimMatchesRow, Claimed, Queued, Terminal, TypeOK, Claim
  <2>12. ApprovalHasExecution'
    BY <2>2, <2>7 DEF ApprovalHasExecution
  <2>13. QED
    BY <2>6, <2>7, <2>8, <2>9, <2>10, <2>11, <2>12 DEF TableInvariants
<1>11. CASE CommitIncident(w)
  <2>1. UNCHANGED <<recs, execs, audit>>
    BY <1>11 DEF CommitIncident
  <2>2. QED
    BY <1>2, <2>1, TablesKept DEF TableInvariants, Present
<1>12. QED
  BY <1>6, <1>7, <1>8, <1>9, <1>10, <1>11 DEF Commit

(* What requeueing does to a row.                                           *)
LEMMA RequeuedRow ==
  ASSUME Inductive, NEW r \in Recommendations
  PROVE  /\ Requeued(r) \in ExecutionRow
         /\ Requeued(r).action_type = execs[r].action_type
         /\ Requeued(r).created_at = execs[r].created_at
         /\ Requeued(r).attempt_count = execs[r].attempt_count
         /\ Requeued(r).status # "absent" <=> Present(r)
         /\ Requeued(r).status \in Claimed => Requeued(r) = execs[r]
         /\ Requeued(r).status \in {execs[r].status, "pending", "rollback_pending"}
         /\ Requeued(r).status = "pending" => execs[r].status \in {"pending", "claimed"}
         /\ ExecutionExplained(Requeued(r).status, audit[r])
<1> DEFINE row == execs[r]
<1>1. row \in ExecutionRow /\ Requeued(r) \in ExecutionRow
  BY RequeuedType DEF Inductive, TypeOK
<1>2. ExecutionExplained(row.status, audit[r])
  BY DEF Inductive, AuditExplainsStatus
<1>3. CASE Requeued(r) = row
  BY <1>1, <1>2, <1>3 DEF Present, Claimed
<1>4. CASE row.status = "claimed" /\ Requeued(r) # row
  <2>1. Requeued(r) = [row EXCEPT !.status = "pending", !.executor = NoExecutor,
                                  !.lease = "none"]
    BY <1>4 DEF Requeued, Requeue
  <2>2. ExecutionExplained("pending", audit[r])
    BY DEF ExecutionExplained, RollbackPhase
  <2>3. QED
    BY <1>1, <1>4, <2>1, <2>2 DEF ExecutionRow, Present, Claimed
<1>5. CASE row.status = "rollback_claimed" /\ Requeued(r) # row
  <2>1. Requeued(r) = [row EXCEPT !.status = "rollback_pending", !.executor = NoExecutor,
                                  !.lease = "none"]
    BY <1>5 DEF Requeued, Requeue
  <2>2. ExecutionExplained("rollback_pending", audit[r])
    BY <1>2, <1>5 DEF ExecutionExplained, RollbackPhase
  <2>3. QED
    BY <1>1, <1>5, <2>1, <2>2 DEF ExecutionRow, Present, Claimed
<1>6. QED
  BY <1>3, <1>4, <1>5 DEF Requeued, Requeue

(* A claim, and a poll that finds nothing: both requeue expired claims.     *)
LEMMA InductiveClaim ==
  ASSUME ConstantsAssumption, Inductive,
         NEW x \in Executors, NEW r \in Recommendations, ClaimExecution(x, r)
  PROVE  Inductive'
<1> DEFINE op == OperationOn(r)
           status == IF op = "execute" THEN "claimed" ELSE "rollback_claimed"
           attempt == execs[r].attempt_count + 1
           row == [Requeued(r) EXCEPT !.status = status, !.executor = x,
                                      !.lease = "running", !.attempt_count = attempt]
           claim == [rec |-> r, executor |-> x, operation |-> op, attempt |-> attempt]
<1> USE DEF Inductive
<1>1. TypeOK'
  BY TypeResponder DEF ResponderRequest
<1>2. /\ execs' = [q \in Recommendations |-> IF q = r THEN row ELSE Requeued(q)]
      /\ claims' = claims \union {claim}
      /\ UNCHANGED <<recs, txns>>
  BY DEF ClaimExecution
<1>3. /\ audit'[r] = audit[r] \union {IF op = "execute" THEN "execute_claimed"
                                      ELSE "rollback_claimed"}
      /\ \A q \in Recommendations \ {r} : audit'[q] = audit[q]
  BY DEF ClaimExecution, Log, TypeOK
<1>4. \A q \in Recommendations : audit[q] \subseteq audit'[q]
  BY <1>3
<1>5. /\ op = "execute" => Requeued(r).status = "pending"
      /\ op # "execute" => Requeued(r).status = "rollback_pending"
  BY DEF ClaimExecution, Claimable, OperationOn, RequestedRollbacks, PendingActions
<1>6. Present(r)
  BY <1>5, RequeuedRow
<1>7. /\ execs'[r].status = status
      /\ execs'[r].executor = x
      /\ execs'[r].lease = "running"
      /\ execs'[r].attempt_count = attempt
      /\ execs'[r].action_type = execs[r].action_type
      /\ execs'[r].created_at = execs[r].created_at
  <2>1. Requeued(r) \in ExecutionRow
    BY RequeuedRow
  <2>2. execs'[r] = row
    BY <1>2
  <2>3. QED
    BY <2>1, <2>2, RequeuedRow DEF ExecutionRow
<1>8. \A q \in Recommendations \ {r} : execs'[q] = Requeued(q)
  BY <1>2
<1>9. \A q \in Recommendations : Present(q)' = Present(q)
  BY <1>6, <1>7, <1>8, RequeuedRow DEF Present
<1>10. AuthorizedExecution'
  BY <1>2, <1>4, <1>7, <1>8, <1>9, RequeuedRow
  DEF AuthorizedExecution, AllowedActions, HasTarget
<1>11. ClaimIsRecoverable'
  BY <1>7, <1>8, RequeuedRow DEF ClaimIsRecoverable, ConstantsAssumption
<1>12. ClaimMatchesRow'
  <2>1. ASSUME NEW c \in claims'
        PROVE  /\ Present(c.rec)'
               /\ c.attempt <= execs'[c.rec].attempt_count
               /\ execs'[c.rec].status \in Claimed
                  /\ c.attempt = execs'[c.rec].attempt_count =>
                    /\ c.executor = execs'[c.rec].executor
                    /\ c.operation = IF execs'[c.rec].status = "claimed" THEN "execute"
                                     ELSE "rollback"
    <3>1. CASE c = claim
      <4>1. op \in {"execute", "rollback"}
        BY DEF OperationOn
      <4>2. attempt \in Nat
        BY DEF TypeOK, ExecutionRow
      <4>3. QED
        BY <1>6, <1>7, <1>9, <3>1, <4>1, <4>2
    <3>2. CASE c \in claims /\ c.rec = r
      <4>1. c.attempt \in Nat /\ execs[r].attempt_count \in Nat
        BY <3>2 DEF TypeOK, Claim, ExecutionRow
      <4>2. c.attempt <= execs[r].attempt_count
        BY <3>2 DEF ClaimMatchesRow
      <4>3. QED
        BY <1>6, <1>7, <1>9, <3>2, <4>1, <4>2
    <3>3. CASE c \in claims /\ c.rec # r
      <4>1. c.rec \in Recommendations
        BY <3>3 DEF TypeOK, Claim
      <4>2. QED
        BY <1>8, <1>9, <3>3, <4>1, RequeuedRow DEF ClaimMatchesRow
    <3>4. QED
      BY <1>2, <3>1, <3>2, <3>3
  <2>2. QED
    BY <2>1 DEF ClaimMatchesRow
<1>13. AuditExplainsStatus'
  <2>1. ExecutionExplained(execs'[r].status, audit'[r])
    <3>1. ExecutionExplained(Requeued(r).status, audit[r])
      BY RequeuedRow
    <3>2. "recommendation_approved" \in audit[r]
      BY <1>6 DEF AuthorizedExecution
    <3>3. QED
      BY <1>3, <1>5, <1>7, <3>1, <3>2 DEF ExecutionExplained, RollbackPhase
  <2>2. ASSUME NEW q \in Recommendations, q # r
        PROVE  ExecutionExplained(execs'[q].status, audit'[q])
    BY <1>3, <1>8, <2>2, RequeuedRow
  <2>3. \A q \in Recommendations : "recommendation_created" \in audit'[q]
                                   => "recommendation_created" \in audit[q]
    BY <1>3
  <2>4. QED
    BY <1>2, <1>4, <2>1, <2>2, <2>3 DEF AuditExplainsStatus
<1>14. ApprovalHasExecution'
  BY <1>2, <1>9 DEF ApprovalHasExecution
<1>15. \A v \in Workers : TransactionSound(v)'
  BY <1>2, <1>4, <1>9, SoundnessKept
<1>16. QED
  BY <1>1, <1>10, <1>11, <1>12, <1>13, <1>14, <1>15

LEMMA InductiveClaimNothing ==
  ASSUME ConstantsAssumption, Inductive, ClaimNothing
  PROVE  Inductive'
<1> USE DEF Inductive
<1>1. TypeOK'
  BY TypeResponder DEF ResponderRequest
<1>2. /\ \A q \in Recommendations : execs'[q] = Requeued(q)
      /\ UNCHANGED <<recs, audit, txns, claims>>
  BY DEF ClaimNothing
<1>3. \A q \in Recommendations : Present(q)' = Present(q)
  BY <1>2, RequeuedRow DEF Present
<1>4. AuthorizedExecution'
  BY <1>2, <1>3, RequeuedRow DEF AuthorizedExecution, AllowedActions, HasTarget
<1>5. ClaimIsRecoverable'
  BY <1>2, RequeuedRow DEF ClaimIsRecoverable
<1>6. ClaimMatchesRow'
  BY <1>2, <1>3, RequeuedRow DEF ClaimMatchesRow, TypeOK, Claim
<1>7. AuditExplainsStatus'
  BY <1>2, RequeuedRow DEF AuditExplainsStatus
<1>8. ApprovalHasExecution'
  BY <1>2, <1>3 DEF ApprovalHasExecution
<1>9. \A v \in Workers : TransactionSound(v)'
  BY <1>2, <1>3, SoundnessKept
<1>10. QED
  BY <1>1, <1>4, <1>5, <1>6, <1>7, <1>8, <1>9

(* Reading a completion.                                                    *)
LEMMA InductiveComplete ==
  ASSUME ConstantsAssumption, Inductive, NEW w \in Workers, NEW c \in claims,
         NEW outcome \in Outcomes, CompleteRead(w, c, outcome)
  PROVE  Inductive'
<1> DEFINE r == c.rec
           row == execs[r]
           op == IF row.status = "rollback_claimed" THEN "rollback" ELSE "execute"
           status == OutcomeStatus(op, outcome = NoError)
           event == OutcomeEvent(op, outcome = NoError)
           new == [row EXCEPT !.status = status, !.lease = "none", !.error_code = outcome]
<1> USE DEF Inductive
<1>1. TypeOK'
  BY TypeResponder DEF ResponderRequest
<1>2. UNCHANGED <<recs, execs, audit>> /\ claims' \subseteq claims
  BY DEF CompleteRead
<1>3. TableInvariants'
  BY <1>2, TablesKept DEF TableInvariants
<1>4. /\ txns'[w] = [op |-> "complete", rec |-> r, seen |-> row, new |-> new,
                     event |-> event]
      /\ \A v \in Workers \ {w} : txns'[v] = txns[v]
  BY DEF CompleteRead, Open, TypeOK
<1>5. \A v \in Workers \ {w} : TransactionSound(v)'
  BY <1>2, <1>4, SoundnessKept DEF Present
<1>6. TransactionSound(w)'
  <2>1. r \in Recommendations /\ row.status \in Claimed
    BY DEF CompleteRead, TypeOK, Claim
  <2>2. /\ new.status = status
        /\ new.action_type = row.action_type
        /\ new.created_at = row.created_at
        /\ new.attempt_count = row.attempt_count
    BY <2>1 DEF TypeOK, ExecutionRow
  <2>3. status \in Terminal
    BY DEF OutcomeStatus, Terminal
  <2>4. ExecutionExplained(status, audit[r] \union {event})
    <3>1. ExecutionExplained(row.status, audit[r])
      BY <2>1 DEF AuditExplainsStatus
    <3>2. CASE op = "execute"
      BY <2>1, <3>1, <3>2
      DEF ExecutionExplained, OutcomeStatus, OutcomeEvent, RollbackPhase, Claimed
    <3>3. CASE op = "rollback"
      BY <2>1, <3>1, <3>3
      DEF ExecutionExplained, OutcomeStatus, OutcomeEvent, RollbackPhase, Claimed
    <3>4. QED
      BY <3>2, <3>3
  <2>5. Present(r) /\ status # row.status
    BY <2>1, <2>3 DEF Present, Claimed, Terminal
  <2> HIDE DEF new, status, event, Inductive
  <2>6. QED
    BY <1>2, <1>4, <2>2, <2>3, <2>4, <2>5 DEF TransactionSound, Present
<1>7. QED
  BY <1>1, <1>3, <1>5, <1>6 DEF TableInvariants

(* A step that changes no decision, execution, audit event or transaction.  *)
LEMMA InductiveFrame ==
  ASSUME Inductive, TypeOK', UNCHANGED <<execs, audit>>, claims' \subseteq claims,
         \A w \in Workers : txns'[w] = txns[w] \/ txns'[w] = Idle,
         \A r \in Recommendations :
           /\ recs'[r].status = recs[r].status
           /\ recs'[r].approved_action = recs[r].approved_action
  PROVE  Inductive'
<1>1. TableInvariants'
  BY TablesKept DEF Inductive, TableInvariants
<1>2. ASSUME NEW w \in Workers PROVE TransactionSound(w)'
  <2>1. CASE txns'[w] = txns[w]
    BY <2>1, SoundnessKept DEF Inductive, Present
  <2>2. CASE txns'[w] = Idle
    BY <2>2 DEF TransactionSound, Idle
  <2>3. QED
    BY <2>1, <2>2
<1>3. QED
  BY <1>1, <1>2 DEF Inductive, TableInvariants

LEMMA InductiveLease ==
  ASSUME ConstantsAssumption, Inductive, NEW r \in Recommendations, LeaseExpires(r)
  PROVE  Inductive'
<1> USE DEF Inductive
<1>1. TypeOK'
  BY TypeStep DEF Next, Passing
<1>2. UNCHANGED <<recs, audit, txns, claims>>
  BY DEF LeaseExpires
<1>3. /\ execs'[r].status = execs[r].status
      /\ execs'[r].executor = execs[r].executor
      /\ execs'[r].lease = "expired"
      /\ execs'[r].attempt_count = execs[r].attempt_count
      /\ execs'[r].action_type = execs[r].action_type
  BY DEF LeaseExpires, TypeOK, ExecutionRow
<1>4. \A q \in Recommendations \ {r} : execs'[q] = execs[q]
  BY DEF LeaseExpires, TypeOK
<1>5. \A q \in Recommendations : Present(q)' = Present(q)
  BY <1>3, <1>4 DEF Present
<1>6. AuthorizedExecution'
  BY <1>2, <1>3, <1>4, <1>5 DEF AuthorizedExecution, AllowedActions, HasTarget
<1>7. ClaimIsRecoverable'
  BY <1>3, <1>4 DEF ClaimIsRecoverable
<1>8. ClaimMatchesRow'
  BY <1>2, <1>3, <1>4, <1>5 DEF ClaimMatchesRow, TypeOK, Claim
<1>9. AuditExplainsStatus'
  BY <1>2, <1>3, <1>4 DEF AuditExplainsStatus
<1>10. ApprovalHasExecution'
  BY <1>2, <1>5 DEF ApprovalHasExecution
<1>11. \A v \in Workers : TransactionSound(v)'
  BY <1>2, <1>5, SoundnessKept
<1>12. QED
  BY <1>1, <1>6, <1>7, <1>8, <1>9, <1>10, <1>11

LEMMA InductiveStep ==
  ASSUME ConstantsAssumption, Inductive, [Next]_vars
  PROVE  Inductive'
<1>1. TypeOK'
  BY TypeStep DEF Inductive
<1>2. ASSUME NEW c \in claims, DropClaim(c) PROVE Inductive'
  BY <1>1, <1>2, InductiveFrame DEF DropClaim
<1>3. ASSUME NEW r \in Recommendations, RecommendationAges(r) PROVE Inductive'
  <2>1. UNCHANGED <<execs, audit, txns, claims>>
    BY <1>3 DEF RecommendationAges
  <2>2. \A q \in Recommendations :
          /\ recs'[q].status = recs[q].status
          /\ recs'[q].approved_action = recs[q].approved_action
    BY <1>3 DEF RecommendationAges, Inductive, TypeOK, RecommendationRow
  <2>3. QED
    BY <1>1, <2>1, <2>2, InductiveFrame
<1>4. ASSUME NEW m \in {"disabled", "live"}, RestartBackend(m) PROVE Inductive'
  BY <1>1, <1>4, InductiveFrame DEF RestartBackend
<1>5. CASE UNCHANGED vars
  BY <1>1, <1>5, InductiveFrame DEF vars
<1>6. QED
  BY <1>2, <1>3, <1>4, <1>5, InductiveRead, InductiveCommit, InductiveClaim,
     InductiveClaimNothing, InductiveComplete, InductiveLease
  DEF Next, ResponderRequest, Passing

(* Inductive is an invariant: what an open transaction carries stays sound  *)
(* until it commits, and with it every property of the tables.              *)
THEOREM InductiveInvariant == Spec => []Inductive
<1>1. Init => Inductive
  BY ConstantsAssumption, InductiveInit
<1>2. Inductive /\ [Next]_vars => Inductive'
  BY ConstantsAssumption, InductiveStep
<1>3. QED
  BY <1>1, <1>2, PTL DEF Spec

(* No action is queued or executed without an approval of exactly that      *)
(* action, and the policy allowed it.                                       *)
THEOREM ExecutionsAreAuthorized == Spec => []AuthorizedExecution
BY InductiveInvariant, PTL DEF Inductive

(* No claim is ever stuck without an executor or a lease to expire.         *)
THEOREM ClaimsAreRecoverable == Spec => []ClaimIsRecoverable
BY InductiveInvariant, PTL DEF Inductive

(* A claimed row belongs to the newest claim handed out for it.             *)
THEOREM ClaimsMatchTheirRows == Spec => []ClaimMatchesRow
BY InductiveInvariant, PTL DEF Inductive

(* Claims are leases: each can run out, and only the newest one of a row is *)
(* the row's.                                                               *)
THEOREM ClaimsAreSound == Spec => []ClaimIsSound
BY ClaimsAreRecoverable, ClaimsMatchTheirRows, PTL DEF ClaimIsSound

(* Every status has its events in the audit trail.                          *)
THEOREM AuditIsComplete == Spec => []AuditExplainsStatus
BY InductiveInvariant, PTL DEF Inductive

-------------------------------------------------------------------------------
(* Action properties. *)

ActionKept(r) ==
  /\ execs'[r].action_type = execs[r].action_type
  /\ execs'[r].created_at = execs[r].created_at
  /\ recs'[r].approved_action = recs[r].approved_action

LEMMA CommitKeepsAction ==
  ASSUME ConstantsAssumption, Inductive, NEW w \in Workers, Commit(w),
         NEW r \in Recommendations, Present(r)
  PROVE  ActionKept(r)
<1> DEFINE t == txns[w]
<1> USE DEF Inductive
<1>1. t \in Transaction \union {Idle}
  BY DEF TypeOK
<1>2. CASE CommitGenerate(w)
  <2>1. recs[r].status # "absent"
    BY DEF AuthorizedExecution, AuditExplainsStatus
  <2>2. t.new \in SUBSET Recommendations
    BY <1>1, <1>2, TransactionKinds DEF CommitGenerate, GenerateTxn
  <2>3. recs'[r] = recs[r] /\ execs'[r] = execs[r]
    BY <1>2, <2>1, <2>2 DEF CommitGenerate
  <2>4. QED
    BY <2>3 DEF ActionKept
<1>3. CASE CommitApprove(w)
  <2>1. t.rec \in Recommendations
    BY <1>1, <1>3, TransactionKinds DEF CommitApprove, DecisionTxn
  <2>2. recs'[r] = recs[r] /\ execs'[r] = execs[r]
    BY <1>3, <2>1 DEF CommitApprove, Duplicate, TypeOK
  <2>3. QED
    BY <2>2 DEF ActionKept
<1>4. CASE CommitReject(w)
  <2>1. t.rec \in Recommendations /\ t.new.approved_action = t.seen.approved_action
    BY <1>1, <1>4, TransactionKinds DEF CommitReject, DecisionTxn, TransactionSound
  <2>2. recs' = [recs EXCEPT ![t.rec] = Flush(t.seen, t.new, recs[t.rec])]
    BY <1>4, <2>1 DEF CommitReject, TypeOK
  <2>3. recs'[r].approved_action = recs[r].approved_action
    <3>1. CASE r = t.rec
      <4>1. "approved_action" \in DOMAIN recs[r]
        BY DEF TypeOK, RecommendationRow
      <4>2. QED
        BY <2>1, <2>2, <3>1, <4>1 DEF Flush, TypeOK
    <3>2. CASE r # t.rec
      BY <2>2, <3>2 DEF TypeOK
    <3>3. QED
      BY <3>1, <3>2
  <2>4. QED
    BY <1>4, <2>3 DEF CommitReject, ActionKept
<1>5. CASE CommitExecution(w)
  <2>1. CASE r = t.rec
    BY <1>5, <2>1, FlushedExecution DEF CommitExecution, ActionKept
  <2>2. CASE r # t.rec
    BY <1>5, <2>2 DEF CommitExecution, ActionKept, TypeOK
  <2>3. QED
    BY <2>1, <2>2
<1>6. CASE CommitIncident(w)
  BY <1>6 DEF CommitIncident, ActionKept
<1>7. QED
  BY <1>2, <1>3, <1>4, <1>5, <1>6 DEF Commit

LEMMA StepKeepsAction ==
  ASSUME ConstantsAssumption, Inductive, [Next]_vars, NEW r \in Recommendations, Present(r)
  PROVE  ActionKept(r)
<1> USE DEF ActionKept
<1>1. ASSUME NEW x \in Executors, NEW q \in Recommendations, ClaimExecution(x, q)
      PROVE  ActionKept(r)
  <2>1. UNCHANGED recs
    BY <1>1 DEF ClaimExecution
  <2>2. CASE r = q
    <3>1. PICK s, n : execs'[r] = [Requeued(r) EXCEPT !.status = s, !.executor = x,
                                     !.lease = "running", !.attempt_count = n]
      BY <1>1, <2>2 DEF ClaimExecution
    <3>2. QED
      BY <2>1, <3>1, RequeuedRow DEF ExecutionRow
  <2>3. CASE r # q
    <3>1. execs'[r] = Requeued(r)
      BY <1>1, <2>3 DEF ClaimExecution
    <3>2. QED
      BY <2>1, <3>1, RequeuedRow
  <2>4. QED
    BY <2>2, <2>3
<1>2. CASE ClaimNothing
  BY <1>2, RequeuedRow DEF ClaimNothing
<1>3. ASSUME NEW q \in Recommendations, LeaseExpires(q) \/ RecommendationAges(q)
      PROVE  ActionKept(r)
  <2>1. execs[r] \in ExecutionRow /\ recs[r] \in RecommendationRow
    BY DEF Inductive, TypeOK
  <2>2. CASE LeaseExpires(q)
    <3>1. recs' = recs /\ execs' = [execs EXCEPT ![q].lease = "expired"]
      BY <2>2 DEF LeaseExpires
    <3>2. QED
      BY <2>1, <3>1 DEF ExecutionRow, Inductive, TypeOK
  <2>3. CASE RecommendationAges(q)
    <3>1. execs' = execs /\ recs' = [recs EXCEPT ![q].aged = TRUE]
      BY <2>3 DEF RecommendationAges
    <3>2. QED
      BY <2>1, <3>1 DEF RecommendationRow, Inductive, TypeOK
  <2>4. QED
    BY <1>3, <2>2, <2>3
<1>4. ASSUME UNCHANGED <<recs, execs>> PROVE ActionKept(r)
  BY <1>4
<1>5. ASSUME NEW w \in Workers, OperatorRequest(w) PROVE ActionKept(r)
  BY <1>4, <1>5 DEF OperatorRequest, GenerateRead, IncidentRead, ApproveRead, RejectRead,
                    RollbackRead, RetryRead
<1>6. QED
  BY <1>1, <1>2, <1>3, <1>4, <1>5, CommitKeepsAction
  DEF Next, ResponderRequest, CompleteRead, DropClaim, Passing, RestartBackend, vars

(* Once an execution exists, its action, its creation time and the approved *)
(* action of its recommendation are fixed.                                  *)
THEOREM ApprovalsAreBinding == Spec => ApprovalIsBinding
<1>1. Inductive /\ [Next]_vars =>
        [\A r \in Recommendations : Present(r) => ActionKept(r)]_vars
  BY ConstantsAssumption, StepKeepsAction
<1>2. QED
  BY <1>1, InductiveInvariant, PTL DEF Spec, ApprovalIsBinding, ActionKept

StartAllowed(r) ==
  /\ execs'[r].status = "claimed"
  /\ execs'[r].attempt_count # execs[r].attempt_count
  /\ execs[r].action_type \in Disruptive
  => mode = "live" /\ execs[r].status \in {"pending", "claimed"}

LEMMA StepStartsAllowed ==
  ASSUME ConstantsAssumption, Inductive, [Next]_vars, NEW r \in Recommendations
  PROVE  StartAllowed(r)
<1> USE DEF StartAllowed
<1>1. ASSUME NEW x \in Executors, NEW q \in Recommendations, ClaimExecution(x, q)
      PROVE  StartAllowed(r)
  <2>1. CASE r = q
    <3>1. SUFFICES ASSUME execs'[r].status = "claimed"
                   PROVE  /\ Requeued(r).status = "pending"
                          /\ execs[r].action_type \in Disruptive => mode = "live"
      BY <3>1, RequeuedRow
    <3>2. OperationOn(r) = "execute"
      <4>1. CASE OperationOn(r) # "execute"
        <5>1. PICK n : execs'[r] = [Requeued(r) EXCEPT !.status = "rollback_claimed",
                            !.executor = x, !.lease = "running", !.attempt_count = n]
          BY <1>1, <2>1, <4>1 DEF ClaimExecution
        <5>2. QED
          BY <3>1, <5>1, RequeuedRow DEF ExecutionRow
      <4>2. QED
        BY <4>1
    <3>3. Requeued(r).status = "pending" /\ ModeAllows(r)
      BY <1>1, <2>1, <3>2 DEF ClaimExecution, Claimable, OperationOn,
                         RequestedRollbacks, PendingActions
    <3>4. QED
      BY <3>3 DEF ModeAllows, Disruptive
  <2>2. CASE r # q
    BY <1>1, <2>2, RequeuedRow DEF ClaimExecution
  <2>3. QED
    BY <2>1, <2>2
<1>2. CASE ClaimNothing
  BY <1>2, RequeuedRow DEF ClaimNothing
<1>3. ASSUME NEW q \in Recommendations, LeaseExpires(q)
      PROVE  StartAllowed(r)
  BY <1>3 DEF LeaseExpires, Inductive, TypeOK, ExecutionRow
<1>4. ASSUME UNCHANGED execs PROVE StartAllowed(r)
  BY <1>4
<1>5. ASSUME NEW w \in Workers, OperatorRequest(w) PROVE StartAllowed(r)
  BY <1>4, <1>5 DEF OperatorRequest, GenerateRead, IncidentRead, ApproveRead, RejectRead,
                    RollbackRead, RetryRead
<1>6. ASSUME NEW w \in Workers, Commit(w) PROVE StartAllowed(r)
  <2> DEFINE t == txns[w]
  <2>1. CASE CommitExecution(w) /\ r = t.rec
    BY <2>1, FlushedExecution DEF Inductive
  <2>2. CASE CommitExecution(w) /\ r # t.rec
    BY <2>2 DEF CommitExecution, Inductive, TypeOK
  <2>3. CASE CommitApprove(w)
    <3>1. CASE Duplicate(t.rec) \/ r # t.rec
      BY <2>3, <3>1 DEF CommitApprove, Inductive, TypeOK
    <3>2. CASE ~Duplicate(t.rec) /\ r = t.rec
      <4>1. execs'[r] = [AbsentExecution EXCEPT !.status = "pending",
                           !.action_type = t.new.approved_action, !.created_at = clock]
        BY <2>3, <3>2 DEF CommitApprove, Inductive, TypeOK
      <4>2. execs'[r].status = "pending"
        BY <4>1 DEF AbsentExecution
      <4>3. QED
        BY <4>2
    <3>3. QED
      BY <3>1, <3>2
  <2>4. CASE CommitGenerate(w) \/ CommitReject(w) \/ CommitIncident(w)
    BY <1>4, <2>4 DEF CommitGenerate, CommitReject, CommitIncident
  <2>5. QED
    BY <1>6, <2>1, <2>2, <2>3, <2>4 DEF Commit
<1>7. QED
  BY <1>1, <1>2, <1>3, <1>4, <1>5, <1>6
  DEF Next, ResponderRequest, CompleteRead, DropClaim, Passing, RecommendationAges,
      RestartBackend, vars

(* A disruptive action starts only in live mode, and only from the queue.   *)
THEOREM DisruptionNeedsLiveMode == Spec => NoDisruptionWhileDisabled
<1>1. Inductive /\ [Next]_vars => [\A r \in Recommendations : StartAllowed(r)]_vars
  BY ConstantsAssumption, StepStartsAllowed
<1>2. QED
  BY <1>1, InductiveInvariant, PTL DEF Spec, NoDisruptionWhileDisabled, StartAllowed

-------------------------------------------------------------------------------
(* Refinement.  Every open transaction was decided to be a legal move; the  *)
(* move it makes is that of the row it read.                                *)

Legal(w) ==
  LET t == txns[w] IN
  /\ t.op \in {"approve", "reject"} => t.seen.status = "proposed"
  /\ t.op \in {"complete", "rollback", "retry"} =>
       <<ExecutionLife(t.seen), ExecutionLife(t.new)>> \in Lifecycle!RequestMoves

DecisionMatches(r) ==
  /\ recs[r].status \in {"absent", "proposed"} => ~Present(r)
  /\ recs[r].status = "approved" => Present(r)

Decisive == (\A r \in Recommendations : DecisionMatches(r)) /\ \A w \in Workers : Legal(w)

(* What one step does to a recommendation, told with ResponseLifecycle.     *)
Follows(r) ==
  /\ \A m \in Requests(r)' \ Requests(r) : m \in Lifecycle!RequestMoves /\ m[1] = Life(r)
  /\ \/ Life(r)' = Life(r)
     \/ <<Life(r), Life(r)'>> \in Lifecycle!QueueMoves
     \/ \E m \in Requests(r) : Lifecycle!Leads(m, Life(r)')

(* A rejection is never taken back from a recommendation with an execution. *)
LEMMA RejectedStays ==
  ASSUME Inductive, Decisive, [Next]_vars, NEW r \in Recommendations, Present(r),
         recs[r].status = "rejected"
  PROVE  recs'[r].status = "rejected"
<1>1. recs[r] \in RecommendationRow
  BY DEF Inductive, TypeOK
<1>2. ASSUME UNCHANGED recs PROVE recs'[r].status = "rejected"
  BY <1>2
<1>3. ASSUME NEW w \in Workers, OperatorRequest(w) PROVE UNCHANGED recs
  BY <1>3 DEF OperatorRequest, GenerateRead, IncidentRead, ApproveRead, RejectRead,
              RollbackRead, RetryRead
<1>4. ASSUME NEW w \in Workers, Commit(w) PROVE recs'[r].status = "rejected"
  <2> DEFINE t == txns[w]
  <2>1. CASE CommitGenerate(w)
    BY <2>1 DEF CommitGenerate
  <2>2. CASE CommitApprove(w)
    BY <2>2 DEF CommitApprove, Duplicate, Inductive, TypeOK
  <2>3. CASE CommitReject(w)
    <3>1. t.seen.status = "proposed" /\ t.new.status = "rejected"
      BY <2>3 DEF CommitReject, Decisive, Legal, Inductive, TransactionSound
    <3>2. CASE t.rec = r
      <4>1. recs'[r] = Flush(t.seen, t.new, recs[r]) /\ "status" \in DOMAIN recs[r]
        BY <1>1, <2>3, <3>2 DEF CommitReject, Inductive, TypeOK, RecommendationRow
      <4>2. QED
        BY <3>1, <4>1 DEF Flush
    <3>3. CASE t.rec # r
      BY <2>3, <3>3 DEF CommitReject, Inductive, TypeOK
    <3>4. QED
      BY <3>2, <3>3
  <2>4. CASE CommitExecution(w) \/ CommitIncident(w)
    BY <2>4 DEF CommitExecution, CommitIncident
  <2>5. QED
    BY <1>4, <2>1, <2>2, <2>3, <2>4 DEF Commit
<1>5. ASSUME NEW q \in Recommendations, RecommendationAges(q)
      PROVE  recs'[r].status = "rejected"
  <2>1. recs' = [recs EXCEPT ![q].aged = TRUE]
    BY <1>5 DEF RecommendationAges
  <2>2. QED
    BY <1>1, <2>1 DEF RecommendationRow, Inductive, TypeOK
<1>6. QED
  BY <1>2, <1>3, <1>4, <1>5
  DEF Next, ResponderRequest, ClaimExecution, ClaimNothing, CompleteRead, DropClaim, Passing,
      LeaseExpires, RestartBackend, vars

(* Transactions that only stay open or end bring no new request.            *)
LEMMA RequestsKept ==
  ASSUME Inductive, Decisive, [Next]_vars, NEW w \in Workers,
         txns'[w] = txns[w] \/ txns'[w] = Idle
  PROVE  /\ Legal(w)'
         /\ \A r \in Recommendations : MoveOf(txns[w], r)' \subseteq MoveOf(txns[w], r)
<1>1. CASE txns'[w] = Idle
  BY <1>1 DEF Legal, MoveOf, Idle
<1>2. CASE txns'[w] = txns[w]
  <2> DEFINE t == txns[w]
  <2>1. Legal(w)'
    BY <1>2 DEF Decisive, Legal, ExecutionLife
  <2>2. ASSUME NEW r \in Recommendations, t.op \in {"complete", "rollback", "retry"},
               t.rec = r, recs'[r].status # "rejected"
        PROVE  recs[r].status # "rejected"
    BY <2>2, RejectedStays DEF Inductive, TransactionSound
  <2>3. QED
    BY <1>2, <2>1, <2>2 DEF MoveOf, ExecutionLife
<1>3. QED
  BY <1>1, <1>2

(* What a request decides on when it is read.                               *)
DecidedOn(t) ==
  /\ t.op \in {"generate", "approve", "reject", "complete", "rollback", "retry", "incident"}
  /\ t.op = "generate" => \A r \in t.new : recs[r].status = "absent"
  /\ t.op \in {"approve", "reject"} =>
       /\ t.rec \in Recommendations
       /\ recs[t.rec].status = "proposed" /\ ~Present(t.rec) /\ t.seen.status = "proposed"
  /\ t.op \in {"complete", "rollback", "retry"} =>
       /\ t.rec \in Recommendations /\ Present(t.rec) /\ t.seen = execs[t.rec]
       /\ <<ExecutionLife(t.seen), ExecutionLife(t.new)>> \in Lifecycle!RequestMoves

LEMMA ReadDecides ==
  ASSUME Inductive, Decisive, NEW w \in Workers,
         \/ OperatorRequest(w)
         \/ \E c \in claims, outcome \in Outcomes : CompleteRead(w, c, outcome)
  PROVE  \E t : Open(w, t) /\ DecidedOn(t) /\ UNCHANGED <<recs, execs>>
<1>1. TypeOK
  BY DEF Inductive
<1>2. UNCHANGED <<recs, execs>>
  BY DEF OperatorRequest, GenerateRead, IncidentRead, ApproveRead, RejectRead, RollbackRead,
         RetryRead, CompleteRead
<1>3. ASSUME NEW i \in Incidents, GenerateRead(w, i) PROVE \E t : Open(w, t) /\ DecidedOn(t)
  <2>1. PICK missing : /\ Open(w, [op |-> "generate", incident |-> i, new |-> missing])
                       /\ \A r \in missing : recs[r].status = "absent"
    BY <1>3 DEF GenerateRead
  <2>2. QED
    BY <2>1 DEF DecidedOn
<1>4. ASSUME NEW i \in Incidents, NEW s \in IncidentStatus, IncidentRead(w, i, s)
      PROVE  \E t : Open(w, t) /\ DecidedOn(t)
  BY <1>4 DEF IncidentRead, DecidedOn
<1>5. ASSUME NEW r \in Recommendations, NEW a \in Actions, ApproveRead(w, r, a)
      PROVE  \E t : Open(w, t) /\ DecidedOn(t)
  <2>1. recs[r].status = "proposed" /\ ~Present(r)
    BY <1>1, <1>5 DEF ApproveRead, Decisive, DecisionMatches, TypeOK, RecommendationRow
  <2>2. PICK n : Open(w, [op |-> "approve", rec |-> r, seen |-> recs[r], new |-> n])
    BY <1>5 DEF ApproveRead
  <2>3. QED
    BY <2>1, <2>2 DEF DecidedOn
<1>6. ASSUME NEW r \in Recommendations, RejectRead(w, r)
      PROVE  \E t : Open(w, t) /\ DecidedOn(t)
  <2>1. recs[r].status = "proposed" /\ ~Present(r)
    BY <1>1, <1>6 DEF RejectRead, Decisive, DecisionMatches
  <2>2. PICK n : Open(w, [op |-> "reject", rec |-> r, seen |-> recs[r], new |-> n])
    BY <1>6 DEF RejectRead
  <2>3. QED
    BY <2>1, <2>2 DEF DecidedOn
<1>7. ASSUME NEW r \in Recommendations, RollbackRead(w, r)
      PROVE  \E t : Open(w, t) /\ DecidedOn(t)
  <2> DEFINE new == [execs[r] EXCEPT !.status = "rollback_pending",
                                     !.rollback_requested_at = clock]
  <2>1. Open(w, [op |-> "rollback", rec |-> r, seen |-> execs[r], new |-> new,
                 event |-> "rollback_requested"])
    BY <1>7 DEF RollbackRead
  <2>2. new.status = "rollback_pending" /\ execs[r].status = "succeeded"
    BY <1>1, <1>7 DEF RollbackRead, TypeOK, ExecutionRow
  <2> HIDE DEF new
  <2>3. ExecutionLife(execs[r]) = "succeeded" /\ ExecutionLife(new) = "rollback_pending"
        /\ Present(r)
    BY <2>2 DEF ExecutionLife, Present
  <2>4. QED
    BY <2>1, <2>3 DEF DecidedOn, Lifecycle!RequestMoves
<1>8. ASSUME NEW r \in Recommendations, RetryRead(w, r)
      PROVE  \E t : Open(w, t) /\ DecidedOn(t)
  <2> DEFINE s == IF execs[r].status = "failed" THEN "pending" ELSE "rollback_pending"
             new == [execs[r] EXCEPT !.status = s, !.executor = NoExecutor,
                                     !.lease = "none", !.error_code = NoError]
  <2>1. Open(w, [op |-> "retry", rec |-> r, seen |-> execs[r], new |-> new,
                 event |-> "execution_retry_requested"])
    BY <1>8 DEF RetryRead
  <2>2. /\ new.status = s
        /\ execs[r].status \in {"failed", "rollback_failed"}
        /\ execs[r].error_code \in RetryableCodes
    BY <1>1, <1>8 DEF RetryRead, TypeOK, ExecutionRow
  <2> HIDE DEF new
  <2>3. /\ ExecutionLife(execs[r]) = execs[r].status /\ ExecutionLife(new) = s
        /\ Present(r)
    BY <2>2 DEF ExecutionLife, Present
  <2>4. QED
    BY <2>1, <2>2, <2>3 DEF DecidedOn, Lifecycle!RequestMoves
<1>9. ASSUME NEW c \in claims, NEW outcome \in Outcomes, CompleteRead(w, c, outcome)
      PROVE  \E t : Open(w, t) /\ DecidedOn(t)
  <2> DEFINE row == execs[c.rec]
             operation == IF row.status = "rollback_claimed" THEN "rollback" ELSE "execute"
             s == OutcomeStatus(operation, outcome = NoError)
             new == [row EXCEPT !.status = s, !.lease = "none", !.error_code = outcome]
  <2>1. c.rec \in Recommendations /\ row \in ExecutionRow /\ row.status \in Claimed
    BY <1>1, <1>9 DEF CompleteRead, TypeOK, Claim
  <2>2. PICK e : Open(w, [op |-> "complete", rec |-> c.rec, seen |-> row, new |-> new,
                          event |-> e])
    BY <1>9 DEF CompleteRead
  <2> HIDE DEF new, s
  <2>3. new.status = s
    BY <2>1 DEF ExecutionRow, new
  <2>4. \/ row.status = "claimed" /\ s \in {"succeeded", "failed"}
        \/ row.status = "rollback_claimed" /\ s \in {"rolled_back", "rollback_failed"}
    BY <2>1 DEF Claimed, OutcomeStatus, s
  <2>5. ExecutionLife(row) = row.status /\ Present(c.rec)
    BY <2>4 DEF ExecutionLife, Present
  <2>6. \/ ExecutionLife(new) = s
        \/ s = "failed" /\ ExecutionLife(new) = "abandoned"
        \/ s = "rollback_failed" /\ ExecutionLife(new) = "rollback_abandoned"
    BY <2>3 DEF ExecutionLife
  <2>7. <<ExecutionLife(row), ExecutionLife(new)>> \in Lifecycle!RequestMoves
    BY <2>4, <2>5, <2>6 DEF Lifecycle!RequestMoves
  <2> DEFINE t == [op |-> "complete", rec |-> c.rec, seen |-> row, new |-> new, event |-> e]
  <2>8. t.op = "complete" /\ t.rec = c.rec /\ t.seen = row /\ t.new = new
    OBVIOUS
  <2> HIDE DEF row, t
  <2>9. DecidedOn(t)
    BY <2>1, <2>5, <2>7, <2>8 DEF DecidedOn, row
  <2>10. QED
    BY <2>2, <2>9 DEF t
<1>10. QED
  BY <1>2, <1>3, <1>4, <1>5, <1>6, <1>7, <1>8, <1>9 DEF OperatorRequest

(* A request brings a legal move and changes nothing yet.                   *)
LEMMA ReadFollows ==
  ASSUME Inductive, Decisive, [Next]_vars, NEW w \in Workers,
         \/ OperatorRequest(w)
         \/ \E c \in claims, outcome \in Outcomes : CompleteRead(w, c, outcome)
  PROVE  Decisive' /\ \A r \in Recommendations : Follows(r)
<1>1. PICK t : Open(w, t) /\ DecidedOn(t) /\ UNCHANGED <<recs, execs>>
  BY ReadDecides
<1>2. txns'[w] = t /\ \A v \in Workers \ {w} : txns'[v] = txns[v]
  BY <1>1 DEF Open, Inductive, TypeOK
<1>3. Legal(w)'
  BY <1>1, <1>2 DEF DecidedOn, Legal, ExecutionLife
<1>4. \A v \in Workers \ {w} : Legal(v)'
  BY <1>2, RequestsKept
<1>5. \A r \in Recommendations : DecisionMatches(r)' /\ Life(r)' = Life(r)
  BY <1>1 DEF Decisive, DecisionMatches, Present, Life, ExecutionLife
<1>6. ASSUME NEW r \in Recommendations, NEW m \in Requests(r)' \ Requests(r)
      PROVE  m \in Lifecycle!RequestMoves /\ m[1] = Life(r)
  <2>1. PICK v \in Workers : m \in MoveOf(txns[v], r)'
    BY <1>6 DEF Requests
  <2>2. v = w
    BY <1>2, <1>6, <2>1, RequestsKept DEF Requests
  <2>3. m \in MoveOf(t, r)
    BY <1>1, <1>2, <2>1, <2>2 DEF MoveOf, ExecutionLife
  <2>4. CASE t.op = "generate"
    <3>1. recs[r].status = "absent" /\ m = <<"absent", "proposed">>
      BY <1>1, <2>3, <2>4 DEF MoveOf, DecidedOn
    <3>2. QED
      BY <3>1 DEF Life, Decisive, DecisionMatches, Lifecycle!RequestMoves
  <2>5. CASE t.op \in {"approve", "reject"}
    <3>1. /\ t.rec = r /\ t.seen.status = "proposed"
          /\ m = <<"proposed", IF t.op = "approve" THEN "pending" ELSE "rejected">>
      BY <1>1, <2>3, <2>5 DEF MoveOf, DecidedOn
    <3>2. Life(r) = "proposed"
      BY <1>1, <2>5, <3>1 DEF Life, DecidedOn
    <3>3. QED
      BY <3>1, <3>2 DEF Lifecycle!RequestMoves
  <2>6. CASE t.op \in {"complete", "rollback", "retry"}
    <3>1. /\ t.rec = r /\ recs[r].status # "rejected"
          /\ m = <<ExecutionLife(t.seen), ExecutionLife(t.new)>>
      BY <2>3, <2>6 DEF MoveOf
    <3>2. Life(r) = ExecutionLife(t.seen)
      BY <1>1, <2>6, <3>1 DEF Life, DecidedOn
    <3>3. QED
      BY <1>1, <2>6, <3>1, <3>2 DEF DecidedOn
  <2>7. CASE t.op = "incident"
    BY <2>3, <2>7 DEF MoveOf
  <2>8. QED
    BY <1>1, <2>4, <2>5, <2>6, <2>7 DEF DecidedOn
<1>7. QED
  BY <1>3, <1>4, <1>5, <1>6 DEF Decisive, Follows

(* What the claim handler does to the status of an execution.               *)
Polls ==
  {<<"pending", "claimed">>, <<"claimed", "pending">>,
   <<"rollback_pending", "rollback_claimed">>, <<"rollback_claimed", "rollback_pending">>}

Polled(r) ==
  /\ recs'[r] = recs[r]
  /\ execs'[r].error_code = execs[r].error_code
  /\ \/ execs'[r].status = execs[r].status
     \/ <<execs[r].status, execs'[r].status>> \in Polls

LEMMA PollStep ==
  ASSUME Inductive, NEW r \in Recommendations,
         ClaimNothing \/ \E x \in Executors, q \in Recommendations : ClaimExecution(x, q)
  PROVE  Polled(r) /\ UNCHANGED txns
<1>1. Requeued(r) \in ExecutionRow
  BY RequeuedRow
<1>2. /\ Requeued(r).error_code = execs[r].error_code
      /\ \/ Requeued(r).status = execs[r].status
         \/ execs[r].status = "claimed" /\ Requeued(r).status = "pending"
         \/ execs[r].status = "rollback_claimed" /\ Requeued(r).status = "rollback_pending"
  <2> DEFINE row == execs[r]
  <2>1. row \in ExecutionRow
    BY DEF Inductive, TypeOK
  <2>2. CASE row.status \in DOMAIN Requeue /\ row.lease = "expired"
    <3>1. Requeued(r) = [row EXCEPT !.status = Requeue[row.status], !.executor = NoExecutor,
                                    !.lease = "none"]
      BY <2>2 DEF Requeued
    <3>2. Requeued(r).status = Requeue[row.status] /\ Requeued(r).error_code = row.error_code
      BY <2>1, <3>1 DEF ExecutionRow
    <3>3. QED
      BY <2>2, <3>2 DEF Requeue
  <2>3. CASE ~(row.status \in DOMAIN Requeue /\ row.lease = "expired")
    BY <2>3 DEF Requeued
  <2>4. QED
    BY <2>2, <2>3
<1>3. ASSUME execs'[r] = Requeued(r), UNCHANGED recs PROVE Polled(r)
  BY <1>2, <1>3 DEF Polled, Polls
<1>4. CASE ClaimNothing
  BY <1>3, <1>4 DEF ClaimNothing
<1>5. ASSUME NEW x \in Executors, NEW q \in Recommendations, ClaimExecution(x, q)
      PROVE  Polled(r) /\ UNCHANGED txns
  <2>1. UNCHANGED <<recs, txns>>
    BY <1>5 DEF ClaimExecution
  <2>2. CASE q = r
    <3>1. /\ OperationOn(r) = "execute" => Requeued(r).status = "pending"
          /\ OperationOn(r) # "execute" => Requeued(r).status = "rollback_pending"
      BY <1>5, <2>2 DEF ClaimExecution, Claimable, OperationOn,
                           RequestedRollbacks, PendingActions
    <3>2. PICK s, n : /\ s = IF OperationOn(r) = "execute" THEN "claimed" ELSE "rollback_claimed"
                      /\ execs'[r] = [Requeued(r) EXCEPT !.status = s, !.executor = x,
                                        !.lease = "running", !.attempt_count = n]
      BY <1>5, <2>2 DEF ClaimExecution
    <3>3. execs'[r].status = s /\ execs'[r].error_code = Requeued(r).error_code
      BY <1>1, <3>2 DEF ExecutionRow
    <3>4. QED
      BY <1>2, <2>1, <3>1, <3>2, <3>3 DEF Polled, Polls
  <2>3. CASE q # r
    <3>1. execs'[r] = Requeued(r)
      BY <1>5, <2>3 DEF ClaimExecution
    <3>2. QED
      BY <1>3, <2>1, <3>1
  <2>4. QED
    BY <2>2, <2>3
<1>6. QED
  BY <1>4, <1>5 DEF ClaimNothing

(* Steps that neither move a status nor open a transaction.                 *)
Still(r) ==
  /\ recs'[r].status = recs[r].status
  /\ execs'[r].status = execs[r].status
  /\ execs'[r].error_code = execs[r].error_code

LEMMA QuietStep ==
  ASSUME Inductive, NEW r \in Recommendations,
         \/ \E c \in claims : DropClaim(c)
         \/ Passing
         \/ \E m \in {"disabled", "live"} : RestartBackend(m)
         \/ UNCHANGED vars
  PROVE  Still(r) /\ \A w \in Workers : txns'[w] = txns[w] \/ txns'[w] = Idle
<1>1. execs[r] \in ExecutionRow /\ recs[r] \in RecommendationRow
  BY DEF Inductive, TypeOK
<1>2. ASSUME NEW q \in Recommendations, LeaseExpires(q) PROVE Still(r) /\ UNCHANGED txns
  <2>1. execs' = [execs EXCEPT ![q].lease = "expired"] /\ UNCHANGED <<recs, txns>>
    BY <1>2 DEF LeaseExpires
  <2>2. QED
    BY <1>1, <2>1 DEF Still, ExecutionRow, Inductive, TypeOK
<1>3. ASSUME NEW q \in Recommendations, RecommendationAges(q) PROVE Still(r) /\ UNCHANGED txns
  <2>1. recs' = [recs EXCEPT ![q].aged = TRUE] /\ UNCHANGED <<execs, txns>>
    BY <1>3 DEF RecommendationAges
  <2>2. QED
    BY <1>1, <2>1 DEF Still, RecommendationRow, Inductive, TypeOK
<1>4. ASSUME NEW m, RestartBackend(m) PROVE Still(r) /\ \A w \in Workers : txns'[w] = Idle
  BY <1>4 DEF RestartBackend, Still
<1>5. QED
  BY <1>2, <1>3, <1>4 DEF Passing, DropClaim, Still, vars

(* A step that opens nothing follows the lifecycle if its moves do.         *)
LEMMA ClosingFollows ==
  ASSUME Inductive, Decisive, [Next]_vars,
         \A w \in Workers : txns'[w] = txns[w] \/ txns'[w] = Idle,
         \A r \in Recommendations :
           /\ DecisionMatches(r)'
           /\ \/ Life(r)' = Life(r)
              \/ <<Life(r), Life(r)'>> \in Lifecycle!QueueMoves
              \/ \E m \in Requests(r) : Lifecycle!Leads(m, Life(r)')
  PROVE  Decisive' /\ \A r \in Recommendations : Follows(r)
<1>1. \A r \in Recommendations : Requests(r)' \subseteq Requests(r)
  BY RequestsKept DEF Requests
<1>2. QED
  BY <1>1, RequestsKept DEF Decisive, Follows

LEMMA StillFollows ==
  ASSUME NEW r \in Recommendations, Still(r), DecisionMatches(r)
  PROVE  DecisionMatches(r)' /\ Life(r)' = Life(r)
BY DEF Still, DecisionMatches, Present, Life, ExecutionLife

LEMMA PolledFollows ==
  ASSUME NEW r \in Recommendations, Polled(r), DecisionMatches(r)
  PROVE  /\ DecisionMatches(r)'
         /\ Life(r)' = Life(r) \/ <<Life(r), Life(r)'>> \in Lifecycle!QueueMoves
<1>1. CASE execs'[r].status = execs[r].status
  BY <1>1, StillFollows DEF Polled, Still
<1>2. CASE <<execs[r].status, execs'[r].status>> \in Polls
  <2>1. Present(r) /\ Present(r)' /\ recs'[r] = recs[r]
    BY <1>2 DEF Polls, Polled, Present
  <2>2. DecisionMatches(r)'
    BY <2>1 DEF DecisionMatches
  <2>3. /\ ExecutionLife(execs[r]) = execs[r].status
        /\ ExecutionLife(execs'[r]) = execs'[r].status
    BY <1>2 DEF Polls, ExecutionLife
  <2>4. CASE recs[r].status = "rejected"
    BY <2>1, <2>2, <2>4 DEF Life
  <2>5. CASE recs[r].status # "rejected"
    BY <1>2, <2>1, <2>2, <2>3, <2>5 DEF Life, ExecutionLife, Polls, Lifecycle!QueueMoves
  <2>6. QED
    BY <2>4, <2>5
<1>3. QED
  BY <1>1, <1>2 DEF Polled

(* Commits make the move they were decided to be, whatever the row is now.  *)
CommitFollows(r) ==
  /\ DecisionMatches(r)'
  /\ Life(r)' = Life(r) \/ \E m \in Requests(r) : Lifecycle!Leads(m, Life(r)')

LEMMA UntouchedFollows ==
  ASSUME NEW r \in Recommendations, recs'[r] = recs[r], execs'[r] = execs[r], DecisionMatches(r)
  PROVE  CommitFollows(r)
BY StillFollows DEF Still, CommitFollows

LEMMA MoveIsMade ==
  ASSUME NEW r \in Recommendations, NEW w \in Workers, NEW m \in MoveOf(txns[w], r),
         Life(r)' = m[2], DecisionMatches(r)'
  PROVE  CommitFollows(r)
<1>1. m \in Requests(r) /\ Lifecycle!Leads(m, Life(r)')
  BY DEF Requests, Lifecycle!Leads
<1>2. QED
  BY <1>1 DEF CommitFollows

LEMMA GenerateFollows ==
  ASSUME Inductive, Decisive, NEW w \in Workers, CommitGenerate(w), NEW r \in Recommendations
  PROVE  CommitFollows(r)
<1>1. execs'[r] = execs[r] /\ DecisionMatches(r)
  BY DEF CommitGenerate, Decisive
<1>2. CASE recs'[r] = recs[r]
  BY <1>1, <1>2, UntouchedFollows
<1>3. CASE recs'[r] # recs[r]
  <2>1. recs[r].status = "absent" /\ recs'[r] = NewRecommendation /\ r \in txns[w].new
    BY <1>3 DEF CommitGenerate, Inductive, TypeOK
  <2>2. recs'[r].status = "proposed"
    BY <2>1 DEF NewRecommendation, AbsentRecommendation
  <2>3. ~Present(r)'
    BY <1>1, <2>1 DEF DecisionMatches, Present
  <2>4. DecisionMatches(r)' /\ Life(r)' = "proposed"
    BY <2>2, <2>3 DEF DecisionMatches, Life
  <2>5. <<"absent", "proposed">> \in MoveOf(txns[w], r)
    BY <2>1 DEF CommitGenerate, MoveOf
  <2>6. QED
    BY <2>4, <2>5, MoveIsMade
<1>4. QED
  BY <1>2, <1>3

LEMMA DecisionFollows ==
  ASSUME Inductive, Decisive, NEW w \in Workers, CommitApprove(w) \/ CommitReject(w),
         NEW r \in Recommendations
  PROVE  CommitFollows(r)
<1> DEFINE t == txns[w]
<1>1. t \in DecisionTxn /\ t.op \in {"approve", "reject"}
  BY TransactionKinds DEF CommitApprove, CommitReject, Inductive, TypeOK
<1>2. t.rec \in Recommendations /\ t.seen.status = "proposed"
      /\ DecisionMatches(r)
  BY <1>1 DEF DecisionTxn, Decisive, Legal
<1>3. CASE r # t.rec \/ (CommitApprove(w) /\ Duplicate(t.rec))
  <2>1. recs'[r] = recs[r] /\ execs'[r] = execs[r]
    BY <1>1, <1>2, <1>3 DEF CommitApprove, CommitReject, Inductive, TypeOK
  <2>2. QED
    BY <1>2, <2>1, UntouchedFollows
<1>4. ASSUME r = t.rec, recs'[r] = Flush(t.seen, t.new, recs[r]),
             t.new.status \in {"approved", "rejected"}
      PROVE  recs'[r].status = t.new.status
  <2>1. "status" \in DOMAIN recs[r]
    BY DEF Inductive, TypeOK, RecommendationRow
  <2>2. QED
    BY <1>2, <1>4, <2>1 DEF Flush
<1>5. CASE r = t.rec /\ CommitApprove(w) /\ ~Duplicate(t.rec)
  <2>1. recs'[r] = Flush(t.seen, t.new, recs[r]) /\ t.new.status = "approved"
    BY <1>2, <1>5 DEF CommitApprove, Inductive, TypeOK, TransactionSound
  <2>2. recs'[r].status = "approved"
    BY <1>4, <1>5, <2>1
  <2>3. execs'[r] = [AbsentExecution EXCEPT !.status = "pending",
                       !.action_type = t.new.approved_action, !.created_at = clock]
    BY <1>2, <1>5 DEF CommitApprove, Inductive, TypeOK
  <2>4. execs'[r].status = "pending"
    BY <2>3 DEF AbsentExecution
  <2>5. DecisionMatches(r)' /\ Life(r)' = "pending"
    BY <2>2, <2>4 DEF DecisionMatches, Present, Life, ExecutionLife
  <2>6. <<"proposed", "pending">> \in MoveOf(t, r)
    BY <1>2, <1>5 DEF MoveOf, CommitApprove
  <2>7. QED
    BY <2>5, <2>6, MoveIsMade
<1>6. CASE r = t.rec /\ CommitReject(w)
  <2>1. recs'[r] = Flush(t.seen, t.new, recs[r]) /\ t.new.status = "rejected"
    BY <1>2, <1>6 DEF CommitReject, Inductive, TypeOK, TransactionSound
  <2>2. recs'[r].status = "rejected"
    BY <1>4, <1>6, <2>1
  <2>3. DecisionMatches(r)' /\ Life(r)' = "rejected"
    BY <2>2 DEF DecisionMatches, Life
  <2>4. <<"proposed", "rejected">> \in MoveOf(t, r)
    BY <1>2, <1>6 DEF MoveOf, CommitReject
  <2>5. QED
    BY <2>3, <2>4, MoveIsMade
<1>7. QED
  BY <1>3, <1>5, <1>6

LEMMA ExecutionFollows ==
  ASSUME Inductive, Decisive, NEW w \in Workers, CommitExecution(w), NEW r \in Recommendations
  PROVE  CommitFollows(r)
<1> DEFINE t == txns[w]
<1>1. /\ t.rec \in Recommendations /\ Present(t.rec)
      /\ execs'[t.rec].status = t.new.status
      /\ execs'[t.rec].status \in Queued \union Terminal
      /\ t.op \in {"complete", "rollback", "retry"}
  BY FlushedExecution DEF Inductive, CommitExecution
<1>2. recs' = recs /\ DecisionMatches(r)
  BY <1>1 DEF CommitExecution, Decisive
<1>3. CASE r # t.rec
  <2>1. execs'[r] = execs[r]
    BY <1>1, <1>3 DEF CommitExecution, Inductive, TypeOK
  <2>2. QED
    BY <1>2, <2>1, UntouchedFollows
<1>4. CASE r = t.rec
  <2>1. Present(r) /\ Present(r)' /\ DecisionMatches(r)'
    BY <1>1, <1>2, <1>4 DEF Present, DecisionMatches, Queued, Terminal
  <2>2. CASE recs[r].status = "rejected"
    BY <1>2, <2>1, <2>2 DEF Life, CommitFollows
  <2>3. CASE recs[r].status # "rejected"
    <3> DEFINE z == t.new.status
               m == <<ExecutionLife(t.seen), ExecutionLife(t.new)>>
    <3>1. m \in MoveOf(t, r)
      BY <1>1, <1>4, <2>3 DEF MoveOf
    <3>2. Life(r)' = ExecutionLife(execs'[r])
      BY <1>2, <2>1, <2>3 DEF Life, ExecutionLife
    <3>3. \/ ExecutionLife(t.new) = z /\ Life(r)' = z
          \/ z = "failed" /\ {ExecutionLife(t.new), Life(r)'} \subseteq {"failed", "abandoned"}
          \/ /\ z = "rollback_failed"
             /\ {ExecutionLife(t.new), Life(r)'} \subseteq {"rollback_failed", "rollback_abandoned"}
      BY <1>1, <1>4, <3>2 DEF ExecutionLife
    <3>4. Lifecycle!Leads(m, Life(r)')
      BY <3>3 DEF Lifecycle!Leads, Lifecycle!Failures
    <3>5. m \in Requests(r)
      BY <3>1 DEF Requests
    <3>6. QED
      BY <2>1, <3>4, <3>5 DEF CommitFollows
  <2>4. QED
    BY <2>2, <2>3
<1>5. QED
  BY <1>3, <1>4

LEMMA LifecycleStep ==
  ASSUME Inductive, Decisive, [Next]_vars
  PROVE  Decisive' /\ \A r \in Recommendations : Follows(r)
<1>1. ASSUME NEW w \in Workers,
             \/ OperatorRequest(w)
             \/ \E c \in claims, outcome \in Outcomes : CompleteRead(w, c, outcome)
      PROVE  Decisive' /\ \A r \in Recommendations : Follows(r)
  BY <1>1, ReadFollows
<1>2. ASSUME NEW w \in Workers, Commit(w)
      PROVE  Decisive' /\ \A r \in Recommendations : Follows(r)
  <2>1. txns' = [txns EXCEPT ![w] = Idle]
    BY <1>2 DEF Commit, CommitGenerate, CommitApprove, CommitReject, CommitExecution,
                CommitIncident, Close
  <2>2. \A v \in Workers : txns'[v] = txns[v] \/ txns'[v] = Idle
    BY <2>1 DEF Inductive, TypeOK
  <2>3. ASSUME NEW r \in Recommendations PROVE CommitFollows(r)
    <3>1. CASE CommitIncident(w)
      BY <3>1, UntouchedFollows DEF CommitIncident, Decisive
    <3>2. QED
      BY <1>2, <3>1, GenerateFollows, DecisionFollows, ExecutionFollows DEF Commit
  <2>4. QED
    BY <2>2, <2>3, ClosingFollows DEF CommitFollows
<1>3. CASE ClaimNothing \/ \E x \in Executors, q \in Recommendations : ClaimExecution(x, q)
  <2>1. UNCHANGED txns
    BY <1>3 DEF ClaimNothing, ClaimExecution
  <2>2. \A r \in Recommendations : Polled(r)
    BY <1>3, PollStep
  <2>3. QED
    BY <2>1, <2>2, PolledFollows, ClosingFollows DEF Decisive
<1>4. CASE \/ \E c \in claims : DropClaim(c)
           \/ Passing
           \/ \E m \in {"disabled", "live"} : RestartBackend(m)
           \/ UNCHANGED vars
  <2>1. ASSUME NEW r \in Recommendations
        PROVE  Still(r) /\ \A w \in Workers : txns'[w] = txns[w] \/ txns'[w] = Idle
    BY <1>4, QuietStep
  <2>2. \A w \in Workers : txns'[w] = txns[w] \/ txns'[w] = Idle
    BY <1>4 DEF DropClaim, Passing, LeaseExpires, RecommendationAges, RestartBackend, vars
  <2>3. QED
    BY <2>1, <2>2, StillFollows, ClosingFollows DEF Decisive
<1>5. QED
  BY <1>1, <1>2, <1>3, <1>4 DEF Next, ResponderRequest

(* Types of the refinement mapping.                                         *)
LEMMA LifeInStates ==
  ASSUME TypeOK, NEW r \in Recommendations, DecisionMatches(r)
  PROVE  Life(r) \in Lifecycle!States
<1> DEFINE Moves == Lifecycle!RequestMoves \union Lifecycle!QueueMoves
<1>1. \A a, b : <<a, b>> \in Moves => b \in Lifecycle!States
  BY DEF Lifecycle!States
<1>2. /\ <<"absent", "proposed">> \in Moves
      /\ <<"proposed", "pending">> \in Moves
      /\ <<"proposed", "rejected">> \in Moves
      /\ <<"pending", "claimed">> \in Moves
      /\ <<"claimed", "succeeded">> \in Moves
      /\ <<"claimed", "failed">> \in Moves
      /\ <<"claimed", "abandoned">> \in Moves
      /\ <<"succeeded", "rollback_pending">> \in Moves
      /\ <<"rollback_pending", "rollback_claimed">> \in Moves
      /\ <<"rollback_claimed", "rolled_back">> \in Moves
      /\ <<"rollback_claimed", "rollback_failed">> \in Moves
      /\ <<"rollback_claimed", "rollback_abandoned">> \in Moves
  BY DEF Lifecycle!RequestMoves, Lifecycle!QueueMoves
<1> HIDE DEF Moves
<1>3. {"proposed", "pending", "rejected", "claimed", "succeeded", "failed", "abandoned",
       "rollback_pending", "rollback_claimed", "rolled_back", "rollback_failed",
       "rollback_abandoned"} \subseteq Lifecycle!States
  BY <1>1, <1>2
<1>4. "absent" \in Lifecycle!States
  BY DEF Lifecycle!States
<1>5. execs[r].status \in {"absent"} \union Queued \union Claimed \union Terminal
  BY DEF TypeOK, ExecutionRow
<1>6. recs[r].status \in {"absent", "proposed", "approved", "rejected"}
  BY DEF TypeOK, RecommendationRow
<1>7. CASE ~Present(r) \/ recs[r].status = "rejected"
  <2>1. Life(r) = recs[r].status /\ recs[r].status # "approved"
    BY <1>7 DEF Life, DecisionMatches
  <2>2. QED
    BY <1>3, <1>4, <1>6, <2>1
<1>8. CASE Present(r) /\ recs[r].status # "rejected"
  <2>1. Life(r) = ExecutionLife(execs[r])
    BY <1>8 DEF Life
  <2>2. execs[r].status \in {"pending", "claimed", "succeeded", "failed", "rollback_pending",
                             "rollback_claimed", "rolled_back", "rollback_failed"}
    BY <1>5, <1>8 DEF Present, Queued, Claimed, Terminal
  <2>3. ExecutionLife(execs[r]) \in {execs[r].status, "abandoned", "rollback_abandoned"}
    BY DEF ExecutionLife
  <2>4. QED
    BY <1>3, <2>1, <2>2, <2>3
<1>9. QED
  BY <1>7, <1>8

LEMMA RequestsAreMoves ==
  ASSUME Decisive, NEW r \in Recommendations
  PROVE  Requests(r) \subseteq Lifecycle!RequestMoves
<1>1. ASSUME NEW w \in Workers, NEW m \in MoveOf(txns[w], r)
      PROVE  m \in Lifecycle!RequestMoves
  <2> DEFINE t == txns[w]
  <2>1. CASE t.op = "generate"
    BY <1>1, <2>1 DEF MoveOf, Lifecycle!RequestMoves
  <2>2. CASE t.op \in {"approve", "reject"}
    <3>1. m = <<"proposed", "pending">> \/ m = <<"proposed", "rejected">>
      BY <1>1, <2>2 DEF MoveOf, Decisive, Legal
    <3>2. QED
      BY <3>1 DEF Lifecycle!RequestMoves
  <2>3. CASE t.op \in {"complete", "rollback", "retry"}
    BY <1>1, <2>3 DEF MoveOf, Decisive, Legal
  <2>4. CASE t.op \notin {"generate", "approve", "reject", "complete", "rollback", "retry"}
    BY <1>1, <2>4 DEF MoveOf
  <2>5. QED
    BY <2>1, <2>2, <2>3, <2>4
<1>2. QED
  BY <1>1 DEF Requests

MapsToTypes ==
  \A r \in Recommendations :
    Life(r) \in Lifecycle!States /\ Requests(r) \subseteq Lifecycle!RequestMoves

(* For any number of handlers that overtake each other, the tables          *)
(* implement ResponseLifecycle: every state a recommendation enters was     *)
(* decided on when it was a legal move, and only the handler that decided   *)
(* writes it; claims and requeues are legal whenever they happen.           *)
THEOREM HandlersFollowLifecycle == Spec => LifecycleSpec
<1> DEFINE life == [r \in Recommendations |-> Life(r)]
           requests == [r \in Recommendations |-> Requests(r)]
<1>1. Init => Lifecycle!Init /\ Decisive
  <2> SUFFICES ASSUME Init PROVE Lifecycle!Init /\ Decisive
    OBVIOUS
  <2>1. \A r \in Recommendations : DecisionMatches(r) /\ Life(r) = "absent"
    BY DEF Init, DecisionMatches, Life, Present, AbsentExecution, AbsentRecommendation
  <2>2. \A w \in Workers : Legal(w) /\ \A r \in Recommendations : MoveOf(txns[w], r) = {}
    BY DEF Init, Legal, MoveOf, Idle
  <2>3. \A r \in Recommendations : Requests(r) = {}
    BY <2>2 DEF Requests
  <2>4. QED
    BY <2>1, <2>2, <2>3 DEF Decisive, Lifecycle!Init
<1>2. Inductive /\ Decisive /\ [Next]_vars => Decisive'
  BY LifecycleStep
<1>3. Inductive /\ Decisive => MapsToTypes
  BY LifeInStates, RequestsAreMoves DEF Inductive, Decisive, MapsToTypes
<1>4. Inductive /\ Decisive /\ MapsToTypes' /\ [Next]_vars
        => [Lifecycle!Next]_<<life, requests>>
  <2> SUFFICES ASSUME Inductive, Decisive, MapsToTypes', [Next]_vars
               PROVE  Lifecycle!Next
    OBVIOUS
  <2>1. \A r \in Recommendations : Follows(r)
    BY LifecycleStep
  <2>2. ASSUME NEW r \in Recommendations PROVE Life(r)' \in Lifecycle!States
    BY DEF MapsToTypes
  <2>3. ASSUME NEW r \in Recommendations PROVE Requests(r)' \in SUBSET Lifecycle!RequestMoves
    BY DEF MapsToTypes
  <2>4. /\ life' \in [Recommendations -> Lifecycle!States]
        /\ requests' \in [Recommendations -> SUBSET Lifecycle!RequestMoves]
    BY <2>2, <2>3
  <2>5. \A r \in Recommendations :
          /\ life[r] = Life(r) /\ life'[r] = Life(r)'
          /\ requests[r] = Requests(r) /\ requests'[r] = Requests(r)'
    OBVIOUS
  <2>6. \A r \in Recommendations : Lifecycle!Decided(r) /\ Lifecycle!Moved(r)
    BY <2>1, <2>5 DEF Follows, Lifecycle!Decided, Lifecycle!Moved
  <2>7. QED
    BY <2>4, <2>6 DEF Lifecycle!Next
<1>5. QED
  BY <1>1, <1>2, <1>3, <1>4, ConstantsAssumption, InductiveInvariant, PTL
  DEF Spec, LifecycleSpec, Lifecycle!Spec

-------------------------------------------------------------------------------
(* Every step of the engine is a step of ResponseApi, or leaves it alone. *)

LEMMA EngineStepsAreApiSteps ==
  ASSUME EngineAssumption, EngineTypeOK, [EngineNext]_engineVars
  PROVE  [Next]_vars
<1>1. ASSUME NEW x \in Executors, NEW r \in Recommendations, ResponderClaims(x, r)
      PROVE  Next
  BY <1>1 DEF ResponderClaims, Next, ResponderRequest
<1>2. ASSUME NEW w \in Workers, NEW m \in reports, ReportRead(w, m) PROVE Next
  <2>1. m.claim \in claims /\ m.outcome \in Outcomes
    BY <1>2 DEF ReportRead, CompleteRead, EngineTypeOK, Report, Outcomes, EngineAssumption
  <2>2. QED
    BY <1>2, <2>1 DEF ReportRead, Next, ResponderRequest
<1>3. ASSUME NEW c, DropClaim(c) PROVE Next
  BY <1>3 DEF DropClaim, Next, ResponderRequest
<1>4. ASSUME NEW x \in Executors, Attempt(x) PROVE UNCHANGED vars
  BY <1>4 DEF Attempt, Inspect, CallDocker, Verify, SendReport, Answered
<1>5. ASSUME NEW x \in Executors, Failure(x) PROVE [Next]_vars
  BY <1>3, <1>5 DEF Failure, DockerAnswerLost, DockerFails, AnswerTimesOut, Crash
<1>6. ASSUME NEW w \in Workers, BackendStep(w) PROVE Next
  BY <1>6 DEF BackendStep, BackendRequest, BackendCommit, Next
<1>7. QED
  BY <1>1, <1>2, <1>3, <1>4, <1>5, <1>6
  DEF EngineNext, ResponderFindsNothing, ReportIgnored, ReportLost, OutsideChange,
      BackendRestarts, TimePasses, Next, ResponderRequest, engineVars

-------------------------------------------------------------------------------
(* Type correctness. *)

(* A responder is in the phase its record is of.                            *)
LEMMA ResponderKinds ==
  ASSUME NEW s \in Responder
  PROVE  /\ s.phase # "idle" => s.claim \in Claim
         /\ s.phase = "idle" => s = Resting
         /\ s.phase = "inspected" => s.seen \in ContainerState
         /\ s.phase = "done" => s.outcome \in {NoError} \union ErrorCodes
         /\ s.phase \in {"idle", "claimed", "inspected", "called", "done", "reporting"}
BY DEF Responder, Resting

LEMMA DoneType ==
  ASSUME NEW claim \in Claim, NEW outcome \in {NoError} \union ErrorCodes
  PROVE  Done(claim, outcome) \in Responder
BY DEF Done, Responder

LEMMA InspectionType ==
  ASSUME NEW claim \in Claim, NEW state,
         HasTarget(claim.rec) => state \in ContainerState
  PROVE  Inspection(claim, state) \in Responder
<1>1. {NoError, "missing_target", "container_not_found", "protected_target", "invalid_request"}
        \subseteq {NoError} \union ErrorCodes
  BY DEF ErrorCodes
<1>2. state \in ContainerState =>
        [phase |-> "inspected", claim |-> claim, seen |-> state] \in Responder
  BY DEF Responder
<1>3. QED
  BY <1>1, <1>2, DoneType DEF Inspection

LEMMA AfterType ==
  ASSUME NEW command, NEW state \in ContainerState
  PROVE  After(command, state) \in ContainerState
BY DEF After, ContainerState

LEMMA FaultType ==
  ASSUME EngineAssumption, EngineTypeOK, Fault
  PROVE  faults' \in 0..MaxFaults
BY DEF EngineAssumption, EngineTypeOK, Fault

(* The container of a claim that has one.                                   *)
LEMMA TargetType ==
  ASSUME EngineAssumption, NEW claim \in Claim, HasTarget(claim.rec)
  PROVE  Target(claim) \in Containers
BY DEF EngineAssumption, Claim, HasTarget, Target

LEMMA EngineTypeInit ==
  ASSUME EngineAssumption, EngineInit
  PROVE  EngineTypeOK
BY TypeInit DEF EngineInit, EngineTypeOK, EngineAssumption, Responder, ContainerState

LEMMA EngineTypeStep ==
  ASSUME EngineAssumption, EngineTypeOK, TypeOK', [EngineNext]_engineVars
  PROVE  EngineTypeOK'
<1> USE DEF EngineTypeOK, history
<1>1. ASSUME NEW x \in Executors, NEW s \in Responder, Goto(x, s)
      PROVE  responders' \in [Executors -> Responder]
  BY <1>1 DEF Goto
<1>2. Resting \in Responder
  BY DEF Responder
<1>3. ASSUME NEW x \in Executors PROVE responders[x] \in Responder
  BY <1>3
<1>4. ASSUME NEW x \in Executors, NEW r \in Recommendations, ResponderClaims(x, r)
      PROVE  EngineTypeOK'
  <2>1. PICK claim \in claims' : Goto(x, [phase |-> "claimed", claim |-> claim])
    BY <1>4 DEF ResponderClaims
  <2>2. claim \in Claim
    BY <2>1 DEF TypeOK
  <2>3. [phase |-> "claimed", claim |-> claim] \in Responder
    BY <2>2 DEF Responder
  <2>4. responders' \in [Executors -> Responder]
    BY <1>1, <2>1, <2>3
  <2>5. crossed' \subseteq Recommendations /\ overtaken' \subseteq Recommendations
    BY <1>4 DEF ResponderClaims
  <2>6. QED
    BY <1>4, <2>4, <2>5 DEF ResponderClaims
<1>5. ASSUME NEW x \in Executors, Inspect(x) PROVE EngineTypeOK'
  <2> DEFINE claim == responders[x].claim
             state == IF HasTarget(claim.rec) THEN containers[Target(claim)] ELSE "none"
  <2>1. claim \in Claim
    BY <1>3, <1>5, ResponderKinds DEF Inspect
  <2>2. HasTarget(claim.rec) => state \in ContainerState
    BY <2>1, TargetType
  <2>3. Inspection(claim, state) \in Responder
    BY <2>1, <2>2, InspectionType
  <2>4. QED
    BY <1>1, <1>5, <2>3 DEF Inspect, vars
<1>6. ASSUME NEW x \in Executors, CallDocker(x) PROVE EngineTypeOK'
  <2> DEFINE claim == responders[x].claim
  <2>1. claim \in Claim
    BY <1>3, <1>6, ResponderKinds DEF CallDocker
  <2>2. containers' \in [Containers -> ContainerState]
    BY <1>6, AfterType DEF CallDocker
  <2>3. [phase |-> "called", claim |-> claim] \in Responder
    BY <2>1 DEF Responder
  <2>4. /\ Done(claim, "container_not_found") \in Responder
        /\ Done(claim, "docker_api_error") \in Responder
    BY <2>1, DoneType DEF ErrorCodes
  <2>5. responders' \in [Executors -> Responder]
    BY <1>1, <1>6, <2>3, <2>4 DEF CallDocker
  <2>6. QED
    BY <1>6, <2>2, <2>5 DEF CallDocker, vars
<1>7. ASSUME NEW x \in Executors, Verify(x) PROVE EngineTypeOK'
  <2> DEFINE claim == responders[x].claim
             outcome == Verdict(claim, containers[Target(claim)])
  <2>1. claim \in Claim
    BY <1>3, <1>7, ResponderKinds DEF Verify
  <2>2. outcome \in {NoError} \union ErrorCodes
    BY DEF Verdict, ErrorCodes
  <2>3. Done(claim, outcome) \in Responder
    BY <2>1, <2>2, DoneType
  <2>4. QED
    BY <1>1, <1>7, <2>3 DEF Verify, vars
<1>8. ASSUME NEW x \in Executors, SendReport(x) PROVE EngineTypeOK'
  <2> DEFINE s == responders[x]
  <2>1. s.claim \in Claim /\ s.outcome \in {NoError} \union ErrorCodes
    BY <1>3, <1>8, ResponderKinds DEF SendReport
  <2>2. [claim |-> s.claim, outcome |-> s.outcome] \in Report
    BY <2>1 DEF Report
  <2>3. [phase |-> "reporting", claim |-> s.claim] \in Responder
    BY <2>1 DEF Responder
  <2>4. QED
    BY <1>1, <1>8, <2>2, <2>3 DEF SendReport, vars
<1>9. ASSUME NEW x \in Executors, DockerAnswerLost(x) PROVE EngineTypeOK'
  <2>1. responders[x].claim \in Claim
    BY <1>3, <1>9, ResponderKinds DEF DockerAnswerLost
  <2>2. Done(responders[x].claim, "executor_internal_error") \in Responder
    BY <2>1, DoneType DEF ErrorCodes
  <2>3. containers' \in [Containers -> ContainerState]
    BY <1>9, AfterType DEF DockerAnswerLost
  <2>4. QED
    BY <1>1, <1>9, <2>2, <2>3, FaultType DEF DockerAnswerLost, vars
<1>10. ASSUME NEW x \in Executors, DockerFails(x) PROVE EngineTypeOK'
  <2>1. responders[x].claim \in Claim
    BY <1>3, <1>10, ResponderKinds DEF DockerFails
  <2>2. /\ Done(responders[x].claim, "docker_api_error") \in Responder
        /\ Done(responders[x].claim, "docker_unavailable") \in Responder
    BY <2>1, DoneType DEF ErrorCodes
  <2>3. QED
    BY <1>1, <1>10, <2>2, FaultType DEF DockerFails, vars
<1>11. ASSUME NEW x \in Executors, Answered(x) \/ AnswerTimesOut(x) \/ Crash(x)
       PROVE  EngineTypeOK'
  BY <1>1, <1>2, <1>11, FaultType DEF Answered, AnswerTimesOut, Crash, vars
<1>12. ASSUME NEW m \in reports, NEW w \in Workers, ReportRead(w, m) PROVE EngineTypeOK'
  BY <1>12 DEF ReportRead
<1>13. ASSUME NEW m \in reports, ReportIgnored(m) \/ ReportLost(m) PROVE EngineTypeOK'
  BY <1>13, FaultType DEF ReportIgnored, ReportLost
<1>14. ASSUME NEW c \in OutsideActors, NEW state \in ContainerState, OutsideChange(c, state)
       PROVE  EngineTypeOK'
  BY <1>14 DEF OutsideChange, EngineAssumption
<1>15. ASSUME NEW m, BackendRestarts(m) PROVE EngineTypeOK'
  BY <1>15, FaultType DEF BackendRestarts
<1>16. ASSUME NEW w \in Workers, BackendStep(w) PROVE EngineTypeOK'
  <2>1. CASE BackendRequest(w)
    BY <2>1 DEF BackendRequest, local
  <2>2. CASE BackendCommit(w)
    <3>1. overtaken' \subseteq Recommendations
      BY <2>2 DEF BackendCommit
    <3>2. QED
      BY <2>2, <3>1 DEF BackendCommit, local
  <2>3. QED
    BY <1>16, <2>1, <2>2 DEF BackendStep
<1>17. ASSUME (\E x \in Executors : ResponderFindsNothing(x)) \/ TimePasses \/ UNCHANGED engineVars
       PROVE  EngineTypeOK'
  BY <1>17 DEF ResponderFindsNothing, TimePasses, engineVars, local
<1>18. QED
  BY <1>4, <1>5, <1>6, <1>7, <1>8, <1>9, <1>10, <1>11, <1>12, <1>13, <1>14, <1>15, <1>16, <1>17
  DEF EngineNext, Attempt, Failure

EngineSound == Inductive /\ EngineTypeOK

LEMMA EngineSoundInit ==
  ASSUME ConstantsAssumption, EngineAssumption, EngineInit
  PROVE  EngineSound
BY EngineTypeInit, InductiveInit DEF EngineSound, EngineInit

LEMMA EngineSoundStep ==
  ASSUME ConstantsAssumption, EngineAssumption, EngineSound, [EngineNext]_engineVars
  PROVE  EngineSound'
<1>1. Inductive'
  BY EngineStepsAreApiSteps, InductiveStep DEF EngineSound
<1>2. EngineTypeOK'
  BY <1>1, EngineTypeStep DEF EngineSound, Inductive
<1>3. QED
  BY <1>1, <1>2 DEF EngineSound

THEOREM EngineTypeCorrect == EngineSpec => []EngineTypeOK
<1>1. EngineInit => EngineSound
  BY ConstantsAssumption, EngineAssumption, EngineSoundInit
<1>2. EngineSound /\ [EngineNext]_engineVars => EngineSound'
  BY ConstantsAssumption, EngineAssumption, EngineSoundStep
<1>3. EngineSound => EngineTypeOK
  BY DEF EngineSound
<1>4. QED
  BY <1>1, <1>2, <1>3, PTL DEF EngineSpec

(* The engine implements ResponseApi.                                       *)
THEOREM EngineImplementsApi == EngineSpec => Spec
<1>1. EngineInit => Init
  BY DEF EngineInit
<1>2. EngineTypeOK /\ [EngineNext]_engineVars => [Next]_vars
  BY EngineAssumption, EngineStepsAreApiSteps
<1>3. QED
  BY <1>1, <1>2, EngineTypeCorrect, PTL DEF EngineSpec, Spec

(* The engine's tables go through the life ResponseLifecycle promises,      *)
(* whatever its handlers, responders and containers do.                     *)
THEOREM EngineFollowsLifecycle == EngineSpec => LifecycleSpec
BY EngineImplementsApi, HandlersFollowLifecycle

(* Whatever the responders do, executions stay authorized, claims           *)
(* recoverable and statuses audited.                                        *)
THEOREM EngineKeepsApiInvariants ==
  EngineSpec => [](AuthorizedExecution /\ ClaimIsRecoverable /\ AuditExplainsStatus)
BY EngineImplementsApi, ExecutionsAreAuthorized, ClaimsAreRecoverable, AuditIsComplete, PTL

-------------------------------------------------------------------------------
(* What a step leaves of an execution, and of the evidence for it. *)

LEMMA AuditGrows ==
  ASSUME TypeOK, [Next]_vars, NEW r \in Recommendations
  PROVE  audit[r] \subseteq audit'[r]
<1>1. ASSUME NEW q, NEW e, Log(q, e) PROVE audit[r] \subseteq audit'[r]
  BY <1>1 DEF Log, TypeOK
<1>2. ASSUME NEW w \in Workers, CommitGenerate(w) PROVE audit[r] \subseteq audit'[r]
  BY <1>2 DEF CommitGenerate
<1>3. ASSUME UNCHANGED audit PROVE audit[r] \subseteq audit'[r]
  BY <1>3
<1>4. ASSUME NEW w \in Workers, Commit(w) PROVE audit[r] \subseteq audit'[r]
  BY <1>1, <1>2, <1>3, <1>4
  DEF Commit, CommitApprove, CommitReject, CommitExecution, CommitIncident
<1>5. ASSUME NEW w \in Workers, OperatorRequest(w) PROVE UNCHANGED audit
  BY <1>5 DEF OperatorRequest, GenerateRead, IncidentRead, ApproveRead, RejectRead,
              RollbackRead, RetryRead
<1>6. ASSUME NEW x \in Executors, NEW q \in Recommendations, ClaimExecution(x, q)
      PROVE  audit[r] \subseteq audit'[r]
  BY <1>1, <1>6 DEF ClaimExecution
<1>7. QED
  BY <1>3, <1>4, <1>5, <1>6
  DEF Next, ResponderRequest, ClaimNothing, CompleteRead, DropClaim, Passing, LeaseExpires,
      RecommendationAges, RestartBackend, vars

(* An execution stays, with its action.                                     *)
LEMMA ExecutionStays ==
  ASSUME ConstantsAssumption, Inductive, [Next]_vars, NEW r \in Recommendations, Present(r)
  PROVE  Present(r)' /\ execs'[r].action_type = execs[r].action_type
<1>1. ActionKept(r)
  BY StepKeepsAction
<1>2. execs[r].action_type \in Actions /\ execs[r].action_type = recs[r].approved_action
  BY DEF Inductive, AuthorizedExecution, AllowedActions, allowed_actions_for_incident,
         Actions, Disruptive
<1>3. recs'[r].approved_action # NoAction
  BY <1>1, <1>2 DEF ActionKept, ConstantsAssumption
<1>4. Inductive'
  BY InductiveStep
<1>5. Present(r)'
  BY <1>3, <1>4 DEF Inductive, ApprovalHasExecution
<1>6. QED
  BY <1>1, <1>5 DEF ActionKept

-------------------------------------------------------------------------------
(* Approved effects.  A claim is good for ever: its execution stays, and so *)
(* does the request for the rollback it may ask for.  A responder past its  *)
(* guards may act on the container.                                         *)

HandedOut(c, rows, events) ==
  /\ rows[c.rec].status # "absent"
  /\ c.operation = "rollback" => "rollback_requested" \in events[c.rec]

MayAct(c, rows) ==
  /\ HasTarget(c.rec)
  /\ Target(c) \notin Protected
  /\ rows[c.rec].action_type \in Disruptive

ClaimsSound ==
  /\ \A c \in claims : HandedOut(c, execs, audit)
  /\ \A x \in Executors :
       /\ responders[x].phase # "idle" => HandedOut(responders[x].claim, execs, audit)
       /\ responders[x].phase = "inspected" => MayAct(responders[x].claim, execs)

LEMMA HandedOutStays ==
  ASSUME ConstantsAssumption, Inductive, [Next]_vars, NEW c \in Claim, HandedOut(c, execs, audit)
  PROVE  HandedOut(c, execs', audit') /\ execs'[c.rec].action_type = ActionOf(c)
<1>1. c.rec \in Recommendations /\ Present(c.rec)
  BY DEF Claim, HandedOut, Present
<1>2. Present(c.rec)' /\ execs'[c.rec].action_type = execs[c.rec].action_type
  BY <1>1, ExecutionStays
<1>3. audit[c.rec] \subseteq audit'[c.rec]
  BY <1>1, AuditGrows DEF Inductive
<1>4. QED
  BY <1>2, <1>3 DEF HandedOut, ActionOf, Present

(* What a responder gets from the backend.                                  *)
LEMMA NewClaim ==
  ASSUME ConstantsAssumption, Inductive,
         NEW x \in Executors, NEW r \in Recommendations, ClaimExecution(x, r),
         NEW c \in claims' \ claims
  PROVE  /\ c.rec = r /\ c.operation = OperationOn(r) /\ c.executor = x
         /\ HandedOut(c, execs', audit')
         /\ execs[r].status \in Queued \union Claimed
         /\ execs'[r].status =
              IF c.operation = "execute" THEN "claimed" ELSE "rollback_claimed"
<1>1. c.rec = r /\ c.operation = OperationOn(r) /\ c.executor = x
  BY DEF ClaimExecution
<1>2. /\ OperationOn(r) = "execute" => Requeued(r).status = "pending"
      /\ OperationOn(r) # "execute" => Requeued(r).status = "rollback_pending"
      /\ OperationOn(r) \in Operations
  BY DEF ClaimExecution, Claimable, OperationOn, RequestedRollbacks, PendingActions, Operations
<1>3. Present(r) /\ execs[r].status \in Queued \union Claimed
  <2>1. Present(r)
    BY <1>2, RequeuedRow
  <2>2. execs[r] \in ExecutionRow
    BY DEF Inductive, TypeOK
  <2>3. execs[r].status \in Queued \union Claimed
    BY <1>2, <2>2 DEF Requeued, Requeue, Queued, Claimed
  <2>4. QED
    BY <2>1, <2>3
<1>4. OperationOn(r) = "rollback" => "rollback_requested" \in audit[r]
  BY <1>2, RequeuedRow DEF ExecutionExplained, RollbackPhase
<1>5. [Next]_vars
  BY DEF Next, ResponderRequest
<1>6. Present(r)' /\ audit[r] \subseteq audit'[r]
  BY <1>3, <1>5, AuditGrows, ExecutionStays DEF Inductive
<1>7. execs'[r].status = IF OperationOn(r) = "execute" THEN "claimed" ELSE "rollback_claimed"
  <2>1. PICK n, s : /\ s = IF OperationOn(r) = "execute" THEN "claimed" ELSE "rollback_claimed"
                    /\ execs'[r] = [Requeued(r) EXCEPT !.status = s, !.executor = x,
                                                       !.lease = "running", !.attempt_count = n]
    BY DEF ClaimExecution
  <2>2. Requeued(r) \in ExecutionRow
    BY RequeuedRow
  <2>3. QED
    BY <2>1, <2>2 DEF ExecutionRow
<1>8. QED
  BY <1>1, <1>3, <1>4, <1>6, <1>7 DEF HandedOut, Present

(* What a step does to a responder.                                         *)
LEMMA ResponderMoves ==
  ASSUME EngineTypeOK, [EngineNext]_engineVars, NEW x \in Executors
  PROVE  \/ responders'[x] = responders[x]
         \/ responders'[x] = Resting /\ (Answered(x) \/ AnswerTimesOut(x) \/ Crash(x))
         \/ \E r \in Recommendations :
              /\ ResponderClaims(x, r)
              /\ responders'[x].phase = "claimed"
              /\ responders'[x].claim \in claims' \ claims
         \/ Inspect(x)
         \/ /\ responders[x].phase \in {"claimed", "inspected", "called"}
            /\ responders'[x].claim = responders[x].claim
            /\ responders'[x].phase \in {"called", "done"}
            /\ UNCHANGED <<vars, reports>>
         \/ SendReport(x)
<1> DEFINE Goal == \/ responders'[x] = responders[x]
                   \/ responders'[x] = Resting /\ (Answered(x) \/ AnswerTimesOut(x) \/ Crash(x))
                   \/ \E r \in Recommendations :
                        /\ ResponderClaims(x, r)
                        /\ responders'[x].phase = "claimed"
                        /\ responders'[x].claim \in claims' \ claims
                   \/ Inspect(x)
                   \/ /\ responders[x].phase \in {"claimed", "inspected", "called"}
                      /\ responders'[x].claim = responders[x].claim
                      /\ responders'[x].phase \in {"called", "done"}
                      /\ UNCHANGED <<vars, reports>>
                   \/ SendReport(x)
<1>1. responders \in [Executors -> Responder]
  BY DEF EngineTypeOK
<1>2. ASSUME NEW y \in Executors, NEW s, Goto(y, s)
      PROVE  IF x = y THEN responders'[x] = s ELSE responders'[x] = responders[x]
  BY <1>1, <1>2 DEF Goto
<1>3. ASSUME NEW y \in Executors, NEW r \in Recommendations, ResponderClaims(y, r) PROVE Goal
  <2>1. PICK claim \in claims' \ claims : Goto(y, [phase |-> "claimed", claim |-> claim])
    BY <1>3 DEF ResponderClaims
  <2>2. QED
    BY <1>2, <1>3, <2>1
<1>4. ASSUME NEW y \in Executors, Attempt(y) PROVE Goal
  BY <1>2, <1>4 DEF Attempt, Inspect, CallDocker, Verify, SendReport, Answered, Done
<1>5. ASSUME NEW y \in Executors, Failure(y) PROVE Goal
  BY <1>2, <1>5 DEF Failure, DockerAnswerLost, DockerFails, AnswerTimesOut, Crash, Done
<1>6. ASSUME UNCHANGED responders PROVE Goal
  BY <1>6
<1>7. Goal
  BY <1>3, <1>4, <1>5, <1>6
  DEF EngineNext, BackendStep, BackendRequest, BackendCommit, ReportRead, ResponderFindsNothing, ReportIgnored, ReportLost,
      OutsideChange, BackendRestarts, TimePasses, engineVars, local
<1>8. QED
  BY <1>7

LEMMA ClaimsSoundInit ==
  ASSUME EngineInit
  PROVE  ClaimsSound
BY DEF EngineInit, Init, ClaimsSound, Resting

LEMMA ClaimsSoundStep ==
  ASSUME ConstantsAssumption, EngineAssumption, EngineSound, ClaimsSound, [EngineNext]_engineVars
  PROVE  ClaimsSound'
<1>1. Inductive /\ EngineTypeOK /\ TypeOK
  BY DEF EngineSound, Inductive
<1>2. [Next]_vars
  BY <1>1, EngineStepsAreApiSteps
<1>3. ASSUME NEW c \in Claim, HandedOut(c, execs, audit)
      PROVE  HandedOut(c, execs', audit') /\ execs'[c.rec].action_type = ActionOf(c)
  BY <1>1, <1>2, <1>3, HandedOutStays
<1>4. ASSUME NEW c \in claims' PROVE HandedOut(c, execs', audit')
  <2>1. CASE c \in claims
    BY <1>1, <1>3, <2>1 DEF ClaimsSound, TypeOK
  <2>2. CASE c \notin claims
    <3>1. PICK y \in Executors, r \in Recommendations : ClaimExecution(y, r)
      <4>1. ASSUME NEW w \in Workers, OperatorRequest(w) \/ Commit(w) PROVE claims' = claims
        BY <4>1
        DEF OperatorRequest, GenerateRead, IncidentRead, ApproveRead, RejectRead,
            RollbackRead, RetryRead, Commit, CommitGenerate, CommitApprove, CommitReject,
            CommitExecution, CommitIncident
      <4>2. ASSUME Passing \/ (\E m \in {"disabled", "live"} : RestartBackend(m))
                   \/ UNCHANGED vars
            PROVE  claims' \subseteq claims
        BY <4>2 DEF Passing, LeaseExpires, RecommendationAges, RestartBackend, vars
      <4>3. ASSUME ResponderRequest, \A y \in Executors, r \in Recommendations : ~ClaimExecution(y, r)
            PROVE  claims' \subseteq claims
        BY <4>3 DEF ResponderRequest, ClaimNothing, CompleteRead, DropClaim
      <4>4. QED
        BY <1>2, <2>2, <4>1, <4>2, <4>3 DEF Next
    <3>2. c \in claims' \ claims
      BY <2>2
    <3>3. \A d \in claims' \ claims : HandedOut(d, execs', audit')
      BY <1>1, <3>1, NewClaim, Zenon
    <3>4. QED
      BY <3>2, <3>3
  <2>3. QED
    BY <2>1, <2>2
<1>5. ASSUME NEW x \in Executors
      PROVE  /\ responders'[x].phase # "idle" => HandedOut(responders'[x].claim, execs', audit')
             /\ responders'[x].phase = "inspected" => MayAct(responders'[x].claim, execs')
  <2> DEFINE claim == responders[x].claim
  <2>1. responders[x] \in Responder
    BY <1>1 DEF EngineTypeOK
  <2>2. responders[x].phase # "idle" =>
          claim \in Claim /\ HandedOut(claim, execs, audit) /\ HandedOut(claim, execs', audit') /\ execs'[claim.rec].action_type = ActionOf(claim)
    BY <1>3, <2>1, ResponderKinds DEF ClaimsSound
  <2>3. CASE responders'[x] = responders[x]
    BY <2>2, <2>3 DEF ClaimsSound, MayAct, ActionOf
  <2>4. CASE responders'[x] = Resting
    BY <2>4 DEF Resting
  <2>5. CASE \E r \in Recommendations : /\ ResponderClaims(x, r)
                                         /\ responders'[x].phase = "claimed"
                                         /\ responders'[x].claim \in claims' \ claims
    BY <1>4, <2>5
  <2>6. CASE Inspect(x)
    <3> DEFINE state == IF HasTarget(claim.rec) THEN containers[Target(claim)] ELSE "none"
    <3>1. responders[x].phase = "claimed" /\ UNCHANGED vars
      BY <2>6 DEF Inspect
    <3>2. responders'[x] = Inspection(claim, state)
      BY <1>1, <2>6 DEF Inspect, Goto, EngineTypeOK
    <3>3. \/ responders'[x] = [phase |-> "inspected", claim |-> claim, seen |-> state] /\ MayAct(claim, execs)
          \/ \E o : responders'[x] = Done(claim, o)
      <4>1. ActionOf(claim) \in Actions
        <5>1. claim.rec \in Recommendations /\ Present(claim.rec)
          BY <2>2, <3>1 DEF HandedOut, Claim, Present
        <5>2. QED
          BY <1>1, <5>1 DEF Inductive, AuthorizedExecution, AllowedActions, ActionOf,
                            allowed_actions_for_incident, Actions, Disruptive
      <4>2. QED
        BY <3>2, <4>1 DEF Inspection, MayAct, Disruptive, ActionOf
    <3>4. CASE \E o : responders'[x] = Done(claim, o)
      BY <2>2, <3>1, <3>4 DEF Done
    <3>5. CASE /\ responders'[x] = [phase |-> "inspected", claim |-> claim, seen |-> state]
               /\ MayAct(claim, execs)
      <4>1. responders'[x].claim = claim
        BY <3>5
      <4>2. MayAct(claim, execs')
        BY <2>2, <3>1, <3>5 DEF MayAct, ActionOf
      <4>3. QED
        BY <2>2, <3>1, <4>1, <4>2
    <3>6. QED
      BY <3>3, <3>4, <3>5
  <2>7. CASE /\ responders[x].phase # "idle"
             /\ responders'[x].claim = responders[x].claim
             /\ responders'[x].phase \in {"called", "done", "reporting"}
    BY <2>2, <2>7
  <2>8. CASE SendReport(x)
    <3>1. /\ responders[x].phase = "done"
          /\ responders'[x].claim = claim /\ responders'[x].phase = "reporting"
      BY <1>1, <2>8 DEF SendReport, Goto, EngineTypeOK
    <3>2. QED
      BY <2>7, <3>1
  <2>9. QED
    BY <1>1, <2>3, <2>4, <2>5, <2>6, <2>7, <2>8, ResponderMoves
<1>6. QED
  BY <1>4, <1>5 DEF ClaimsSound

(* A container changes by a Docker call, or by somebody else while no       *)
(* responder moves.                                                         *)
LEMMA ContainerStep ==
  ASSUME EngineAssumption, EngineTypeOK, [EngineNext]_engineVars,
         NEW c \in Containers, containers'[c] # containers[c],
         c \notin OutsideActors \/ responders' # responders
  PROVE  \E x \in Executors :
           /\ CallDocker(x) \/ DockerAnswerLost(x)
           /\ responders[x].phase = "inspected"
           /\ Target(responders[x].claim) = c
           /\ Accepted(CommandOf(x), containers[c])
           /\ containers'[c] = After(CommandOf(x), containers[c])
<1>1. containers \in [Containers -> ContainerState]
  BY DEF EngineTypeOK
<1>2. \A d \in OutsideActors : \A state : ~OutsideChange(d, state)
  BY <1>1 DEF OutsideChange
<1>3. PICK x \in Executors : CallDocker(x) \/ DockerAnswerLost(x)
  BY <1>2
  DEF EngineNext, BackendStep, BackendRequest, BackendCommit, ReportRead, ResponderClaims, ResponderFindsNothing, Attempt,
      Failure, Inspect, Verify, SendReport, Answered, DockerFails, AnswerTimesOut, Crash,
      ReportIgnored, ReportLost, BackendRestarts, TimePasses, engineVars, local
<1>4. QED
  BY <1>1, <1>3 DEF CallDocker, DockerAnswerLost

(* What the commands can bring about.                                       *)
LEMMA CommandEffect ==
  ASSUME NEW a \in Disruptive, NEW o \in Operations, NEW seen, NEW state \in ContainerState,
         Accepted(Command(a, o, seen), state), After(Command(a, o, seen), state) # state
  PROVE  LET next == After(Command(a, o, seen), state)
         IN  \/ next = "paused" /\ a = "pause_container" /\ o = "execute"
             \/ next = "stopped" /\ a = "stop_container" /\ o = "execute"
             \/ next = "running" /\ o = "rollback"
BY DEF Disruptive, Actions, Operations, Command, After, Accepted, Running

EffectApproved(c) ==
  /\ c \notin Protected
  /\ \E r \in Recommendations :
       /\ TargetOf[r] = c
       /\ "recommendation_approved" \in audit[r]
       /\ CASE containers'[c] = "paused"  -> execs[r].action_type = "pause_container"
            [] containers'[c] = "stopped" -> execs[r].action_type = "stop_container"
            [] OTHER -> "rollback_requested" \in audit[r]

LEMMA EffectsAreApproved ==
  ASSUME EngineAssumption, EngineSound, ClaimsSound, [EngineNext]_engineVars,
         NEW c \in Containers, responders' # responders, containers'[c] # containers[c]
  PROVE  EffectApproved(c)
<1>1. EngineTypeOK /\ Inductive
  BY DEF EngineSound
<1>2. PICK x \in Executors :
        /\ responders[x].phase = "inspected"
        /\ Target(responders[x].claim) = c
        /\ Accepted(CommandOf(x), containers[c])
        /\ containers'[c] = After(CommandOf(x), containers[c])
  BY <1>1, ContainerStep
<1> DEFINE claim == responders[x].claim
           r == claim.rec
<1>3. claim \in Claim /\ HandedOut(claim, execs, audit) /\ MayAct(claim, execs)
  <2>1. responders[x] \in Responder
    BY <1>1 DEF EngineTypeOK
  <2>2. QED
    BY <1>2, <2>1, ResponderKinds DEF ClaimsSound
<1>4. r \in Recommendations /\ Present(r) /\ TargetOf[r] = c /\ claim.operation \in Operations
  BY <1>2, <1>3 DEF Claim, HandedOut, Target, Present
<1>5. "recommendation_approved" \in audit[r]
  BY <1>1, <1>4 DEF Inductive, AuthorizedExecution
<1>6. containers[c] \in ContainerState
  BY <1>1 DEF EngineTypeOK
<1>7. \/ containers'[c] = "paused" /\ execs[r].action_type = "pause_container"
      \/ containers'[c] = "stopped" /\ execs[r].action_type = "stop_container"
      \/ containers'[c] = "running" /\ claim.operation = "rollback"
  BY <1>2, <1>3, <1>4, <1>6, CommandEffect DEF CommandOf, MayAct, ActionOf
<1>8. c \notin Protected
  BY <1>2, <1>3 DEF MayAct
<1>9. QED
  BY <1>3, <1>4, <1>5, <1>7, <1>8 DEF EffectApproved, HandedOut

(* No step of a responder changes a container but by an approved action on  *)
(* it or a requested rollback, however many responders, handlers, faults,   *)
(* late reports and changes by others there are.                            *)
THEOREM EffectsWereApproved == EngineSpec => OnlyApprovedEffects
<1>1. EngineInit => EngineSound /\ ClaimsSound
  BY ConstantsAssumption, EngineAssumption, EngineSoundInit, ClaimsSoundInit
<1>2. EngineSound /\ ClaimsSound /\ [EngineNext]_engineVars => (EngineSound /\ ClaimsSound)'
  BY ConstantsAssumption, EngineAssumption, EngineSoundStep, ClaimsSoundStep
<1>3. EngineSound /\ ClaimsSound /\ [EngineNext]_engineVars =>
        [\A c \in Containers :
           responders' # responders /\ containers'[c] # containers[c] =>
             EffectApproved(c)]_engineVars
  BY EngineAssumption, EffectsAreApproved
<1>4. QED
  BY <1>1, <1>2, <1>3, PTL DEF EngineSpec, OnlyApprovedEffects, EffectApproved

-------------------------------------------------------------------------------
(* How the status of an execution changes. *)

LEMMA StatusStep ==
  ASSUME EngineSound, [EngineNext]_engineVars, NEW r \in Recommendations
  PROVE  \/ /\ execs'[r].status = execs[r].status
            /\ execs'[r].error_code = execs[r].error_code
         \/ ~Present(r) /\ execs'[r].status = "pending"
         \/ /\ execs[r].status \in Queued \union Claimed
            /\ execs'[r].status \in Queued \union Claimed
            /\ execs'[r].error_code = execs[r].error_code
            /\ execs'[r].status \in Queued \/ \E x \in Executors : ResponderClaims(x, r)
         \/ \E w \in Workers :
              /\ BackendCommit(w) /\ CommitExecution(w) /\ txns[w].rec = r
              /\ execs'[r].status = txns[w].new.status
              /\ execs'[r].status \in Queued \union Terminal
<1> DEFINE Goal == \/ /\ execs'[r].status = execs[r].status
                      /\ execs'[r].error_code = execs[r].error_code
                   \/ ~Present(r) /\ execs'[r].status = "pending"
                   \/ /\ execs[r].status \in Queued \union Claimed
                      /\ execs'[r].status \in Queued \union Claimed
                      /\ execs'[r].error_code = execs[r].error_code
                      /\ execs'[r].status \in Queued \/ \E x \in Executors : ResponderClaims(x, r)
                   \/ \E w \in Workers :
                        /\ BackendCommit(w) /\ CommitExecution(w) /\ txns[w].rec = r
                        /\ execs'[r].status = txns[w].new.status
                        /\ execs'[r].status \in Queued \union Terminal
<1>1. Inductive /\ TypeOK
  BY DEF EngineSound, Inductive
<1>2. /\ \/ Requeued(r).status = execs[r].status
         \/ execs[r].status \in Claimed /\ Requeued(r).status \in Queued
      /\ Requeued(r).error_code = execs[r].error_code
  <2> DEFINE row == execs[r]
  <2>1. row \in ExecutionRow
    BY <1>1 DEF TypeOK
  <2>2. DOMAIN Requeue = Claimed /\ \A s \in Claimed : Requeue[s] \in Queued
    BY DEF Requeue, Claimed, Queued
  <2>3. CASE row.status \in DOMAIN Requeue /\ row.lease = "expired"
    <3>1. Requeued(r) = [row EXCEPT !.status = Requeue[row.status], !.executor = NoExecutor,
                                    !.lease = "none"]
      BY <2>3 DEF Requeued
    <3>2. Requeued(r).status = Requeue[row.status] /\ Requeued(r).error_code = row.error_code
      BY <2>1, <3>1 DEF ExecutionRow
    <3>3. QED
      BY <2>2, <2>3, <3>2
  <2>4. CASE ~(row.status \in DOMAIN Requeue /\ row.lease = "expired")
    BY <2>4 DEF Requeued
  <2>5. QED
    BY <2>3, <2>4
<1>3. ASSUME NEW x \in Executors, NEW q \in Recommendations, ResponderClaims(x, q) PROVE Goal
  <2>1. ClaimExecution(x, q)
    BY <1>3 DEF ResponderClaims
  <2>2. CASE q = r
    <3>1. PICK claim \in claims' \ claims : TRUE
      BY <1>3 DEF ResponderClaims
    <3>2. execs[r].status \in Queued \union Claimed /\ execs'[r].status \in Claimed
      BY <1>1, <2>1, <2>2, <3>1, NewClaim, ConstantsAssumption DEF Claimed
    <3>3. execs'[r].error_code = execs[r].error_code
      <4>1. PICK s, n : execs'[r] = [Requeued(r) EXCEPT !.status = s, !.executor = x,
                                       !.lease = "running", !.attempt_count = n]
        BY <2>1, <2>2 DEF ClaimExecution
      <4>2. Requeued(r) \in ExecutionRow
        BY <1>1, RequeuedRow
      <4>3. QED
        BY <1>2, <4>1, <4>2 DEF ExecutionRow
    <3>4. QED
      BY <1>3, <2>2, <3>2, <3>3
  <2>3. CASE q # r
    <3>1. execs'[r] = Requeued(r)
      BY <2>1, <2>3 DEF ClaimExecution
    <3>2. QED
      BY <1>2, <3>1
  <2>4. QED
    BY <2>2, <2>3
<1>4. ASSUME NEW x \in Executors, ResponderFindsNothing(x) PROVE Goal
  <2>1. execs'[r] = Requeued(r)
    BY <1>4 DEF ResponderFindsNothing, ClaimNothing
  <2>2. QED
    BY <1>2, <2>1
<1>5. ASSUME NEW w \in Workers, BackendCommit(w) PROVE Goal
  <2>1. CASE CommitApprove(w)
    <3>1. txns[w].rec \in Recommendations
      BY <1>1, <2>1, TransactionKinds DEF CommitApprove, DecisionTxn, TypeOK
    <3>2. CASE Duplicate(txns[w].rec)
      BY <2>1, <3>2 DEF CommitApprove
    <3>3. CASE ~Duplicate(txns[w].rec)
      <4> DEFINE row == [AbsentExecution EXCEPT !.status = "pending",
                           !.action_type = txns[w].new.approved_action, !.created_at = clock]
      <4>1. execs' = [execs EXCEPT ![txns[w].rec] = row]
        BY <2>1, <3>3 DEF CommitApprove
      <4>2. row.status = "pending"
        BY DEF AbsentExecution
      <4>3. QED
        BY <1>1, <3>1, <3>3, <4>1, <4>2 DEF Duplicate, TypeOK
    <3>4. QED
      BY <3>2, <3>3
  <2>2. CASE CommitExecution(w)
    <3>1. CASE txns[w].rec = r
      BY <1>1, <1>5, <2>2, <3>1, FlushedExecution DEF Inductive
    <3>2. CASE txns[w].rec # r
      BY <1>1, <2>2, <3>2 DEF CommitExecution, TypeOK
    <3>3. QED
      BY <3>1, <3>2
  <2>3. CASE CommitGenerate(w) \/ CommitReject(w) \/ CommitIncident(w)
    BY <2>3 DEF CommitGenerate, CommitReject, CommitIncident
  <2>4. QED
    BY <1>5, <2>1, <2>2, <2>3 DEF BackendCommit, Commit
<1>6. ASSUME Passing PROVE Goal
  <2>1. execs[r] \in ExecutionRow
    BY <1>1 DEF TypeOK
  <2>2. ASSUME NEW q \in Recommendations, LeaseExpires(q) PROVE Goal
    <3>1. execs' = [execs EXCEPT ![q].lease = "expired"]
      BY <2>2 DEF LeaseExpires
    <3>2. /\ execs'[r].status = execs[r].status
          /\ execs'[r].error_code = execs[r].error_code
      BY <1>1, <2>1, <3>1 DEF TypeOK, ExecutionRow
    <3>3. QED
      BY <3>2
  <2>3. QED
    BY <1>6, <2>2 DEF Passing, RecommendationAges
<1>7. ASSUME NEW w \in Workers, OperatorRequest(w) PROVE UNCHANGED execs
  BY <1>7 DEF OperatorRequest, GenerateRead, IncidentRead, ApproveRead, RejectRead,
              RollbackRead, RetryRead
<1>8. ASSUME UNCHANGED execs PROVE Goal
  BY <1>8
<1>9. ASSUME NEW x \in Executors, Attempt(x) \/ Failure(x) PROVE UNCHANGED execs
  <2>1. Attempt(x) => UNCHANGED execs
    BY DEF Attempt, Inspect, CallDocker, Verify, SendReport, Answered, vars
  <2>2. Failure(x) => UNCHANGED execs
    BY DEF Failure, DockerAnswerLost, DockerFails, AnswerTimesOut, Crash, DropClaim, vars
  <2>3. QED
    BY <1>9, <2>1, <2>2
<1>10. Goal
  BY <1>3, <1>4, <1>5, <1>6, <1>7, <1>8, <1>9
  DEF EngineNext, BackendStep, BackendRequest, ReportRead, CompleteRead, ReportIgnored, ReportLost,
      DropClaim, OutsideChange, BackendRestarts, RestartBackend, TimePasses, engineVars, vars
<1>11. QED
  BY <1>10

(* How an open transaction changes.                                         *)
LEMMA TransactionStep ==
  ASSUME EngineSound, [EngineNext]_engineVars, NEW w \in Workers
  PROVE  \/ txns'[w] = txns[w]
         \/ txns'[w] = Idle
         \/ txns'[w].op \in {"generate", "approve", "reject", "incident"}
         \/ txns'[w].op \in {"rollback", "retry"} /\ txns'[w].new.status \in Queued
         \/ \E m \in reports : ReportRead(w, m)
<1> DEFINE Goal == \/ txns'[w] = txns[w]
                   \/ txns'[w] = Idle
                   \/ txns'[w].op \in {"generate", "approve", "reject", "incident"}
                   \/ txns'[w].op \in {"rollback", "retry"} /\ txns'[w].new.status \in Queued
                   \/ \E m \in reports : ReportRead(w, m)
<1>1. Inductive /\ TypeOK
  BY DEF EngineSound, Inductive
<1>2. ASSUME NEW v \in Workers, NEW t, Open(v, t)
      PROVE  IF v = w THEN txns'[w] = t ELSE txns'[w] = txns[w]
  BY <1>1, <1>2 DEF Open, TypeOK
<1>3. ASSUME NEW v \in Workers, Close(v) PROVE txns'[w] \in {txns[w], Idle}
  BY <1>1, <1>3 DEF Close, TypeOK
<1>4. ASSUME NEW v \in Workers, Commit(v) PROVE Goal
  BY <1>3, <1>4 DEF Commit, CommitGenerate, CommitApprove, CommitReject, CommitExecution,
                    CommitIncident
<1>5. ASSUME NEW v \in Workers, NEW m \in reports, ReportRead(v, m) PROVE Goal
  <2>1. CASE v = w
    BY <1>5, <2>1
  <2>2. CASE v # w
    BY <1>2, <1>5, <2>2 DEF ReportRead, CompleteRead
  <2>3. QED
    BY <2>1, <2>2
<1>6. ASSUME NEW v \in Workers, NEW r \in Recommendations, RollbackRead(v, r) \/ RetryRead(v, r)
      PROVE  Goal
  <2>1. execs[r] \in ExecutionRow
    BY <1>1 DEF TypeOK
  <2>2. CASE v = w
    <3>1. CASE RollbackRead(v, r)
      <4>1. txns'[w].op = "rollback"
        BY <1>2, <2>2, <3>1 DEF RollbackRead
      <4>2. txns'[w].new = [execs[r] EXCEPT !.status = "rollback_pending",
                                            !.rollback_requested_at = clock]
        BY <1>2, <2>2, <3>1 DEF RollbackRead
      <4>3. QED
        BY <2>1, <4>1, <4>2 DEF Queued, ExecutionRow
    <3>2. CASE RetryRead(v, r)
      <4>1. txns'[w].op = "retry"
        BY <1>2, <2>2, <3>2 DEF RetryRead
      <4>2. PICK s \in Queued : txns'[w].new = [execs[r] EXCEPT !.status = s,
                      !.executor = NoExecutor, !.lease = "none", !.error_code = NoError]
        <5> DEFINE s == IF execs[r].status = "failed" THEN "pending" ELSE "rollback_pending"
        <5>1. txns'[w].new = [execs[r] EXCEPT !.status = s, !.executor = NoExecutor,
                                              !.lease = "none", !.error_code = NoError]
          BY <1>2, <2>2, <3>2 DEF RetryRead
        <5>2. s \in Queued
          BY DEF Queued
        <5>3. QED
          BY <5>1, <5>2
      <4>3. QED
        BY <2>1, <4>1, <4>2 DEF ExecutionRow
    <3>3. QED
      BY <1>6, <3>1, <3>2
  <2>3. CASE v # w
    BY <1>2, <1>6, <2>3 DEF RollbackRead, RetryRead
  <2>4. QED
    BY <2>2, <2>3
<1>7. ASSUME NEW v \in Workers, OperatorRequest(v) PROVE Goal
  <2>1. ASSUME NEW i \in Incidents, GenerateRead(v, i) PROVE Goal
    BY <1>2, <2>1 DEF GenerateRead
  <2>2. ASSUME NEW i \in Incidents, NEW s \in IncidentStatus, IncidentRead(v, i, s) PROVE Goal
    BY <1>2, <2>2 DEF IncidentRead
  <2>3. ASSUME NEW r \in Recommendations, NEW a \in Actions, ApproveRead(v, r, a) PROVE Goal
    BY <1>2, <2>3 DEF ApproveRead
  <2>4. ASSUME NEW r \in Recommendations, RejectRead(v, r) PROVE Goal
    BY <1>2, <2>4 DEF RejectRead
  <2>5. QED
    BY <1>6, <1>7, <2>1, <2>2, <2>3, <2>4 DEF OperatorRequest
<1>8. ASSUME UNCHANGED txns PROVE Goal
  BY <1>8
<1>9. ASSUME NEW x \in Executors, Attempt(x) \/ Failure(x) PROVE UNCHANGED txns
  BY <1>9 DEF Attempt, Inspect, CallDocker, Verify, SendReport, Answered, Failure,
              DockerAnswerLost, DockerFails, AnswerTimesOut, Crash, DropClaim, vars
<1>10. ASSUME NEW m, BackendRestarts(m) PROVE Goal
  BY <1>10 DEF BackendRestarts, RestartBackend
<1>11. Goal
  BY <1>4, <1>5, <1>7, <1>8, <1>9, <1>10
  DEF EngineNext, BackendStep, BackendRequest, BackendCommit, ResponderClaims, ClaimExecution, ResponderFindsNothing,
      ClaimNothing, ReportIgnored, ReportLost, DropClaim, OutsideChange, TimePasses, Passing,
      LeaseExpires, RecommendationAges, engineVars, vars
<1>12. QED
  BY <1>11

(* Only sending a report adds one.                                          *)
LEMMA ReportsStep ==
  ASSUME [EngineNext]_engineVars
  PROVE  reports' \subseteq reports \/ \E x \in Executors : SendReport(x)
<1>1. ASSUME NEW x \in Executors, Attempt(x) \/ Failure(x)
      PROVE  reports' \subseteq reports \/ SendReport(x)
  BY <1>1 DEF Attempt, Inspect, CallDocker, Verify, SendReport, Answered, Failure,
              DockerAnswerLost, DockerFails, AnswerTimesOut, Crash
<1>2. QED
  BY <1>1
  DEF EngineNext, BackendStep, BackendRequest, BackendCommit, ResponderClaims,
      ResponderFindsNothing, ReportRead, ReportIgnored, ReportLost, OutsideChange, TimePasses,
      BackendRestarts, engineVars, local

(* Only a claim takes a mark of the history away, or sets the first one.    *)
LEMMA HistoryStep ==
  ASSUME [EngineNext]_engineVars, NEW r \in Recommendations,
         \A x \in Executors : ~ResponderClaims(x, r)
  PROVE  /\ r \in crossed' <=> r \in crossed
         /\ r \in overtaken => r \in overtaken'
<1>1. ASSUME NEW x \in Executors, NEW q \in Recommendations \ {r}, ResponderClaims(x, q)
      PROVE  (r \in crossed' <=> r \in crossed) /\ (r \in overtaken => r \in overtaken')
  BY <1>1 DEF ResponderClaims
<1>2. ASSUME NEW x \in Executors, Attempt(x) \/ Failure(x) PROVE UNCHANGED history
  BY <1>2 DEF Attempt, Inspect, CallDocker, Verify, SendReport, Answered, Failure,
              DockerAnswerLost, DockerFails, AnswerTimesOut, Crash
<1>3. ASSUME NEW w \in Workers, BackendCommit(w)
      PROVE  (r \in crossed' <=> r \in crossed) /\ (r \in overtaken => r \in overtaken')
  BY <1>3 DEF BackendCommit
<1>4. QED
  BY <1>1, <1>2, <1>3
  DEF EngineNext, BackendStep, BackendRequest, ResponderFindsNothing, ReportRead, ReportIgnored,
      ReportLost, OutsideChange, TimePasses, BackendRestarts, engineVars, history

(* How an attempt comes to its outcome.                                     *)
LEMMA DoneStep ==
  ASSUME EngineAssumption, EngineTypeOK, [EngineNext]_engineVars, NEW x \in Executors,
         responders'[x] # responders[x], responders'[x].phase = "done"
  PROVE  /\ responders'[x].claim = responders[x].claim
         /\ responders[x].claim \in Claim
         /\ responders[x].phase \in {"claimed", "inspected", "called"}
         /\ UNCHANGED <<vars, reports>>
         /\ \/ /\ Inspect(x) /\ UNCHANGED containers
               /\ responders'[x] = Inspection(responders[x].claim,
                    IF HasTarget(responders[x].claim.rec)
                    THEN containers[Target(responders[x].claim)] ELSE "none")
            \/ /\ Verify(x) /\ UNCHANGED containers
               /\ responders'[x].outcome =
                    Verdict(responders[x].claim, containers[Target(responders[x].claim)])
            \/ /\ CallDocker(x) /\ UNCHANGED containers
               /\ containers[Target(responders[x].claim)] = "removed"
               /\ responders'[x].outcome = "container_not_found"
            \/ responders'[x].outcome \in RetryableCodes
<1> DEFINE s == responders[x]
<1>1. s \in Responder /\ DOMAIN responders = Executors
  BY DEF EngineTypeOK
<1>2. /\ s.phase \in {"claimed", "inspected", "called"}
      /\ responders'[x].claim = s.claim
      /\ UNCHANGED <<vars, reports>>
      /\ Inspect(x) \/ CallDocker(x) \/ Verify(x) \/ DockerAnswerLost(x) \/ DockerFails(x)
  <2>1. ASSUME NEW y \in Executors, NEW t, Goto(y, t) PROVE x = y /\ responders'[x] = t
    BY <1>1, <2>1 DEF Goto
  <2>2. ASSUME NEW y \in Executors, NEW r \in Recommendations PROVE ~ResponderClaims(y, r)
    <3>1. SUFFICES ASSUME ResponderClaims(y, r) PROVE FALSE
      OBVIOUS
    <3>2. PICK claim : Goto(y, [phase |-> "claimed", claim |-> claim])
      BY <3>1 DEF ResponderClaims
    <3>3. QED
      BY <2>1, <3>2
  <2>3. ASSUME NEW y \in Executors
        PROVE  ~(SendReport(y) \/ Answered(y) \/ AnswerTimesOut(y) \/ Crash(y))
    BY <2>1 DEF SendReport, Answered, AnswerTimesOut, Crash, Resting
  <2>4. PICK y \in Executors :
          Inspect(y) \/ CallDocker(y) \/ Verify(y) \/ DockerAnswerLost(y) \/ DockerFails(y)
    BY <2>2, <2>3
    DEF EngineNext, BackendStep, BackendRequest, BackendCommit, ReportRead, ResponderFindsNothing, Attempt, Failure,
        ReportIgnored, ReportLost, OutsideChange, BackendRestarts, TimePasses, engineVars, local
  <2>5. y = x
    BY <2>1, <2>4 DEF Inspect, CallDocker, Verify, DockerAnswerLost, DockerFails
  <2>6. CASE Inspect(x)
    <3>1. responders'[x].claim = s.claim
      BY <2>1, <2>6 DEF Inspect, Inspection, Done
    <3>2. QED
      BY <2>6, <3>1 DEF Inspect
  <2>7. CASE CallDocker(x) \/ Verify(x) \/ DockerAnswerLost(x) \/ DockerFails(x)
    BY <2>1, <2>7 DEF CallDocker, Verify, DockerAnswerLost, DockerFails, Done
  <2>8. QED
    BY <2>4, <2>5, <2>6, <2>7
<1>3. s.claim \in Claim
  BY <1>1, <1>2, ResponderKinds
<1>4. CASE Inspect(x)
  BY <1>1, <1>2, <1>3, <1>4 DEF Inspect, Goto
<1>5. CASE Verify(x)
  BY <1>1, <1>2, <1>3, <1>5 DEF Verify, Goto, Done
<1>6. CASE CallDocker(x)
  BY <1>1, <1>2, <1>3, <1>6 DEF CallDocker, Goto, Done, RetryableCodes
<1>7. CASE DockerAnswerLost(x)
  BY <1>1, <1>2, <1>3, <1>7 DEF DockerAnswerLost, Goto, Done, RetryableCodes
<1>8. CASE DockerFails(x)
  BY <1>1, <1>2, <1>3, <1>8 DEF DockerFails, Goto, Done, RetryableCodes
<1>9. QED
  BY <1>2, <1>4, <1>5, <1>6, <1>7, <1>8

(* Which operation the backend takes a report for.                          *)
LEMMA ReadReport ==
  ASSUME EngineSound, NEW w \in Workers, NEW m \in reports, ReportRead(w, m)
  PROVE  LET t == txns'[w] IN
         /\ t.op = "complete" /\ t.rec = m.claim.rec /\ t.seen = execs[t.rec]
         /\ m.claim \in Claim /\ t.rec \in Recommendations
         /\ execs[t.rec].status \in Claimed
         /\ t.new.error_code = m.outcome
         /\ t.new.status = OutcomeStatus(RowOperation(execs[t.rec]), m.outcome = NoError)
         /\ UNCHANGED <<execs, containers, responders>>
         /\ reports' \subseteq reports
<1> DEFINE row == execs[m.claim.rec]
           status == OutcomeStatus(IF row.status = "rollback_claimed" THEN "rollback"
                                   ELSE "execute", m.outcome = NoError)
           new == [row EXCEPT !.status = status, !.lease = "none", !.error_code = m.outcome]
<1>1. TypeOK /\ EngineTypeOK
  BY DEF EngineSound, Inductive
<1>2. m.claim \in Claim /\ m.claim.rec \in Recommendations
  BY <1>1 DEF EngineTypeOK, Report, Claim
<1>3. row \in ExecutionRow
  BY <1>1, <1>2 DEF TypeOK
<1>4. \E e : txns'[w] = [op |-> "complete", rec |-> m.claim.rec, seen |-> row, new |-> new,
                         event |-> e]
  BY <1>1 DEF ReportRead, CompleteRead, Open, TypeOK
<1>5. new.status = status /\ new.error_code = m.outcome
  BY <1>3 DEF ExecutionRow
<1>6. LET t == txns'[w] IN
      t.op = "complete" /\ t.rec = m.claim.rec /\ t.seen = row /\ t.new = new
  BY <1>4
<1>7. /\ row.status \in Claimed
      /\ UNCHANGED <<execs, containers, responders>>
      /\ reports' \subseteq reports
  BY DEF ReportRead, CompleteRead
<1>8. /\ txns'[w].new.status = OutcomeStatus(RowOperation(row), m.outcome = NoError)
      /\ txns'[w].new.error_code = m.outcome
  BY <1>5, <1>6, <1>7 DEF RowOperation, Claimed
<1>9. QED
  BY <1>2, <1>6, <1>7, <1>8

-------------------------------------------------------------------------------
(* Attempts under way.                                                      *)

(* What a completion writes is what its report said, of the operation the   *)
(* row was in; a rollback or retry request queues the execution again.      *)
WritesSound ==
  \A w \in Workers :
    /\ txns[w].op = "complete" =>
         txns[w].new.status =
           OutcomeStatus(RowOperation(txns[w].seen), txns[w].new.error_code = NoError)
    /\ txns[w].op \in {"rollback", "retry"} => txns[w].new.status \in Queued

AttemptsPresent ==
  \A r \in Recommendations, o \in Operations : UnderWay(r, {o}) => Present(r)

(* The attempts under way at r are all at one operation, the one the row is *)
(* in or has gone through.                                                  *)
OneOperation(r) ==
  /\ ~(UnderWay(r, {"execute"}) /\ UnderWay(r, {"rollback"}))
  /\ execs[r].status \in {"claimed", "succeeded"} => ~UnderWay(r, {"rollback"})
  /\ execs[r].status \in {"rollback_claimed", "rolled_back"} => ~UnderWay(r, {"execute"})

(* The state of the container is the one operation o is to bring about.     *)
InEffect(r, operation, rows, docker) ==
  Sole(r) /\ rows[r].action_type \in Disruptive =>
    Expected(rows[r].action_type, operation, docker[TargetOf[r]])

(* A success of operation o on r is recorded, or on its way to be.          *)
Success(r, o) ==
  \/ \E x \in Executors :
       /\ responders[x].phase = "done" /\ responders[x].outcome = NoError
       /\ responders[x].claim.rec = r /\ responders[x].claim.operation = o
  \/ \E m \in reports :
       m.outcome = NoError /\ m.claim.rec = r /\ m.claim.operation = o
  \/ \E w \in Workers :
       /\ txns[w].op = "complete" /\ txns[w].new.error_code = NoError
       /\ txns[w].rec = r /\ RowOperation(txns[w].seen) = o
  \/ execs[r].status = IF o = "execute" THEN "succeeded" ELSE "rolled_back"

SuccessIsTrue(r) ==
  \A o \in Operations : Success(r, o) => InEffect(r, o, execs, containers)

OutcomesSound ==
  /\ WritesSound
  /\ AttemptsPresent
  /\ \A r \in Recommendations \ crossed : OneOperation(r) /\ SuccessIsTrue(r)

LEMMA WritesStep ==
  ASSUME EngineSound, WritesSound, [EngineNext]_engineVars
  PROVE  WritesSound'
<1>1. ASSUME NEW w \in Workers
      PROVE  /\ txns'[w].op = "complete" =>
                  txns'[w].new.status =
                    OutcomeStatus(RowOperation(txns'[w].seen), txns'[w].new.error_code = NoError)
             /\ txns'[w].op \in {"rollback", "retry"} => txns'[w].new.status \in Queued
  <2>1. CASE \E m \in reports : ReportRead(w, m)
    BY <2>1, ReadReport
  <2>2. CASE txns'[w] = txns[w]
    BY <2>2 DEF WritesSound
  <2>3. QED
    BY <2>1, <2>2, TransactionStep DEF Idle
<1>2. QED
  BY <1>1 DEF WritesSound

LEMMA UnderWayGrows ==
  ASSUME NEW r, NEW A, NEW B, A \subseteq B, UnderWay(r, A)
  PROVE  UnderWay(r, B)
BY DEF UnderWay

(* An attempt under way was so before, unless it has just been claimed or   *)
(* its report read into a row that is in another operation.                 *)
LEMMA WorkStep ==
  ASSUME ConstantsAssumption, EngineAssumption, EngineSound, [EngineNext]_engineVars,
         NEW r \in Recommendations, NEW o \in Operations, UnderWay(r, {o})'
  PROVE  \/ UnderWay(r, {o})
         \/ \E x \in Executors : ResponderClaims(x, r) /\ o = OperationOn(r)
         \/ \E w \in Workers, m \in reports :
              ReportRead(w, m) /\ m.claim.rec = r /\ o = RowOperation(execs[r])
<1>1. EngineTypeOK /\ Inductive
  BY DEF EngineSound
<1>2. CASE \E x \in Executors : /\ responders'[x].phase \in Busy
                                /\ responders'[x].claim.rec = r
                                /\ responders'[x].claim.operation \in {o}
  <2>1. PICK x \in Executors : /\ responders'[x].phase \in Busy
                               /\ responders'[x].claim.rec = r
                               /\ responders'[x].claim.operation = o
    BY <1>2
  <2>2. CASE /\ responders[x].phase \in Busy
             /\ responders'[x].claim = responders[x].claim
    BY <2>1, <2>2 DEF UnderWay
  <2>3. CASE responders'[x] = Resting
    BY <2>1, <2>3 DEF Resting, Busy
  <2>4. CASE \E q \in Recommendations : /\ ResponderClaims(x, q)
                                         /\ responders'[x].phase = "claimed"
                                         /\ responders'[x].claim \in claims' \ claims
    <3>1. PICK q \in Recommendations : /\ ResponderClaims(x, q)
                                       /\ responders'[x].claim \in claims' \ claims
      BY <2>4
    <3>2. ClaimExecution(x, q)
      BY <3>1 DEF ResponderClaims
    <3>3. responders'[x].claim.rec = q /\ responders'[x].claim.operation = OperationOn(q)
      BY <3>1, <3>2 DEF ClaimExecution
    <3>4. QED
      BY <2>1, <3>1, <3>3
  <2>5. CASE Inspect(x)
    <3>1. responders[x].phase = "claimed" /\ responders'[x].claim = responders[x].claim
      BY <1>1, <2>5 DEF Inspect, Goto, EngineTypeOK, Inspection, Done
    <3>2. QED
      BY <2>2, <3>1 DEF Busy
  <2>6. CASE SendReport(x)
    <3>1. responders'[x].phase = "reporting"
      BY <1>1, <2>6 DEF SendReport, Goto, EngineTypeOK
    <3>2. QED
      BY <2>1, <3>1 DEF Busy
  <2>7. QED
    BY <1>1, <2>1, <2>2, <2>3, <2>4, <2>5, <2>6, ResponderMoves DEF Busy
<1>3. CASE \E m \in reports' : m.claim.rec = r /\ m.claim.operation \in {o}
  <2>1. PICK m \in reports' : m.claim.rec = r /\ m.claim.operation = o
    BY <1>3
  <2>2. CASE m \in reports
    BY <2>1, <2>2 DEF UnderWay
  <2>3. CASE m \notin reports
    <3>1. PICK x \in Executors : SendReport(x)
      BY <2>3, ReportsStep
    <3>2. responders[x].phase = "done" /\ m.claim = responders[x].claim
      BY <2>3, <3>1 DEF SendReport
    <3>3. QED
      BY <2>1, <3>2 DEF UnderWay, Busy
  <2>4. QED
    BY <2>2, <2>3
<1>4. CASE \E w \in Workers : /\ txns'[w].op = "complete" /\ txns'[w].rec = r
                              /\ RowOperation(txns'[w].seen) \in {o}
  <2>1. PICK w \in Workers : /\ txns'[w].op = "complete" /\ txns'[w].rec = r
                             /\ RowOperation(txns'[w].seen) = o
    BY <1>4
  <2>2. CASE txns'[w] = txns[w]
    BY <2>1, <2>2 DEF UnderWay
  <2>3. CASE \E m \in reports : ReportRead(w, m)
    <3>1. PICK m \in reports : ReportRead(w, m)
      BY <2>3
    <3>2. txns'[w].rec = m.claim.rec /\ txns'[w].seen = execs[txns'[w].rec]
      BY <3>1, ReadReport
    <3>3. QED
      BY <2>1, <3>1, <3>2
  <2>4. QED
    BY <2>1, <2>2, <2>3, TransactionStep DEF Idle
<1>5. QED
  BY <1>2, <1>3, <1>4 DEF UnderWay

(* A report that is read is the report of an attempt under way.             *)
LEMMA ReadUnderWay ==
  ASSUME EngineSound, NEW w \in Workers, NEW m \in reports, ReportRead(w, m)
  PROVE  /\ m.claim.rec \in Recommendations /\ m.claim.operation \in Operations
         /\ UnderWay(m.claim.rec, {m.claim.operation})
         /\ execs[m.claim.rec].status \in Claimed
BY ReadReport DEF UnderWay, Claim

LEMMA AttemptsPresentStep ==
  ASSUME ConstantsAssumption, EngineAssumption, EngineSound, ClaimsSound, AttemptsPresent,
         [EngineNext]_engineVars
  PROVE  AttemptsPresent'
<1>1. Inductive /\ [Next]_vars
  BY EngineStepsAreApiSteps DEF EngineSound
<1>2. ASSUME NEW r \in Recommendations, Present(r) PROVE Present(r)'
  BY <1>1, <1>2, ExecutionStays
<1>3. ASSUME NEW r \in Recommendations, NEW o \in Operations, UnderWay(r, {o})'
      PROVE  Present(r)'
  <2>1. CASE UnderWay(r, {o})
    BY <1>2, <2>1 DEF AttemptsPresent
  <2>2. CASE \E x \in Executors : ResponderClaims(x, r)
    <3>1. PICK x \in Executors : ClaimExecution(x, r) /\ \E c \in claims' \ claims : TRUE
      BY <2>2 DEF ResponderClaims
    <3>2. PICK c \in claims' \ claims : TRUE
      BY <3>1
    <3>3. HandedOut(c, execs', audit') /\ c.rec = r
      BY <1>1, <3>1, <3>2, NewClaim
    <3>4. QED
      BY <3>3 DEF HandedOut, Present
  <2>3. CASE \E w \in Workers, m \in reports : ReportRead(w, m) /\ m.claim.rec = r
    <3>1. execs[r].status \in Claimed
      BY <2>3, ReadUnderWay
    <3>2. Present(r)
      BY <3>1 DEF Present, Claimed
    <3>3. QED
      BY <1>2, <3>2
  <2>4. QED
    BY <1>3, <2>1, <2>2, <2>3, WorkStep
<1>4. QED
  BY <1>3 DEF AttemptsPresent

(* A claim that crosses nothing leaves the other operation without attempts.*)
LEMMA UncrossedClaim ==
  ASSUME NEW x \in Executors, NEW r \in Recommendations, ResponderClaims(x, r), r \notin crossed'
  PROVE  /\ \A o \in Operations \ {OperationOn(r)} : ~UnderWay(r, {o})
         /\ r \in crossed => \A o \in Operations : ~UnderWay(r, {o})
<1>1. ~Crosses(r)
  BY DEF ResponderClaims
<1>2. /\ ~UnderWay(r, Operations \ {OperationOn(r)})
      /\ r \in crossed => ~UnderWay(r, Operations)
  BY <1>1 DEF Crosses
<1>3. \A o \in Operations \ {OperationOn(r)} :
        UnderWay(r, {o}) => UnderWay(r, Operations \ {OperationOn(r)})
  BY UnderWayGrows
<1>4. \A o \in Operations : UnderWay(r, {o}) => UnderWay(r, Operations)
  BY UnderWayGrows
<1>5. QED
  BY <1>2, <1>3, <1>4

LEMMA OneOperationStep ==
  ASSUME ConstantsAssumption, EngineAssumption, EngineSound, ClaimsSound, WritesSound,
         [EngineNext]_engineVars,
         NEW r \in Recommendations, r \notin crossed => OneOperation(r), r \notin crossed'
  PROVE  OneOperation(r)'
<1>1. Inductive /\ Operations = {"execute", "rollback"}
  BY DEF EngineSound, Operations
<1>2. CASE \E x \in Executors : ResponderClaims(x, r)
  <2>1. PICK x \in Executors : ResponderClaims(x, r)
    BY <1>2
  <2>2. PICK c \in claims' \ claims : TRUE
    BY <2>1 DEF ResponderClaims
  <2>3. ClaimExecution(x, r) /\ UNCHANGED reports
    BY <2>1 DEF ResponderClaims
  <2>4. /\ OperationOn(r) \in Operations
        /\ execs'[r].status = IF OperationOn(r) = "execute" THEN "claimed" ELSE "rollback_claimed"
    BY <1>1, <2>2, <2>3, NewClaim DEF OperationOn
  <2>5. ASSUME NEW o \in Operations \ {OperationOn(r)} PROVE ~UnderWay(r, {o})'
    <3>1. ~UnderWay(r, {o})
      BY <2>1, UncrossedClaim
    <3>2. \A w \in Workers, m \in reports : ~ReportRead(w, m)
      BY <2>3 DEF ReportRead
    <3>3. QED
      BY <3>1, <3>2, WorkStep
  <2>6. CASE OperationOn(r) = "execute"
    BY <1>1, <2>4, <2>5, <2>6 DEF OneOperation
  <2>7. CASE OperationOn(r) = "rollback"
    BY <1>1, <2>4, <2>5, <2>7 DEF OneOperation
  <2>8. QED
    BY <1>1, <2>4, <2>6, <2>7
<1>3. CASE \A x \in Executors : ~ResponderClaims(x, r)
  <2>1. OneOperation(r)
    BY <1>3, HistoryStep
  <2>2. ASSUME NEW o \in Operations, UnderWay(r, {o})' PROVE UnderWay(r, {o})
    <3>1. CASE \E w \in Workers, m \in reports :
                 ReportRead(w, m) /\ m.claim.rec = r /\ o = RowOperation(execs[r])
      <4>1. PICK w \in Workers, m \in reports :
              ReportRead(w, m) /\ m.claim.rec = r /\ o = RowOperation(execs[r])
        BY <3>1
      <4>2. PICK p \in Operations : p = m.claim.operation
        BY <4>1, ReadUnderWay
      <4>3. UnderWay(r, {p}) /\ execs[r].status \in Claimed
        BY <4>1, <4>2, ReadUnderWay
      <4>4. p = o
        BY <1>1, <2>1, <4>1, <4>3 DEF OneOperation, RowOperation, Claimed
      <4>5. QED
        BY <4>3, <4>4
    <3>2. QED
      BY <1>3, <2>2, <3>1, WorkStep
  <2>3. ASSUME execs'[r].status \in {"claimed", "succeeded"} PROVE ~UnderWay(r, {"rollback"})
    <3>1. CASE execs'[r].status = execs[r].status
      BY <2>1, <2>3, <3>1 DEF OneOperation
    <3>2. CASE \E w \in Workers : /\ CommitExecution(w) /\ txns[w].rec = r
                                   /\ execs'[r].status = txns[w].new.status
                                   /\ execs'[r].status \in Queued \union Terminal
      <4>1. PICK w \in Workers : /\ txns[w].op = "complete" /\ txns[w].rec = r
                                 /\ txns[w].new.status = "succeeded"
        BY <2>3, <3>2 DEF CommitExecution, WritesSound, Queued, Terminal
      <4>2. RowOperation(txns[w].seen) = "execute"
        BY <4>1 DEF WritesSound, OutcomeStatus
      <4>3. UnderWay(r, {"execute"})
        BY <4>1, <4>2 DEF UnderWay
      <4>4. QED
        BY <2>1, <4>3 DEF OneOperation
    <3>3. QED
      BY <1>3, <2>3, <3>1, <3>2, StatusStep DEF Queued
  <2>4. ASSUME execs'[r].status \in {"rollback_claimed", "rolled_back"}
        PROVE  ~UnderWay(r, {"execute"})
    <3>1. CASE execs'[r].status = execs[r].status
      BY <2>1, <2>4, <3>1 DEF OneOperation
    <3>2. CASE \E w \in Workers : /\ CommitExecution(w) /\ txns[w].rec = r
                                   /\ execs'[r].status = txns[w].new.status
                                   /\ execs'[r].status \in Queued \union Terminal
      <4>1. PICK w \in Workers : /\ txns[w].op = "complete" /\ txns[w].rec = r
                                 /\ txns[w].new.status = "rolled_back"
        BY <2>4, <3>2 DEF CommitExecution, WritesSound, Queued, Terminal
      <4>2. RowOperation(txns[w].seen) = "rollback"
        BY <4>1 DEF WritesSound, OutcomeStatus, RowOperation
      <4>3. UnderWay(r, {"rollback"})
        BY <4>1, <4>2 DEF UnderWay
      <4>4. QED
        BY <2>1, <4>3 DEF OneOperation
    <3>3. QED
      BY <1>3, <2>4, <3>1, <3>2, StatusStep DEF Queued
  <2>5. QED
    BY <1>1, <2>1, <2>2, <2>3, <2>4 DEF OneOperation
<1>4. QED
  BY <1>2, <1>3

(* Docker does not undo an operation at the behest of the same operation.   *)
LEMMA CommandKeeps ==
  ASSUME NEW a \in Disruptive, NEW o \in Operations, NEW seen, NEW state \in ContainerState,
         Accepted(Command(a, o, seen), state), Expected(a, o, state)
  PROVE  Expected(a, o, After(Command(a, o, seen), state))
BY DEF Disruptive, Actions, Operations, Command, After, Accepted, Running, Expected, ContainerState

(* A container that one recommendation alone acts on changes by the Docker  *)
(* call of an attempt under way at it.                                      *)
LEMMA SoleContainerStep ==
  ASSUME EngineAssumption, EngineSound, ClaimsSound, [EngineNext]_engineVars,
         NEW r \in Recommendations, Sole(r), containers'[TargetOf[r]] # containers[TargetOf[r]]
  PROVE  \E o \in Operations, seen \in ContainerState :
           LET c == TargetOf[r]
               command == Command(execs[r].action_type, o, seen)
           IN  /\ UnderWay(r, {o})
               /\ Present(r) /\ c \notin Protected /\ execs[r].action_type \in Disruptive
               /\ o = "rollback" => "rollback_requested" \in audit[r]
               /\ Accepted(command, containers[c])
               /\ containers'[c] = After(command, containers[c])
<1>1. EngineTypeOK
  BY DEF EngineSound
<1>2. TargetOf[r] \in Containers /\ TargetOf[r] \notin OutsideActors
  BY DEF EngineAssumption, Sole, HasTarget
<1>3. PICK x \in Executors :
        /\ responders[x].phase = "inspected"
        /\ Target(responders[x].claim) = TargetOf[r]
        /\ Accepted(CommandOf(x), containers[TargetOf[r]])
        /\ containers'[TargetOf[r]] = After(CommandOf(x), containers[TargetOf[r]])
  BY <1>1, <1>2, ContainerStep
<1> DEFINE claim == responders[x].claim
           o == claim.operation
           seen == responders[x].seen
<1>4. claim \in Claim /\ seen \in ContainerState
  BY <1>1, <1>3, ResponderKinds DEF EngineTypeOK
<1>5. claim.rec \in Recommendations /\ o \in Operations
  BY <1>4 DEF Claim
<1>6. claim.rec = r
  BY <1>3, <1>5 DEF Target, Sole
<1>7. UnderWay(r, {o})
  BY <1>3, <1>6 DEF UnderWay, Busy
<1>8. HandedOut(claim, execs, audit) /\ MayAct(claim, execs)
  BY <1>3 DEF ClaimsSound
<1>9. CommandOf(x) = Command(execs[r].action_type, o, seen)
  BY <1>6 DEF CommandOf, ActionOf
<1>10. QED
  BY <1>3, <1>4, <1>5, <1>6, <1>7, <1>8, <1>9 DEF HandedOut, MayAct, Present, Target

(* What is in effect stays so while no attempt at the other operation is    *)
(* under way.                                                               *)
LEMMA InEffectStays ==
  ASSUME ConstantsAssumption, EngineAssumption, EngineSound, ClaimsSound, [EngineNext]_engineVars,
         NEW r \in Recommendations, Present(r), NEW o \in Operations,
         \A p \in Operations : UnderWay(r, {p}) => p = o,
         InEffect(r, o, execs, containers)
  PROVE  InEffect(r, o, execs', containers')
<1>1. execs'[r].action_type = execs[r].action_type
  <2>1. [Next]_vars
    BY EngineStepsAreApiSteps DEF EngineSound
  <2>2. QED
    BY <2>1, ExecutionStays DEF EngineSound
<1>2. SUFFICES ASSUME Sole(r), execs[r].action_type \in Disruptive,
                      containers'[TargetOf[r]] # containers[TargetOf[r]]
               PROVE  Expected(execs[r].action_type, o, containers'[TargetOf[r]])
  BY <1>1 DEF InEffect
<1> DEFINE c == TargetOf[r]
           a == execs[r].action_type
<1>3. PICK p \in Operations, seen \in ContainerState :
        /\ UnderWay(r, {p})
        /\ Accepted(Command(a, p, seen), containers[c])
        /\ containers'[c] = After(Command(a, p, seen), containers[c])
  BY <1>2, SoleContainerStep
<1>4. p = o
  BY <1>3
<1>5. containers[c] \in ContainerState /\ Expected(a, o, containers[c])
  BY <1>2 DEF EngineSound, EngineTypeOK, EngineAssumption, Sole, HasTarget, InEffect
<1>6. QED
  BY <1>2, <1>3, <1>4, <1>5, CommandKeeps

(* An attempt that ends in a success is in effect at that moment.           *)
LEMMA SuccessIsVerified ==
  ASSUME ConstantsAssumption, EngineAssumption, EngineSound, [EngineNext]_engineVars,
         NEW x \in Executors, responders'[x] # responders[x],
         responders'[x].phase = "done", responders'[x].outcome = NoError
  PROVE  InEffect(responders'[x].claim.rec, responders'[x].claim.operation, execs', containers')
<1> DEFINE s == responders[x]
           z == responders'[x]
           r == s.claim.rec
           state == IF HasTarget(r) THEN containers[Target(s.claim)] ELSE "none"
<1>1. EngineTypeOK
  BY DEF EngineSound
<1>2. z.claim = s.claim /\ UNCHANGED vars
  BY <1>1, DoneStep
<1>3. NoError \notin ErrorCodes
  BY DEF ConstantsAssumption
<1>4. z.outcome \notin RetryableCodes /\ z.outcome # "container_not_found"
  BY <1>3 DEF RetryableCodes, ErrorCodes
<1>5. CASE z = Inspection(s.claim, state)
  <2>1. ActionOf(s.claim) = "observe_only"
    BY <1>3, <1>5 DEF Inspection, Done, ErrorCodes
  <2>2. QED
    BY <1>2, <2>1 DEF InEffect, ActionOf, Disruptive, vars
<1>6. CASE z.outcome = Verdict(s.claim, containers[Target(s.claim)]) /\ UNCHANGED containers
  <2>1. Expected(ActionOf(s.claim), s.claim.operation, containers[Target(s.claim)])
    BY <1>3, <1>6 DEF Verdict, ErrorCodes
  <2>2. QED
    BY <1>2, <1>6, <2>1 DEF InEffect, ActionOf, Target, vars
<1>7. QED
  BY <1>1, <1>4, <1>5, <1>6, DoneStep

(* A success recorded or on its way was so before, or has just been found.  *)
LEMMA SuccessMoves ==
  ASSUME ConstantsAssumption, EngineAssumption, EngineSound, WritesSound, [EngineNext]_engineVars,
         NEW r \in Recommendations, OneOperation(r), NEW o \in Operations, Success(r, o)'
  PROVE  Success(r, o) \/ InEffect(r, o, execs', containers')
<1>1. EngineTypeOK /\ Operations = {"execute", "rollback"}
  BY DEF EngineSound, Operations
<1>2. CASE \E x \in Executors :
             /\ responders'[x].phase = "done" /\ responders'[x].outcome = NoError
             /\ responders'[x].claim.rec = r /\ responders'[x].claim.operation = o
  <2>1. PICK x \in Executors :
          /\ responders'[x].phase = "done" /\ responders'[x].outcome = NoError
          /\ responders'[x].claim.rec = r /\ responders'[x].claim.operation = o
    BY <1>2
  <2>2. CASE responders'[x] = responders[x]
    BY <2>1, <2>2 DEF Success
  <2>3. CASE responders'[x] # responders[x]
    BY <2>1, <2>3, SuccessIsVerified
  <2>4. QED
    BY <2>2, <2>3
<1>3. CASE \E m \in reports' :
             m.outcome = NoError /\ m.claim.rec = r /\ m.claim.operation = o
  <2>1. PICK m \in reports' : m.outcome = NoError /\ m.claim.rec = r /\ m.claim.operation = o
    BY <1>3
  <2>2. CASE m \in reports
    BY <2>1, <2>2 DEF Success
  <2>3. CASE m \notin reports
    <3>1. PICK x \in Executors : SendReport(x)
      BY <2>3, ReportsStep
    <3>2. /\ responders[x].phase = "done" /\ m.claim = responders[x].claim
          /\ m.outcome = responders[x].outcome
      BY <2>3, <3>1 DEF SendReport
    <3>3. QED
      BY <2>1, <3>2 DEF Success
  <2>4. QED
    BY <2>2, <2>3
<1>4. CASE \E w \in Workers :
             /\ txns'[w].op = "complete" /\ txns'[w].new.error_code = NoError
             /\ txns'[w].rec = r /\ RowOperation(txns'[w].seen) = o
  <2>1. PICK w \in Workers :
          /\ txns'[w].op = "complete" /\ txns'[w].new.error_code = NoError
          /\ txns'[w].rec = r /\ RowOperation(txns'[w].seen) = o
    BY <1>4
  <2>2. CASE txns'[w] = txns[w]
    BY <2>1, <2>2 DEF Success
  <2>3. CASE \E m \in reports : ReportRead(w, m)
    <3>1. PICK m \in reports : ReportRead(w, m)
      BY <2>3
    <3>2. /\ m.claim.rec = r /\ txns'[w].seen = execs[r] /\ m.outcome = NoError
      BY <2>1, <3>1, ReadReport
    <3>3. PICK p \in Operations : p = m.claim.operation
      BY <3>1, ReadUnderWay
    <3>4. UnderWay(r, {p}) /\ execs[r].status \in Claimed
      BY <3>1, <3>2, <3>3, ReadUnderWay
    <3>5. p = o
      BY <1>1, <2>1, <3>2, <3>4 DEF OneOperation, RowOperation, Claimed
    <3>6. QED
      BY <3>2, <3>3, <3>5 DEF Success
  <2>4. QED
    BY <2>1, <2>2, <2>3, TransactionStep DEF Idle
<1>5. CASE execs'[r].status = IF o = "execute" THEN "succeeded" ELSE "rolled_back"
  <2>1. CASE execs'[r].status = execs[r].status
    BY <1>5, <2>1 DEF Success
  <2>2. CASE \E w \in Workers : /\ CommitExecution(w) /\ txns[w].rec = r
                                /\ execs'[r].status = txns[w].new.status
                                /\ execs'[r].status \in Queued \union Terminal
    <3>1. PICK w \in Workers :
            /\ txns[w].op = "complete" /\ txns[w].rec = r
            /\ txns[w].new.status = IF o = "execute" THEN "succeeded" ELSE "rolled_back"
      BY <1>5, <2>2 DEF CommitExecution, WritesSound, Queued, Terminal
    <3>2. /\ txns[w].new.error_code = NoError
          /\ RowOperation(txns[w].seen) = o
      BY <1>1, <3>1 DEF WritesSound, OutcomeStatus, RowOperation
    <3>3. QED
      BY <3>1, <3>2 DEF Success
  <2>3. QED
    BY <1>5, <2>1, <2>2, StatusStep DEF Queued, Claimed
<1>6. QED
  BY <1>2, <1>3, <1>4, <1>5 DEF Success

(* The claim itself brings no success.                                      *)
LEMMA ClaimIsNoSuccess ==
  ASSUME ConstantsAssumption, EngineSound, NEW x \in Executors, NEW r \in Recommendations,
         ResponderClaims(x, r), NEW o \in Operations, Success(r, o)'
  PROVE  UnderWay(r, {o})
<1>1. EngineTypeOK /\ Inductive
  BY DEF EngineSound
<1>2. PICK c \in claims' \ claims : Goto(x, [phase |-> "claimed", claim |-> c])
  BY DEF ResponderClaims
<1>3. ClaimExecution(x, r) /\ UNCHANGED <<reports, txns>>
  BY DEF ResponderClaims, ClaimExecution
<1>4. execs'[r].status \in Claimed
  BY <1>1, <1>2, <1>3, NewClaim DEF Claimed
<1>5. ASSUME NEW y \in Executors, responders'[y].phase = "done"
      PROVE  responders'[y] = responders[y]
  BY <1>1, <1>2, <1>5 DEF Goto, EngineTypeOK
<1>6. QED
  BY <1>3, <1>4, <1>5 DEF Success, UnderWay, Busy, Claimed

(* While operations do not cross, no attempt at the other operation is      *)
(* under way beside a success.                                              *)
LEMMA SuccessIsAlone ==
  ASSUME AttemptsPresent, NEW r \in Recommendations, OneOperation(r),
         NEW o \in Operations, Success(r, o)
  PROVE  Present(r) /\ \A p \in Operations : UnderWay(r, {p}) => p = o
<1>1. Operations = {"execute", "rollback"}
  BY DEF Operations
<1>2. CASE UnderWay(r, {o})
  BY <1>1, <1>2 DEF AttemptsPresent, OneOperation
<1>3. CASE execs[r].status = IF o = "execute" THEN "succeeded" ELSE "rolled_back"
  BY <1>1, <1>3 DEF OneOperation, Present
<1>4. QED
  BY <1>2, <1>3 DEF Success, UnderWay, Busy

LEMMA SuccessStep ==
  ASSUME ConstantsAssumption, EngineAssumption, EngineSound, ClaimsSound,
         WritesSound, AttemptsPresent, [EngineNext]_engineVars,
         NEW r \in Recommendations, r \notin crossed',
         r \notin crossed => OneOperation(r) /\ SuccessIsTrue(r)
  PROVE  SuccessIsTrue(r)'
<1>1. SUFFICES ASSUME NEW o \in Operations, Success(r, o)'
               PROVE  InEffect(r, o, execs', containers')
  BY DEF SuccessIsTrue
<1>2. CASE r \in crossed
  <2>1. PICK x \in Executors : ResponderClaims(x, r)
    BY <1>2, HistoryStep
  <2>2. QED
    BY <1>1, <1>2, <2>1, ClaimIsNoSuccess, UncrossedClaim
<1>3. CASE r \notin crossed
  <2>1. CASE Success(r, o)
    <3>1. InEffect(r, o, execs, containers)
      BY <1>3, <2>1 DEF SuccessIsTrue
    <3>2. Present(r) /\ \A p \in Operations : UnderWay(r, {p}) => p = o
      BY <1>3, <2>1, SuccessIsAlone
    <3>3. QED
      BY <3>1, <3>2, InEffectStays
  <2>2. QED
    BY <1>1, <1>3, <2>1, SuccessMoves
<1>4. QED
  BY <1>2, <1>3

LEMMA OutcomesSoundInit ==
  ASSUME EngineInit
  PROVE  OutcomesSound
BY DEF EngineInit, Init, OutcomesSound, WritesSound, AttemptsPresent, OneOperation, SuccessIsTrue,
       Success, UnderWay, Busy, Resting, Idle, AbsentExecution

LEMMA OutcomesSoundStep ==
  ASSUME ConstantsAssumption, EngineAssumption, EngineSound, ClaimsSound, OutcomesSound,
         [EngineNext]_engineVars
  PROVE  OutcomesSound'
<1>1. WritesSound /\ AttemptsPresent
  BY DEF OutcomesSound
<1>2. WritesSound' /\ AttemptsPresent'
  BY <1>1, WritesStep, AttemptsPresentStep
<1>3. ASSUME NEW r \in Recommendations \ crossed' PROVE OneOperation(r)' /\ SuccessIsTrue(r)'
  <2>1. r \notin crossed => OneOperation(r) /\ SuccessIsTrue(r)
    BY DEF OutcomesSound
  <2>2. OneOperation(r)'
    BY <1>1, <2>1, OneOperationStep
  <2>3. SuccessIsTrue(r)'
    BY <1>1, <2>1, SuccessStep
  <2>4. QED
    BY <2>2, <2>3
<1>4. QED
  BY <1>2, <1>3 DEF OutcomesSound

(* Unless operations crossed at its newest claim, an action recorded as     *)
(* succeeded is in effect and one recorded as rolled back is undone, for    *)
(* any number of responders, handlers and containers, and whatever late     *)
(* reports, expired leases, crashes, losses and restarts there are.         *)
THEOREM UncrossedOutcomesAreTrue == EngineSpec => []UncrossedOutcomeIsTrue
<1> DEFINE Sound == EngineSound /\ ClaimsSound /\ OutcomesSound
<1>1. EngineInit => Sound
  BY ConstantsAssumption, EngineAssumption, EngineSoundInit, ClaimsSoundInit, OutcomesSoundInit
<1>2. Sound /\ [EngineNext]_engineVars => Sound'
  BY ConstantsAssumption, EngineAssumption, EngineSoundStep, ClaimsSoundStep, OutcomesSoundStep
<1>3. Sound => UncrossedOutcomeIsTrue
  BY DEF OutcomesSound, SuccessIsTrue, Success, InEffect, UncrossedOutcomeIsTrue, OutcomeIsTrue,
         Operations
<1>4. QED
  BY <1>1, <1>2, <1>3, PTL DEF EngineSpec

-------------------------------------------------------------------------------
(* Releasable containment.  A container that is not running was brought     *)
(* there by its action, and an attempt at such an action ends in a success  *)
(* or in a transient failure.                                               *)

Contained(r, docker) == Sole(r) /\ docker[TargetOf[r]] # "running"

ContainedByAction ==
  \A r \in Recommendations : Contained(r, containers) =>
    /\ Present(r)
    /\ TargetOf[r] \notin Protected
    /\ \/ execs[r].action_type = "pause_container" /\ containers[TargetOf[r]] = "paused"
       \/ execs[r].action_type = "stop_container" /\ containers[TargetOf[r]] = "stopped"

Transient(r, outcome) ==
  Sole(r) /\ TargetOf[r] \notin Protected => outcome \in RetryableCodes \union {NoError}

(* "overtaken" marks the rows whose error code is not the one of the        *)
(* completion that failed them.                                             *)
FailuresTransient ==
  /\ \A x \in Executors :
       responders[x].phase = "done" => Transient(responders[x].claim.rec, responders[x].outcome)
  /\ \A m \in reports : Transient(m.claim.rec, m.outcome)
  /\ \A w \in Workers :
       txns[w].op = "complete" => Transient(txns[w].rec, txns[w].new.error_code)
  /\ \A r \in Recommendations \ overtaken :
       execs[r].status \in {"failed", "rollback_failed"} =>
         Transient(r, execs[r].error_code) /\ execs[r].error_code # NoError

LEMMA ContainedStep ==
  ASSUME ConstantsAssumption, EngineAssumption, EngineSound, ClaimsSound, ContainedByAction,
         [EngineNext]_engineVars
  PROVE  ContainedByAction'
<1>1. EngineTypeOK /\ Inductive /\ [Next]_vars
  BY EngineStepsAreApiSteps DEF EngineSound
<1>2. SUFFICES ASSUME NEW r \in Recommendations, Contained(r, containers')
               PROVE  /\ Present(r)'
                      /\ TargetOf[r] \notin Protected
                      /\ \/ /\ execs'[r].action_type = "pause_container"
                            /\ containers'[TargetOf[r]] = "paused"
                         \/ /\ execs'[r].action_type = "stop_container"
                            /\ containers'[TargetOf[r]] = "stopped"
  BY DEF ContainedByAction, Contained, Sole, HasTarget
<1> DEFINE c == TargetOf[r]
<1>3. CASE containers'[c] = containers[c]
  <2>1. Contained(r, containers)
    BY <1>2, <1>3 DEF Contained
  <2>2. Present(r)' /\ execs'[r].action_type = execs[r].action_type
    BY <1>1, <2>1, ExecutionStays DEF ContainedByAction
  <2>3. QED
    BY <1>3, <2>1, <2>2 DEF ContainedByAction
<1>4. CASE containers'[c] # containers[c]
  <2>1. Sole(r) /\ containers[c] \in ContainerState /\ containers'[c] # "running"
    BY <1>1, <1>2 DEF Contained, Sole, HasTarget, EngineAssumption, EngineTypeOK
  <2>2. PICK o \in Operations, seen \in ContainerState :
          /\ Present(r) /\ c \notin Protected /\ execs[r].action_type \in Disruptive
          /\ Accepted(Command(execs[r].action_type, o, seen), containers[c])
          /\ containers'[c] = After(Command(execs[r].action_type, o, seen), containers[c])
    BY <1>4, <2>1, SoleContainerStep
  <2>3. \/ containers'[c] = "paused" /\ execs[r].action_type = "pause_container"
        \/ containers'[c] = "stopped" /\ execs[r].action_type = "stop_container"
    BY <1>4, <2>1, <2>2, CommandEffect
  <2>4. Present(r)' /\ execs'[r].action_type = execs[r].action_type
    BY <1>1, <2>2, ExecutionStays
  <2>5. QED
    BY <2>2, <2>3, <2>4
<1>5. QED
  BY <1>3, <1>4

(* How an attempt ends at a container nobody else acts on.                  *)
LEMMA OutcomeIsTransient ==
  ASSUME ConstantsAssumption, EngineAssumption, EngineSound, ClaimsSound, ContainedByAction,
         [EngineNext]_engineVars, NEW x \in Executors,
         responders'[x] # responders[x], responders'[x].phase = "done"
  PROVE  Transient(responders'[x].claim.rec, responders'[x].outcome)
<1> DEFINE s == responders[x]
           r == s.claim.rec
           c == TargetOf[r]
           outcome == responders'[x].outcome
<1>1. EngineTypeOK
  BY DEF EngineSound
<1>2. responders'[x].claim = s.claim /\ s.claim \in Claim /\ r \in Recommendations
  BY <1>1, DoneStep DEF Claim
<1>3. SUFFICES ASSUME outcome \notin RetryableCodes, Sole(r), c \notin Protected
               PROVE  outcome = NoError
  BY <1>2 DEF Transient
<1>4. /\ HasTarget(r)
      /\ \/ containers[c] = "running"
         \/ execs[r].action_type = "pause_container" /\ containers[c] = "paused"
         \/ execs[r].action_type = "stop_container" /\ containers[c] = "stopped"
  <2>1. HasTarget(r)
    BY <1>3 DEF Sole
  <2>2. containers[c] # "running" => Contained(r, containers)
    BY <1>3 DEF Contained
  <2>3. QED
    BY <1>2, <2>1, <2>2 DEF ContainedByAction
<1>5. CASE responders'[x] = Inspection(s.claim, IF HasTarget(r) THEN containers[Target(s.claim)]
                                                ELSE "none")
  <2>1. responders'[x] = Inspection(s.claim, containers[c])
    BY <1>4, <1>5 DEF Target
  <2>2. QED
    BY <1>3, <1>4, <2>1 DEF Inspection, Done, ActionOf, Target, Running
<1>6. CASE outcome = Verdict(s.claim, containers[Target(s.claim)])
  BY <1>3, <1>4, <1>6 DEF Verdict, Target, RetryableCodes
<1>7. CASE containers[Target(s.claim)] = "removed"
  BY <1>4, <1>7 DEF Target
<1>8. QED
  BY <1>1, <1>3, <1>5, <1>6, <1>7, DoneStep

LEMMA FailedStep ==
  ASSUME ConstantsAssumption, EngineAssumption, EngineSound, WritesSound, FailuresTransient, [EngineNext]_engineVars,
         NEW r \in Recommendations \ overtaken',
         execs'[r].status \in {"failed", "rollback_failed"}
  PROVE  Transient(r, execs'[r].error_code) /\ execs'[r].error_code # NoError
<1>1. TypeOK
  BY DEF EngineSound, Inductive
<1>2. CASE \E w \in Workers : /\ BackendCommit(w) /\ CommitExecution(w) /\ txns[w].rec = r
                              /\ execs'[r].status = txns[w].new.status
  <2>1. PICK w \in Workers : /\ BackendCommit(w) /\ CommitExecution(w) /\ txns[w].rec = r
                             /\ execs'[r].status = txns[w].new.status
    BY <1>2
  <2> DEFINE t == txns[w]
  <2>2. t.op = "complete" /\ t.new.error_code # NoError
    BY <2>1 DEF CommitExecution, WritesSound, Queued, OutcomeStatus
  <2>3. execs[r].error_code = t.seen.error_code
    BY <2>1, <2>2 DEF BackendCommit
  <2>4. execs'[r] = Flush(t.seen, t.new, execs[r])
    BY <1>1, <2>1 DEF CommitExecution, TypeOK
  <2>5. "error_code" \in DOMAIN execs[r]
    BY <1>1 DEF TypeOK, ExecutionRow
  <2>6. execs'[r].error_code = t.new.error_code
    BY <2>3, <2>4, <2>5 DEF Flush
  <2>7. QED
    BY <2>1, <2>2, <2>6 DEF FailuresTransient
<1>3. CASE execs'[r].status = execs[r].status /\ execs'[r].error_code = execs[r].error_code
  <2>1. CASE \E x \in Executors : ResponderClaims(x, r)
    <3>1. PICK x \in Executors : ClaimExecution(x, r) /\ \E c \in claims' \ claims : TRUE
      BY <2>1 DEF ResponderClaims
    <3>2. PICK c \in claims' \ claims : TRUE
      BY <3>1
    <3>3. execs'[r].status \in Claimed
      BY <3>1, <3>2, NewClaim DEF EngineSound, Claimed
    <3>4. QED
      BY <3>3 DEF Claimed
  <2>2. CASE \A x \in Executors : ~ResponderClaims(x, r)
    BY <1>3, <2>2, HistoryStep DEF FailuresTransient
  <2>3. QED
    BY <2>1, <2>2
<1>4. QED
  BY <1>2, <1>3, StatusStep DEF Queued, Claimed

LEMMA TransientStep ==
  ASSUME ConstantsAssumption, EngineAssumption, EngineSound, ClaimsSound, WritesSound,
         ContainedByAction, FailuresTransient, [EngineNext]_engineVars
  PROVE  FailuresTransient'
<1>1. ASSUME NEW x \in Executors, responders'[x].phase = "done"
      PROVE  Transient(responders'[x].claim.rec, responders'[x].outcome)
  BY <1>1, OutcomeIsTransient DEF FailuresTransient
<1>2. ASSUME NEW m \in reports' PROVE Transient(m.claim.rec, m.outcome)
  <2>1. CASE m \in reports
    BY <2>1 DEF FailuresTransient
  <2>2. CASE m \notin reports
    <3>1. PICK x \in Executors : SendReport(x)
      BY <2>2, ReportsStep
    <3>2. /\ responders[x].phase = "done" /\ m.claim = responders[x].claim
          /\ m.outcome = responders[x].outcome
      BY <2>2, <3>1 DEF SendReport
    <3>3. QED
      BY <3>2 DEF FailuresTransient
  <2>3. QED
    BY <2>1, <2>2
<1>3. ASSUME NEW w \in Workers, txns'[w].op = "complete"
      PROVE  Transient(txns'[w].rec, txns'[w].new.error_code)
  <2>1. CASE txns'[w] = txns[w]
    BY <1>3, <2>1 DEF FailuresTransient
  <2>2. CASE \E m \in reports : ReportRead(w, m)
    <3>1. PICK m \in reports : ReportRead(w, m)
      BY <2>2
    <3>2. txns'[w].rec = m.claim.rec /\ txns'[w].new.error_code = m.outcome
      BY <3>1, ReadReport
    <3>3. QED
      BY <3>2 DEF FailuresTransient
  <2>3. QED
    BY <1>3, <2>1, <2>2, TransactionStep DEF Idle
<1>4. QED
  BY <1>1, <1>2, <1>3, FailedStep DEF FailuresTransient, Transient, Sole, HasTarget

(* What the parts of the invariant give.                                    *)
LEMMA SoundIsReleasable ==
  ASSUME EngineSound, OutcomesSound, ContainedByAction, FailuresTransient
  PROVE  ContainmentIsReleasable
<1>1. SUFFICES ASSUME NEW r \in Recommendations, r \notin crossed, r \notin overtaken,
                      Contained(r, containers),
                      execs[r].status \notin Queued \union Claimed \union {"succeeded"}
               PROVE  /\ execs[r].status \in {"failed", "rollback_failed"}
                      /\ execs[r].error_code \in RetryableCodes
  BY DEF ContainmentIsReleasable, Contained
<1> DEFINE a == execs[r].action_type
           state == containers[TargetOf[r]]
<1>2. /\ Present(r) /\ TargetOf[r] \notin Protected /\ Sole(r)
      /\ \/ a = "pause_container" /\ state = "paused"
         \/ a = "stop_container" /\ state = "stopped"
  BY <1>1 DEF ContainedByAction, Contained
<1>3. execs[r].status # "rolled_back"
  <2>1. execs[r].status = "rolled_back" => InEffect(r, "rollback", execs, containers)
    BY <1>1 DEF OutcomesSound, SuccessIsTrue, Success, Operations
  <2>2. ~InEffect(r, "rollback", execs, containers)
    BY <1>2 DEF InEffect, Expected, Running, Disruptive, Actions
  <2>3. QED
    BY <2>1, <2>2
<1>4. execs[r].status \in {"failed", "rollback_failed"}
  BY <1>1, <1>2, <1>3 DEF EngineSound, Inductive, TypeOK, ExecutionRow, Present, Terminal
<1>5. QED
  BY <1>1, <1>2, <1>4 DEF FailuresTransient, Transient

LEMMA ContainmentInit ==
  ASSUME EngineAssumption, EngineInit
  PROVE  ContainedByAction /\ FailuresTransient
<1>1. \A r \in Recommendations : Sole(r) => containers[TargetOf[r]] = "running"
  BY DEF EngineInit, EngineAssumption, Sole, HasTarget
<1>2. QED
  BY <1>1 DEF EngineInit, Init, ContainedByAction, Contained, FailuresTransient, Resting, Idle,
              AbsentExecution

(* No container is stranded behind a final status, whatever fails, unless   *)
(* operations crossed at the newest claim or its completion was overtaken   *)
(* by a retry: for any number of responders, handlers and late reports.     *)
THEOREM ContainmentStaysReleasable == EngineSpec => []ContainmentIsReleasable
<1> DEFINE Sound == EngineSound /\ ClaimsSound /\ OutcomesSound
           Settled == ContainedByAction /\ FailuresTransient
<1>1. EngineInit => Sound /\ Settled
  BY ConstantsAssumption, EngineAssumption, EngineSoundInit, ClaimsSoundInit,
     OutcomesSoundInit, ContainmentInit
<1>2. Sound /\ Settled /\ [EngineNext]_engineVars => (Sound /\ Settled)'
  <2> SUFFICES ASSUME Sound, Settled, [EngineNext]_engineVars PROVE (Sound /\ Settled)'
    OBVIOUS
  <2>1. Sound'
    BY ConstantsAssumption, EngineAssumption, EngineSoundStep, ClaimsSoundStep, OutcomesSoundStep
  <2>2. Settled'
    BY ConstantsAssumption, EngineAssumption, ContainedStep, TransientStep DEF OutcomesSound
  <2>3. QED
    BY <2>1, <2>2
<1>3. Sound /\ Settled => ContainmentIsReleasable
  BY SoundIsReleasable
<1>4. QED
  BY <1>1, <1>2, <1>3, PTL DEF EngineSpec

===============================================================================
