---------------------------- MODULE ResponseEngine ----------------------------
(***************************************************************************)
(* The response engine with its responders: the backend of ResponseApi,    *)
(* the claim-execute-complete loop of responder/src/porygon_responder/     *)
(* main.py, the Docker calls of executor.py, and the containers they act   *)
(* on.                                                                     *)
(*                                                                         *)
(* A responder handles one claim at a time: inspect the container and      *)
(* guard, call Docker, inspect again and verify, report.  Containers may   *)
(* change between these steps.  Its HTTP client waits 15 seconds for the   *)
(* answer to a report and then goes on; the report may still be handled    *)
(* later.  The loop has no memory: a responder that restarts claims anew   *)
(* under the same executor_instance_id.                                    *)
(***************************************************************************)
EXTENDS ResponseApi

CONSTANTS
  Containers,      (* full container ids                                      *)
  Protected,       (* those labelled com.porygon.protected                    *)
  OutsideActors,   (* those somebody else also starts, stops, pauses, removes *)
  DelayedReports,  (* may a responder stop waiting for an unanswered report?  *)
  MaxFaults        (* bound on crashes, losses, timeouts, Docker errors       *)

ASSUME EngineAssumption ==
  /\ \A r \in Recommendations : TargetOf[r] \in Containers \union {NoTarget}
  /\ Protected \subseteq Containers
  /\ OutsideActors \subseteq Containers
  /\ DelayedReports \in BOOLEAN
  /\ MaxFaults \in Nat
  /\ ReportedCodes = ErrorCodes

VARIABLES
  responders,  (* [Executors -> where the responder is in its loop]           *)
  containers,  (* [Containers -> Docker state]                                *)
  reports,     (* completion requests on their way to the backend             *)
  faults       (* number of faults so far                                     *)

VARIABLES      (* history, read by no action                                  *)
  crossed,     (* claimed while an attempt at the other operation was still   *)
               (* under way                                                   *)
  overtaken    (* completed by a handler that read another error_code than    *)
               (* the row had by then; both last until the next claim         *)

local == <<responders, containers, reports, faults>>
history == <<crossed, overtaken>>
engineVars == <<vars, local, history>>

ContainerState == {"running", "paused", "stopped", "removed"}

Resting == [phase |-> "idle"]
Responder ==
  {Resting}
    \union [phase : {"claimed", "reporting"}, claim : Claim]
    \union [phase : {"inspected"}, claim : Claim, seen : ContainerState]
    \union [phase : {"called"}, claim : Claim]
    \union [phase : {"done"}, claim : Claim, outcome : {NoError} \union ErrorCodes]

Report == [claim : Claim, outcome : {NoError} \union ErrorCodes]

EngineTypeOK ==
  /\ TypeOK
  /\ responders \in [Executors -> Responder]
  /\ containers \in [Containers -> ContainerState]
  /\ reports \subseteq Report
  /\ faults \in 0..MaxFaults
  /\ crossed \subseteq Recommendations
  /\ overtaken \subseteq Recommendations

EngineInit ==
  /\ Init
  /\ responders = [x \in Executors |-> Resting]
  /\ containers = [c \in Containers |-> "running"]
  /\ reports = {}
  /\ faults = 0
  /\ crossed = {}
  /\ overtaken = {}

Fault == faults < MaxFaults /\ faults' = faults + 1

Goto(x, s) == responders' = [responders EXCEPT ![x] = s]
Done(claim, outcome) == [phase |-> "done", claim |-> claim, outcome |-> outcome]

ActionOf(claim) == execs[claim.rec].action_type
Target(claim) == TargetOf[claim.rec]

(* Docker's State.Running is true of a paused container.                    *)
Running(state) == state \in {"running", "paused"}

-------------------------------------------------------------------------------
(* response_loop and DockerResponseExecutor. *)

(* An attempt is under way until its report was handled or is lost.         *)
Busy == {"claimed", "inspected", "called", "done"}
RowOperation(row) == IF row.status = "claimed" THEN "execute" ELSE "rollback"

UnderWay(r, operations) ==
  \/ \E x \in Executors :
       /\ responders[x].phase \in Busy
       /\ responders[x].claim.rec = r /\ responders[x].claim.operation \in operations
  \/ \E m \in reports : m.claim.rec = r /\ m.claim.operation \in operations
  \/ \E w \in Workers :
       /\ txns[w].op = "complete"
       /\ txns[w].rec = r /\ RowOperation(txns[w].seen) \in operations

(* The claim of r is handed out beside an attempt at the other operation,   *)
(* or beside what such a claim has left behind.                             *)
Crosses(r) ==
  \/ UnderWay(r, Operations \ {OperationOn(r)})
  \/ r \in crossed /\ UnderWay(r, Operations)

ResponderClaims(x, r) ==
  /\ responders[x] = Resting
  /\ ClaimExecution(x, r)
  /\ \E claim \in claims' \ claims :
       Goto(x, [phase |-> "claimed", claim |-> claim])
  /\ crossed' = IF Crosses(r) THEN crossed \union {r} ELSE crossed \ {r}
  /\ overtaken' = overtaken \ {r}
  /\ UNCHANGED <<containers, reports, faults>>

ResponderFindsNothing(x) ==
  /\ responders[x] = Resting
  /\ ClaimNothing
  /\ UNCHANGED <<local, history>>

(* execute, up to the first Docker inspection: _exact_container, _guard and *)
(* the preconditions of _apply.                                             *)
Inspection(claim, state) ==
  IF ActionOf(claim) = "observe_only" THEN Done(claim, NoError)
  ELSE IF ~HasTarget(claim.rec) THEN Done(claim, "missing_target")
  ELSE IF state = "removed" THEN Done(claim, "container_not_found")
  ELSE IF Target(claim) \in Protected THEN Done(claim, "protected_target")
  ELSE IF /\ ActionOf(claim) = "pause_container" /\ claim.operation = "execute"
          /\ ~Running(state)
       THEN Done(claim, "invalid_request")
  ELSE [phase |-> "inspected", claim |-> claim, seen |-> state]

Inspect(x) ==
  LET claim == responders[x].claim IN
  /\ responders[x].phase = "claimed"
  /\ Goto(x, Inspection(claim, IF HasTarget(claim.rec) THEN containers[Target(claim)] ELSE "none"))
  /\ UNCHANGED <<vars, containers, reports, faults, history>>

(* The Docker command _apply and _rollback choose from the state seen; an   *)
(* action that is already in effect is no command at all.                   *)
Command(action, operation, seen) ==
  CASE action = "pause_container" /\ operation = "execute"
         -> IF seen = "paused" THEN "none" ELSE "pause"
    [] action = "pause_container" /\ operation = "rollback"
         -> IF seen = "paused" THEN "unpause" ELSE "none"
    [] action = "stop_container" /\ operation = "execute"
         -> IF Running(seen) THEN "stop" ELSE "none"
    [] OTHER -> IF Running(seen) THEN "none" ELSE "start"

(* Docker: the states a command is accepted in and the state it leads to.   *)
Accepted(command, state) ==
  CASE command = "pause"   -> state = "running"
    [] command = "unpause" -> state = "paused"
    [] command = "stop"    -> state # "removed"
    [] command = "start"   -> state \in {"running", "stopped"}
    [] OTHER -> TRUE

After(command, state) ==
  CASE command = "pause"              -> "paused"
    [] command \in {"unpause", "start"} -> "running"
    [] command = "stop"               -> "stopped"
    [] OTHER -> state

CommandOf(x) ==
  Command(ActionOf(responders[x].claim), responders[x].claim.operation, responders[x].seen)

(* The command is carried out in the state the container is in by now.      *)
CallDocker(x) ==
  LET claim == responders[x].claim
      c == Target(claim)
      command == CommandOf(x)
  IN
  /\ responders[x].phase = "inspected"
  /\ \/ /\ Accepted(command, containers[c])
        /\ containers' = [containers EXCEPT ![c] = After(command, @)]
        /\ Goto(x, [phase |-> "called", claim |-> claim])
     \/ /\ ~Accepted(command, containers[c])
        /\ Goto(x, Done(claim, IF containers[c] = "removed" THEN "container_not_found"
                               ELSE "docker_api_error"))
        /\ UNCHANGED containers
  /\ UNCHANGED <<vars, reports, faults, history>>

(* The call reaches Docker but its answer does not come in time: the HTTP   *)
(* timeout is no DockerException, so response_loop reports it.              *)
DockerAnswerLost(x) ==
  LET c == Target(responders[x].claim) IN
  /\ responders[x].phase = "inspected"
  /\ CommandOf(x) # "none"
  /\ Accepted(CommandOf(x), containers[c])
  /\ Fault
  /\ containers' = [containers EXCEPT ![c] = After(CommandOf(x), @)]
  /\ Goto(x, Done(responders[x].claim, "executor_internal_error"))
  /\ UNCHANGED <<vars, reports, history>>

(* Mutant: a Docker error ends the attempt as a success.                    *)
DockerErrorSwallowed(x) ==
  /\ responders[x].phase \in {"claimed", "inspected", "called"}
  /\ ActionOf(responders[x].claim) \in Disruptive
  /\ Fault
  /\ Goto(x, Done(responders[x].claim, NoError))
  /\ UNCHANGED <<vars, containers, reports, history>>

(* A Docker request fails without effect, at any point of the attempt.      *)
DockerFails(x) ==
  /\ responders[x].phase \in {"claimed", "inspected", "called"}
  /\ ActionOf(responders[x].claim) \in Disruptive
  /\ Fault
  /\ \E code \in {"docker_api_error", "docker_unavailable"} :
       Goto(x, Done(responders[x].claim, code))
  /\ UNCHANGED <<vars, containers, reports, history>>

(* What _verify expects of the state after the call.                        *)
Expected(action, operation, state) ==
  CASE action = "pause_container" /\ operation = "execute"  -> state = "paused"
    [] action = "pause_container" /\ operation = "rollback" -> state = "running"
    [] action = "stop_container" /\ operation = "execute"   -> ~Running(state)
    [] OTHER -> Running(state)

Verdict(claim, state) ==
  IF state = "removed" THEN "container_not_found"
  ELSE IF Expected(ActionOf(claim), claim.operation, state) THEN NoError
  ELSE "docker_api_error"

Verify(x) ==
  LET claim == responders[x].claim IN
  /\ responders[x].phase = "called"
  /\ Goto(x, Done(claim, Verdict(claim, containers[Target(claim)])))
  /\ UNCHANGED <<vars, containers, reports, faults, history>>

SendReport(x) ==
  LET s == responders[x] IN
  /\ s.phase = "done"
  /\ reports' = reports \union {[claim |-> s.claim, outcome |-> s.outcome]}
  /\ Goto(x, [phase |-> "reporting", claim |-> s.claim])
  /\ UNCHANGED <<vars, containers, faults, history>>

(* The backend takes up a report: to complete the execution or, if it does  *)
(* not accept it, to answer without a change.                               *)
ReportRead(w, m) ==
  /\ m \in reports
  /\ reports' = reports \ {m}
  /\ CompleteRead(w, m.claim, m.outcome)
  /\ UNCHANGED <<responders, containers, faults, history>>

Acceptable(claim) ==
  execs[claim.rec].status \in Claimed /\ execs[claim.rec].executor = claim.executor

ReportIgnored(m) ==
  /\ m \in reports
  /\ ~Acceptable(m.claim)
  /\ reports' = reports \ {m}
  /\ DropClaim(m.claim)
  /\ UNCHANGED <<responders, containers, faults, history>>

ReportLost(m) ==
  /\ m \in reports
  /\ Fault
  /\ reports' = reports \ {m}
  /\ DropClaim(m.claim)
  /\ UNCHANGED <<responders, containers, history>>

(* A report the responder may still be waiting for.                         *)
Unanswered(claim) ==
  \/ \E m \in reports : m.claim = claim
  \/ \E w \in Workers : txns[w].op = "complete" /\ txns[w].rec = claim.rec

(* The answer, or the error that takes its place, ends the iteration.       *)
Answered(x) ==
  /\ responders[x].phase = "reporting"
  /\ ~Unanswered(responders[x].claim)
  /\ Goto(x, Resting)
  /\ UNCHANGED <<vars, containers, reports, faults, history>>

(* httpx.TimeoutException after 15 seconds.                                 *)
AnswerTimesOut(x) ==
  /\ DelayedReports
  /\ responders[x].phase = "reporting"
  /\ Unanswered(responders[x].claim)
  /\ Fault
  /\ Goto(x, Resting)
  /\ UNCHANGED <<vars, containers, reports, history>>

(* The responder restarts, or never received the answer to its claim.  A    *)
(* report already sent is not taken back.                                   *)
Crash(x) ==
  /\ responders[x].phase \in {"claimed", "inspected", "called", "done"}
  /\ Fault
  /\ Goto(x, Resting)
  /\ DropClaim(responders[x].claim)
  /\ UNCHANGED <<containers, reports, history>>

-------------------------------------------------------------------------------
(* The environment. *)

OutsideChange(c, state) ==
  /\ containers[c] \notin {"removed", state}
  /\ containers' = [containers EXCEPT ![c] = state]
  /\ UNCHANGED <<vars, responders, reports, faults, history>>

BackendRestarts(m) ==
  /\ Fault
  /\ RestartBackend(m)
  /\ UNCHANGED <<responders, containers, reports, history>>

BackendRequest(w) == OperatorRequest(w) /\ UNCHANGED <<local, history>>

BackendCommit(w) ==
  /\ Commit(w)
  /\ overtaken' = overtaken \union
       {r \in Recommendations :
          /\ txns[w].op = "complete" /\ txns[w].rec = r
          /\ execs[r].error_code # txns[w].seen.error_code}
  /\ UNCHANGED <<local, crossed>>

BackendStep(w) == BackendRequest(w) \/ BackendCommit(w)

TimePasses == Passing /\ UNCHANGED <<local, history>>

Attempt(x) ==
  \/ Inspect(x) \/ CallDocker(x) \/ Verify(x) \/ SendReport(x) \/ Answered(x)

Failure(x) ==
  DockerAnswerLost(x) \/ DockerFails(x) \/ AnswerTimesOut(x) \/ Crash(x)

EngineNext ==
  \/ \E w \in Workers : BackendStep(w) \/ \E m \in reports : ReportRead(w, m)
  \/ \E x \in Executors :
       \/ \E r \in Recommendations : ResponderClaims(x, r)
       \/ ResponderFindsNothing(x)
       \/ Attempt(x)
       \/ Failure(x)
  \/ \E m \in reports : ReportIgnored(m) \/ ReportLost(m)
  \/ \E c \in OutsideActors, state \in ContainerState : OutsideChange(c, state)
  \/ \E m \in {"disabled", "live"} : BackendRestarts(m)
  \/ TimePasses

EngineSpec == EngineInit /\ [][EngineNext]_engineVars

-------------------------------------------------------------------------------
(* Safety. *)

(* Every change a responder makes to a container is covered, whatever       *)
(* others did to the container since it was inspected: it is unprotected    *)
(* ("Porygon-protected containers are never modified"), the change is what  *)
(* was approved for exactly this container, and it is only undone after a   *)
(* rollback was requested for it.                                           *)
OnlyApprovedEffects ==
  [][\A c \in Containers :
       responders' # responders /\ containers'[c] # containers[c] =>
         /\ c \notin Protected
         /\ \E r \in Recommendations :
              /\ TargetOf[r] = c
              /\ "recommendation_approved" \in audit[r]
              /\ CASE containers'[c] = "paused"  -> execs[r].action_type = "pause_container"
                   [] containers'[c] = "stopped" -> execs[r].action_type = "stop_container"
                   [] OTHER -> "rollback_requested" \in audit[r]]_engineVars

(* The only recommendation that acts on its container.                      *)
Sole(r) ==
  /\ HasTarget(r)
  /\ TargetOf[r] \notin OutsideActors
  /\ \A q \in Recommendations \ {r} : TargetOf[q] # TargetOf[r]

(* What the tables say of the action on r and of its rollback is so.        *)
OutcomeIsTrue(r) ==
  Sole(r) /\ execs[r].action_type \in Disruptive =>
    /\ execs[r].status = "succeeded" =>
         Expected(execs[r].action_type, "execute", containers[TargetOf[r]])
    /\ execs[r].status = "rolled_back" =>
         Expected(execs[r].action_type, "rollback", containers[TargetOf[r]])

(* "Immediate Docker state verification", "verified rollback"               *)
(* (FINAL_PHASES.md): an action recorded as succeeded is in effect, and one *)
(* recorded as rolled back is undone.  The code does not keep this: a late  *)
(* report completes whatever its executor has claimed meanwhile.            *)
RecordedOutcomeIsTrue == \A r \in Recommendations : OutcomeIsTrue(r)

(* What does hold, for any number of handlers and responders, with reports  *)
(* handled at any time and leases that run out inside a Docker call: it is  *)
(* so unless the newest claim was handed out while an attempt at the other  *)
(* operation was still under way; the next claim sets the record right.     *)
UncrossedOutcomeIsTrue == \A r \in Recommendations \ crossed : OutcomeIsTrue(r)

(* A container the engine paused or stopped can be brought back: its        *)
(* execution is in progress, may be rolled back, or failed in a way the     *)
(* operator may retry.  It is not stranded behind a final status, unless    *)
(* operations crossed, or a retry cleared the error code of the attempt     *)
(* before between the reading and the writing of the next completion.       *)
ContainmentIsReleasable ==
  \A r \in Recommendations \ (crossed \union overtaken) :
    Sole(r) /\ containers[TargetOf[r]] \in {"paused", "stopped"} =>
      \/ execs[r].status \in Queued \union Claimed \union {"succeeded"}
      \/ /\ execs[r].status \in {"failed", "rollback_failed"}
         /\ execs[r].error_code \in RetryableCodes

-------------------------------------------------------------------------------
(* Progress. *)

(* Responders poll for ever, handlers finish, leases run out.  A report     *)
(* waits in the queue of the backend's thread pool, so it is taken up       *)
(* although operator requests keep occupying the workers (strong fairness). *)
(* Operators and the environment owe nothing.                               *)
Fairness ==
  /\ \A x \in Executors :
       /\ WF_engineVars(\E r \in Recommendations : ResponderClaims(x, r))
       /\ WF_engineVars(Attempt(x))
  /\ \A w \in Workers : WF_engineVars(BackendCommit(w))
  /\ SF_engineVars(\E w \in Workers, m \in reports : ReportRead(w, m))
  /\ WF_engineVars(\E m \in reports : ReportIgnored(m))
  /\ \A r \in Recommendations : WF_engineVars(LeaseExpires(r) /\ UNCHANGED <<local, history>>)

FairEngineSpec == EngineSpec /\ Fairness

(* "Leased execution queue and abandoned-claim recovery" (FINAL_PHASES.md): *)
(* whatever crashes and losses do, an approved action reaches a recorded    *)
(* outcome as long as the backend stays in live mode, and a requested       *)
(* rollback does in any mode.                                               *)
ApprovedActionIsDecided ==
  \A r \in Recommendations :
    <>[](mode = "live") => (execs[r].status = "pending" ~> execs[r].status \in Terminal)

RequestedRollbackIsDecided ==
  \A r \in Recommendations :
    execs[r].status = "rollback_pending" ~> execs[r].status \in {"rolled_back", "rollback_failed"}

===============================================================================
