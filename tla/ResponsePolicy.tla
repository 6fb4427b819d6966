---------------------------- MODULE ResponsePolicy ----------------------------
(***************************************************************************)
(* The deterministic response policy of the backend                        *)
(* (backend/src/porygon_api/response.py): which actions an operator may    *)
(* approve for an incident, and which one is recommended.                  *)
(*                                                                         *)
(* Severity and confidence are hundredths (0..100) of the scores in the    *)
(* code.  Of the incident's findings only the question "is one of the two  *)
(* strong rules POR-DET-005 / POR-DET-007 among them" matters here.        *)
(***************************************************************************)
EXTENDS Integers

Actions == {"observe_only", "pause_container", "stop_container"}

(* The actions that change Docker state. *)
Disruptive == Actions \ {"observe_only"}

Evidence == [severity : 0..100, confidence : 0..100, strong_rule : BOOLEAN]

ACTION_ORDER == [observe_only |-> 0, pause_container |-> 1, stop_container |-> 2]

(* RESPONSE_POLICY["decision_thresholds"] *)
PauseMinSeverity   == 70
PauseMinConfidence == 55
StopMinSeverity    == 90
StopMinConfidence  == 75

PauseAllowed(e) ==
  e.severity >= PauseMinSeverity /\ e.confidence >= PauseMinConfidence

StopAllowed(e) ==
  /\ e.severity >= StopMinSeverity
  /\ e.confidence >= StopMinConfidence
  /\ e.strong_rule

allowed_actions_for_incident(e, has_target) ==
  {"observe_only"}
    \union {a \in Disruptive :
              /\ has_target
              /\ a = "pause_container" => PauseAllowed(e)
              /\ a = "stop_container" => StopAllowed(e)}

(* max(allowed_actions, key=ACTION_ORDER) *)
recommended_action(allowed) ==
  CHOOSE a \in allowed : \A b \in allowed : ACTION_ORDER[b] <= ACTION_ORDER[a]

===============================================================================
