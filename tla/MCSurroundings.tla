---------------------------- MODULE MCSurroundings ----------------------------
(* The parts around the core, none of which reads another's state, checked  *)
(* in one run: part says which of them moves; the others stay as they are   *)
(* initially.                                                               *)
EXTENDS Poller, Credentials, Heartbeats, IncidentAlerts, AiAudit, ImageReport, DeadLetters

CONSTANTS t1, t2, p1, p2, m1, m2, m3, c1, c2, g1

VARIABLE part

allVars == <<part, pollerVars, credentialVars, beatVars, alertVars, audit, reportVars, letterVars>>

Parts == {"poller", "credentials", "heartbeats", "alerts", "audit", "report", "letters"}

FallbackModels == <<m1, m2>>
OnePackage == [c \in ReportCves |-> g1]

(* The components that choose between initial states choose only when they  *)
(* are the part that moves.                                                 *)
MCInit ==
  /\ part \in Parts
  /\ PollerInit /\ HeartbeatsInit /\ AlertsInit
  /\ CredentialsInit /\ (part # "credentials" => legacy = NoToken)
  /\ AuditInit /\ (part # "audit" => audit = Request("openai", m1))
  /\ ReportInit /\ (part # "report" => intelRow = [c \in ReportCves |-> NoIntel])
  /\ LettersInit /\ (part # "letters" => letters = {})

Rest(p) ==
  /\ p # "poller" => UNCHANGED pollerVars
  /\ p # "credentials" => UNCHANGED credentialVars
  /\ p # "heartbeats" => UNCHANGED beatVars
  /\ p # "alerts" => UNCHANGED alertVars
  /\ p # "audit" => UNCHANGED audit
  /\ p # "report" => UNCHANGED reportVars
  /\ p # "letters" => UNCHANGED letterVars

MCNext ==
  /\ UNCHANGED part
  /\ \/ part = "poller" /\ PollerNext /\ Rest("poller")
     \/ part = "credentials" /\ CredentialsNext /\ Rest("credentials")
     \/ part = "heartbeats" /\ HeartbeatsNext /\ Rest("heartbeats")
     \/ part = "alerts" /\ AlertsNext /\ Rest("alerts")
     \/ part = "audit" /\ AuditNext /\ Rest("audit")
     \/ part = "report" /\ ReportNext /\ Rest("report")
     \/ part = "letters" /\ LettersNext /\ Rest("letters")

(* The loop of every task goes on. *)
Fairness == \A t \in Tasks : WF_allVars(part = "poller" /\ TaskStep(t) /\ Rest("poller") /\ UNCHANGED part)

MCSpec == MCInit /\ [][MCNext]_allVars /\ Fairness
===============================================================================
