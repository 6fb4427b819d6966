-------------------------------- MODULE AiAudit --------------------------------
(****************************************************************************)
(* An AI audit of a container: the handler (main.py), the provider calls of *)
(* ai_auditor.py with Gemini's chain of models, and how an answer becomes a *)
(* report. Numbers of an answer are classes: below 0, in [0, 1], above 1,   *)
(* NaN, or no number at all.                                                *)
(****************************************************************************)
EXTENDS Naturals, Sequences, SequencesExt

CONSTANTS
  Models,      \* model names a request may select
  Fallbacks,   \* the models _call_gemini tries after the selected one
  Discovered   \* the model that ListModels names

ASSUME AiAuditAssumption == Fallbacks \in Seq(Models) /\ Discovered \in Models

VARIABLE audit

Providers == {"gemini", "openai", "anthropic"}
Numbers == {"below", "unit", "above", "nan", "text"}
Levels == {"clean", "low", "medium", "high", "critical"}

(* An answer that parses.                                                   *)
ProviderReplies == [risk : Numbers, level : Levels \union {"other"}, confidence : Numbers]

Reports == [risk : {"zero", "unit", "one"}, level : Levels, confidence : {"zero", "unit", "one"},
            model : Models]
NoReport == [model |-> "none"]

(* What came of a request to a provider: it does not know the model, it     *)
(* refused the key, the rate or the request, it was not reached, what it    *)
(* sent is no report, or it is.                                             *)
Outcomes == {"unknown", "refused", "unreachable", "malformed", "answered"}

(* todo: the models still to be tried; discovered: ListModels was asked;    *)
(* calls, a history: what came of the requests sent for this audit.         *)
AuditState ==
  [step : {"received", "calling", "done"}, provider : Providers, model : Models,
   todo : SeqOf(Models, Len(Fallbacks) + 1), discovered : BOOLEAN,
   calls : Seq(Outcomes), status : {0, 200, 400, 404, 500, 502}, report : Reports \union {NoReport}]

Request(provider, model) ==
  [step |-> "received", provider |-> provider, model |-> model, todo |-> <<>>,
   discovered |-> FALSE, calls |-> <<>>, status |-> 0, report |-> NoReport]
Requests == {Request(p, m) : p \in Providers, m \in Models}

AuditInit == audit \in Requests

Ends(status) == audit' = [audit EXCEPT !.step = "done", !.status = status]

(* No such container, no key, or a telemetry row the handler cannot read:   *)
(* a scored window, whose score_value does not exist.                       *)
Refuse ==
  /\ audit.step = "received"
  /\ \E status \in {404, 400, 500} : Ends(status)

Candidates ==
  IF audit.provider = "gemini"
  THEN <<audit.model>> \o SelectSeq(Fallbacks, LAMBDA m : m # audit.model)
  ELSE <<audit.model>>

Dispatch ==
  /\ audit.step = "received"
  /\ audit' = [audit EXCEPT !.step = "calling", !.todo = Candidates]

(* One request to the provider; a ValueError is answered 502, what nothing  *)
(* catches 500.                                                             *)
Calling == audit.step = "calling" /\ audit.todo # <<>>
Called(outcome) == [audit EXCEPT !.todo = Tail(@), !.calls = Append(@, outcome)]
EndsCalled(status, outcome) ==
  audit' = [Called(outcome) EXCEPT !.step = "done", !.status = status]

(* Mutant: the next model is tried after any HTTP error.                    *)
RefusalIsSkipped ==
  /\ Calling
  /\ audit' = Called("refused")

ProviderRefuses ==
  /\ Calling
  /\ EndsCalled(502, "refused")

(* Only Gemini's named models are skipped when they do not exist.           *)
ModelIsUnknown ==
  /\ Calling
  /\ IF audit.provider = "gemini" /\ ~audit.discovered THEN audit' = Called("unknown")
     ELSE EndsCalled(502, "unknown")

ProviderIsUnreachable ==
  /\ Calling
  /\ \E status \in {502, 500} : EndsCalled(status, "unreachable")

AnswerIsMalformed ==
  /\ Calling
  /\ \E status \in {502, 500} : EndsCalled(status, "malformed")

(* max(0.0, min(1.0, x)): NaN compares with nothing, min keeps its 1.0.     *)
Clamp(number) ==
  CASE number = "below" -> "zero"
    [] number = "unit" -> "unit"
    [] number \in {"above", "nan"} -> "one"

HalfOrMore == [zero |-> {FALSE}, unit |-> BOOLEAN, one |-> {TRUE}]

ThreatLevels(answer) ==
  IF answer.level \in Levels THEN {answer.level}
  ELSE {IF high THEN "medium" ELSE "low" : high \in HalfOrMore[Clamp(answer.risk)]}

(* The report names the model that was selected, whichever answered.        *)
Report(answer, level) ==
  [risk |-> Clamp(answer.risk), level |-> level, confidence |-> Clamp(answer.confidence),
   model |-> audit.model]

ProviderAnswers ==
  /\ Calling
  /\ \E answer \in ProviderReplies :
       IF "text" \in {answer.risk, answer.confidence} THEN EndsCalled(502, "malformed")
       ELSE \E level \in ThreatLevels(answer) :
              audit' = [Called("answered") EXCEPT !.step = "done", !.status = 200,
                                                  !.report = Report(answer, level)]

(* Every named model is unknown: ask for the list, which never fails.       *)
ListGeminiModels ==
  /\ audit.step = "calling" /\ audit.todo = <<>> /\ ~audit.discovered
  /\ \/ audit' = [audit EXCEPT !.todo = <<Discovered>>, !.discovered = TRUE]
     \/ Ends(502)

NextRequest ==
  /\ audit.step = "done"
  /\ audit' \in Requests

CallProvider ==
  \/ ProviderRefuses \/ ModelIsUnknown \/ ProviderIsUnreachable
  \/ AnswerIsMalformed \/ ProviderAnswers \/ ListGeminiModels

AuditNext == Refuse \/ Dispatch \/ CallProvider \/ NextRequest

AuditSpec == AuditInit /\ [][AuditNext]_audit

-------------------------------------------------------------------------------
(* Whatever a provider answers, an audit is in a state of its type: scores  *)
(* of a report lie in [0, 1], NaN included, and its level is a known one.   *)
AuditTypeOK == audit \in AuditState

(* A report is what the last request of the chain brought: an audit that    *)
(* failed anywhere on the way passes as none, and one that succeeded was    *)
(* answered. Nothing is asked after a refused key, a used up quota, an      *)
(* outage or an unreadable answer: the chain goes on only over models that  *)
(* do not exist, and only with Gemini.                                      *)
ReportIsTheLastAnswer ==
  LET calls == audit.calls
      last == Len(calls)
  IN /\ audit.status = 200 <=> last > 0 /\ calls[last] = "answered"
     /\ audit.status = 200 <=> audit.report # NoReport
     /\ \A k \in 1..last : k < last => calls[k] = "unknown"
     /\ last > 1 => audit.provider = "gemini"

===============================================================================
