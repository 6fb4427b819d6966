-------------------------------- MODULE Detection --------------------------------
(***************************************************************************)
(* Detection runs over scored windows, with the allowlists and custom      *)
(* rules an operator changes meanwhile: the tables detection_allowlists,   *)
(* custom_detection_rules, detection_runs and incidents and their handlers *)
(* in backend/src/porygon_api/main.py.                                     *)
(*                                                                         *)
(* A handler creates, disables or enables in one commit guarded by a       *)
(* unique index, so it is one action.  run_detection reads in five         *)
(* statements before it commits; each of them is a step.  The windows are  *)
(* of one image, whose profile exists.                                     *)
(***************************************************************************)
EXTENDS DetectionRules

CONSTANTS
  Allowlists,      (* rows the table may hold                                 *)
  MatcherOf,       (* [Allowlists -> [rule, executable, parent_executable]]   *)
  Expiring,        (* allowlists with an expires_at                           *)
  Late,            (* events ingested after the first request; others before *)
  Scores,
  ScoreOf,         (* [Scores -> [anomaly, from, until]]                      *)
  LongSlugs,       (* slugs whose rule id does not fit incident_evidence      *)
  Requests,        (* detection requests that may be open at one time         *)
  MaxUpgrades,     (* bound: changes of MATCHER_REVISION                      *)
  MaxChanges,      (* bound: allowlists and rules created and withdrawn       *)
  MaxRuns          (* bound: runs stored and requests open                    *)

Matcher ==
  [rule : BuiltInRules \union Slugs, executable : Paths \union ProgramNames,
   parent_executable : Paths \union {None}]

ASSUME DetectionAssumption ==
  /\ MatcherOf \in [Allowlists -> Matcher]
  /\ Scores # {}
  /\ ScoreOf \in [Scores -> [anomaly : (0..100) \union {None}, from : Nat, until : Nat]]
  /\ MaxUpgrades \in Nat

VARIABLES
  allowlists,      (* [Allowlists -> {"absent", "active", "inactive"}]        *)
  expired,         (* allowlists whose expires_at has passed                  *)
  customRules,     (* [CustomRules -> {"absent", "enabled", "disabled"}]      *)
  events,          (* [Events -> {"expected", "stored", "deleted"}]           *)
  revision,        (* MATCHER_REVISION of the running program                 *)
  runs,            (* detection_runs, each with its incident                  *)
  requests         (* [Requests -> Request]                                   *)

operatorVars == <<allowlists, expired, customRules>>
detectionVars == <<allowlists, expired, customRules, events, revision, runs, requests>>

Key == [score : Scores, revision : 0..MaxUpgrades, allowlists : SUBSET Allowlists,
        rules : SUBSET CustomRule]

Matches == [rule : BuiltInRules \union Slugs, source : Seq(Events), container : Hosts \union {None}]

(* "evidence" holds the events the run was computed from, "incident" the    *)
(* findings and the severity of its incident.                               *)
RunRow ==
  [key : Key, evidence : SUBSET Events, allowlists : SUBSET Allowlists,
   rules : SUBSET CustomRules,
   status : {"insufficient_data", "no_findings", "findings_only", "incident_created"},
   incident : [findings : SUBSET Matches, severity : 0..10000,
               confidence : 0..10000]]

Request ==
  [stage : {"closed", "rules", "processes", "runtime", "commit", "answered",
            "conflict", "unavailable"},
   score : Scores, allowlists : SUBSET Allowlists, rules : SUBSET CustomRules,
   processes : SUBSET Events, runtime : SUBSET Events, answer : SUBSET runs]

DetectionTypeOK ==
  /\ allowlists \in [Allowlists -> {"absent", "active", "inactive"}]
  /\ expired \subseteq Expiring
  /\ customRules \in [CustomRules -> {"absent", "enabled", "disabled"}]
  /\ events \in [Events -> {"expected", "stored", "deleted"}]
  /\ revision \in 0..MaxUpgrades
  /\ runs \subseteq RunRow
  /\ requests \in [Requests -> Request]
  /\ \A r, s \in CustomRules :
       (r # s /\ RuleOf[r].slug = RuleOf[s].slug)
         => ~(customRules[r] = "enabled" /\ customRules[s] = "enabled")

Closed ==
  [stage |-> "closed", score |-> CHOOSE s \in Scores : TRUE, allowlists |-> {}, rules |-> {},
   processes |-> {}, runtime |-> {}, answer |-> {}]

DetectionInit ==
  /\ allowlists = [a \in Allowlists |-> "absent"]
  /\ expired = {}
  /\ customRules = [r \in CustomRules |-> "absent"]
  /\ events = [e \in Events |-> IF e \in Late THEN "expected" ELSE "stored"]
  /\ revision = 0
  /\ runs = {}
  /\ requests = [q \in Requests |-> Closed]

-------------------------------------------------------------------------------
(* Operators: allowlists and custom rules. *)

ActiveMatcher(a) == {b \in Allowlists : allowlists[b] = "active" /\ MatcherOf[b] = MatcherOf[a]}

Spent == MapThenSumSet(LAMBDA a : IF allowlists[a] = "inactive" THEN 2 ELSE 1,
                       {a \in Allowlists : allowlists[a] # "absent"})
           + MapThenSumSet(LAMBDA r : IF customRules[r] = "disabled" THEN 2 ELSE 1,
                           {r \in CustomRules : customRules[r] # "absent"})
MayChange == Spent < MaxChanges

(* create_detection_allowlist: an expired row with the matcher is replaced, *)
(* one in force is the answer.                                              *)
CreateAllowlist(a) ==
  /\ allowlists[a] = "absent" /\ a \notin expired /\ MayChange
  /\ ActiveMatcher(a) \subseteq expired
  /\ allowlists' = [b \in Allowlists |-> IF b = a THEN "active"
                                         ELSE IF b \in ActiveMatcher(a) THEN "inactive"
                                         ELSE allowlists[b]]
  /\ UNCHANGED <<expired, customRules>>

DeactivateAllowlist(a) ==
  /\ allowlists[a] = "active" /\ MayChange
  /\ allowlists' = [allowlists EXCEPT ![a] = "inactive"]
  /\ UNCHANGED <<expired, customRules>>

(* Time reaches expires_at: of an allowlist in force, no other matters.     *)
AllowlistExpires(a) ==
  /\ a \in Expiring \ expired /\ allowlists[a] = "active"
  /\ expired' = expired \union {a}
  /\ UNCHANGED <<allowlists, customRules>>

(* The partial unique index of slugs, and the check before it.              *)
SlugFree(r) ==
  \A s \in CustomRules \ {r} : customRules[s] = "enabled" => RuleOf[s].slug # RuleOf[r].slug

(* create_custom_detection_rule and enable_custom_detection_rule *)
CreateOrEnableRule(r) ==
  /\ customRules[r] # "enabled" /\ SlugFree(r)
  /\ customRules[r] = "disabled" \/ MayChange
  /\ customRules' = [customRules EXCEPT ![r] = "enabled"]
  /\ UNCHANGED <<allowlists, expired>>

DisableRule(r) ==
  /\ customRules[r] = "enabled" /\ MayChange
  /\ customRules' = [customRules EXCEPT ![r] = "disabled"]
  /\ UNCHANGED <<allowlists, expired>>

Operate ==
  /\ \/ \E a \in Allowlists : \/ CreateAllowlist(a)
                              \/ DeactivateAllowlist(a)
                              \/ AllowlistExpires(a)
     \/ \E r \in CustomRules : CreateOrEnableRule(r) \/ DisableRule(r)
  /\ UNCHANGED <<events, revision, runs, requests>>

-------------------------------------------------------------------------------
(* run_detection *)

InWindow(e, s) == ScoreOf[s].from <= EventOf[e].at /\ EventOf[e].at < ScoreOf[s].until
Stored(s) == {e \in Events : events[e] = "stored" /\ InWindow(e, s)}

InForce == {a \in Allowlists : allowlists[a] = "active" /\ a \notin expired}
Enabled == {r \in CustomRules : customRules[r] = "enabled"}

(* Mutant: the run key leaves the custom rules out.                         *)
KeyOfAllowlists(req) ==
  [score |-> req.score, revision |-> revision, allowlists |-> req.allowlists, rules |-> {}]

(* build_detection_run_key: allowlists by their ids, rules by content.      *)
RunKey(req) ==
  [score |-> req.score, revision |-> revision, allowlists |-> req.allowlists,
   rules |-> {RuleOf[r] : r \in req.rules}]

WithKey(k) == {r \in runs : r.key = k}

(* uq_detection_runs_score_ruleset_allowlists does not cover the revision.  *)
SameInputs(k) == {r \in runs : [r.key EXCEPT !.revision = k.revision] = k}

Step(q, req) ==
  /\ requests' = [requests EXCEPT ![q] = req]
  /\ UNCHANGED <<operatorVars, events, revision>>

RequestDetection(q, s) ==
  /\ requests[q].stage = "closed"
  /\ Cardinality(runs) + Cardinality({p \in Requests : requests[p].stage # "closed"}) < MaxRuns
  /\ Step(q, [Closed EXCEPT !.stage = "rules", !.score = s, !.allowlists = InForce])
  /\ UNCHANGED runs

(* What the handler still needs of what it read. *)
Answered(req, found) ==
  [req EXCEPT !.stage = "answered", !.processes = {}, !.runtime = {}, !.answer = found]
Refused(how) == [Closed EXCEPT !.stage = how]

(* The rules and, by the key they complete, the run.  A run stored between  *)
(* the two statements would be found by the commit.                         *)
SelectRules(q) ==
  LET req == [requests[q] EXCEPT !.rules = Enabled]
      found == WithKey(RunKey(req)) IN
  /\ requests[q].stage = "rules"
  /\ Step(q, IF found # {} THEN Answered(req, found) ELSE [req EXCEPT !.stage = "processes"])
  /\ UNCHANGED runs

SelectProcesses(q) ==
  /\ requests[q].stage = "processes"
  /\ Step(q, [requests[q] EXCEPT !.stage = "runtime",
                                 !.processes = Processes(Stored(requests[q].score))])
  /\ UNCHANGED runs

SelectRuntime(q) ==
  /\ requests[q].stage = "runtime"
  /\ Step(q, [requests[q] EXCEPT !.stage = "commit",
                                 !.runtime = Runtime(Stored(requests[q].score))])
  /\ UNCHANGED runs

Evaluated(s, E, A, R) ==
  evaluate_detection(ScoreOf[s].anomaly, E, {MatcherOf[a] : a \in A}, R)

(* The run of a request, with its incident, from what evaluation says.      *)
NewRun(req, result) ==
  [key |-> RunKey(req), evidence |-> req.processes \union req.runtime,
   allowlists |-> req.allowlists, rules |-> req.rules, status |-> result.status,
   incident |-> IF result.status = "incident_created"
                THEN [findings |-> result.matches, severity |-> result.severity,
                      confidence |-> result.confidence]
                ELSE [findings |-> {}, severity |-> 0, confidence |-> 0]]

(* The run, its incident and the evidence of the incident are one commit.   *)
CommitRun(q) ==
  /\ requests[q].stage = "commit"
  /\ \E req \in {requests[q]}, k \in {RunKey(requests[q])} :
     \E run \in {NewRun(req, Evaluated(req.score, req.processes \union req.runtime,
                                       req.allowlists, req.rules))} :
       \/ /\ SameInputs(k) = {}
          /\ \A m \in run.incident.findings : m.rule \notin LongSlugs
          /\ runs' = runs \union {run}
          /\ Step(q, Answered(req, {run}))
       \/ /\ \/ SameInputs(k) # {}
             \/ \E m \in run.incident.findings : m.rule \in LongSlugs
          /\ Step(q, IF SameInputs(k) = {} THEN Refused("unavailable")
                     ELSE IF WithKey(k) = {} THEN Refused("conflict")
                     ELSE Answered(req, WithKey(k)))
          /\ UNCHANGED runs

Close(q) ==
  /\ requests[q].stage \in {"answered", "conflict", "unavailable"}
  /\ Step(q, Closed)
  /\ UNCHANGED runs

-------------------------------------------------------------------------------
(* Around the handlers. *)

EventArrives(e) ==
  /\ events[e] = "expected"
  /\ events' = [events EXCEPT ![e] = "stored"]
  /\ UNCHANGED <<operatorVars, revision, runs, requests>>

(* Retention deletes what is older than a cutoff; its batches are in        *)
(* Ingestion.                                                               *)
Retain(e) ==
  /\ events[e] = "stored"
  /\ events' = [d \in Events |-> IF events[d] = "stored" /\ EventOf[d].at <= EventOf[e].at
                                 THEN "deleted" ELSE events[d]]
  /\ UNCHANGED <<operatorVars, revision, runs, requests>>

(* A restart drops the open requests; it may bring a new MATCHER_REVISION.  *)
Restart ==
  /\ revision' \in {revision} \union {n \in {revision + 1} : n <= MaxUpgrades}
  /\ requests' = [q \in Requests |-> Closed]
  /\ UNCHANGED <<operatorVars, events, runs>>

DetectionNext ==
  \/ Operate
  \/ \E q \in Requests :
       \/ \E s \in Scores : RequestDetection(q, s)
       \/ SelectRules(q)
       \/ SelectProcesses(q)
       \/ SelectRuntime(q)
       \/ CommitRun(q)
       \/ Close(q)
  \/ \E e \in Events : EventArrives(e) \/ Retain(e)
  \/ Restart

DetectionSpec == DetectionInit /\ [][DetectionNext]_detectionVars

-------------------------------------------------------------------------------
(* Properties. *)

(* Two requests for the same score, allowlists, rules and revision never    *)
(* leave two runs, hence never two incidents; and whichever request         *)
(* computed it, the run a request is answered with was computed for its     *)
(* score from the allowlists and the rules the request read, rules of equal *)
(* content counting as equal.  (main.py, run_detection.)                    *)
AnswerIsForTheseRules ==
  /\ \A r, s \in runs : r.key = s.key => r = s
  /\ \A q \in Requests : \A run \in requests[q].answer :
       /\ run.key.score = requests[q].score
       /\ run.allowlists = requests[q].allowlists
       /\ {RuleOf[r] : r \in run.rules} = {RuleOf[r] : r \in requests[q].rules}

(* Allowlisting takes findings away and adds none, and an incident raised   *)
(* with allowlists is neither more severe nor more certain than without.    *)
(* An allowlist that exempts a part of a sequence exempts the sequence: who *)
(* reports one also reports its shell.  (detection.py, _apply_allowlists.)  *)
AllowlistsOnlyCalm ==
  \A run \in {r \in runs : r.allowlists # {}} :
    LET findings == run.incident.findings IN
    \A without \in {Evaluated(run.key.score, run.evidence, {}, run.rules)} :
      /\ findings \subseteq without.matches
      /\ run.incident.severity <= without.severity
      /\ run.incident.confidence <= without.confidence
      /\ \A m \in findings : m.rule = "POR-DET-005" =>
           \E d \in findings : d.rule = "POR-DET-002" /\ d.source[1] = m.source[1]

===============================================================================
