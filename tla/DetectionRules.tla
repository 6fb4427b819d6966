----------------------------- MODULE DetectionRules -----------------------------
(***************************************************************************)
(* What the events of a scored window say: the built-in and custom rules,  *)
(* the allowlists and the severity of                                      *)
(* backend/src/porygon_api/detection.py.                                   *)
(*                                                                         *)
(* Weights and scores are percents.                                        *)
(***************************************************************************)
EXTENDS Conditions, FiniteSets, FiniteSetsExt, Folds

CONSTANTS
  Events,          (* the events of the windows                               *)
  EventOf,         (* [Events -> ExecEvents \union DockerEvents]              *)
  Ids,             (* [Events -> Nat]: the order of event_id                  *)
  Slugs,           (* slugs of custom rules                                   *)
  RuleOrder,       (* [BuiltInRules \union Slugs -> Nat]: the order of rule_id *)
  Trees,           (* conditions of custom rules                              *)
  Paths, BaseName, (* executables and [Paths -> program names]                *)
  ProgramNames, Hosts, None,
  Shells, Multicall,                   (* program names                       *)
  KnownPaths, KnownNames, KnownUids,   (* the baseline's observed_sets        *)
  CustomRules,     (* rows the table may hold                                 *)
  RuleOf,          (* [CustomRules -> CustomRule]                             *)
  POR_DET_004_MATCH_CAP, CORRELATION_WINDOW, CUSTOM_ANCESTOR_MAX_DEPTH

ExecEvents ==
  [kind : {"process"}, at : Nat, container : Hosts \union {None},
   executable : Paths, name : ProgramNames, applet : ProgramNames \union {None},
   parent_executable : Paths \union {None}, parent : Events \union {None}, uid : Nat]
DockerEvents ==
  [kind : {"runtime"}, at : Nat, container : Hosts \union {None},
   action : {"create", "start", "exec_start", "die"}, privileged : BOOLEAN]

(* raises: the events on which evaluating the rule raises, all of them for  *)
(* a row that lacks a key.                                                  *)
CustomRule ==
  [slug : Slugs, target : {"process", "runtime"}, condition : Trees, severity : 0..100,
   confidence : 0..100, incident_eligible : BOOLEAN, raises : SUBSET Events]

BuiltInRules ==
  {"POR-DET-001", "POR-DET-002", "POR-DET-003", "POR-DET-004", "POR-DET-005", "POR-DET-006",
   "POR-DET-007"}

(* Event ids are unique; the rule id of a custom rule is "POR-CUS-" and its *)
(* slug.                                                                    *)
ASSUME RulesAssumption ==
  /\ IsFiniteSet(Events) /\ IsFiniteSet(CustomRules)
  /\ EventOf \in [Events -> ExecEvents \union DockerEvents]
  /\ RuleOf \in [CustomRules -> CustomRule]
  /\ BaseName \in [Paths -> ProgramNames]
  /\ Slugs \intersect BuiltInRules = {}
  /\ Ids \in [Events -> Nat]
  /\ \A d, e \in Events : Ids[d] = Ids[e] => d = e
  /\ RuleOrder \in [BuiltInRules \union Slugs -> Nat]
  /\ \A p, q \in BuiltInRules \union Slugs : RuleOrder[p] = RuleOrder[q] => p = q

Processes(E) == {e \in E : EventOf[e].kind = "process"}
Runtime(E) == E \ Processes(E)

Precedes(d, e) ==
  \/ EventOf[d].at < EventOf[e].at
  \/ EventOf[d].at = EventOf[e].at /\ Ids[d] < Ids[e]

-------------------------------------------------------------------------------
(* The identity of a process. *)

(* busybox and toybox run as the applet their command line names.           *)
Resolved(e) ==
  IF EventOf[e].name \notin Multicall THEN EventOf[e].name
  ELSE IF EventOf[e].applet # None THEN EventOf[e].applet
  ELSE EventOf[e].name

IsMulticall(e) == BaseName[EventOf[e].executable] \in Multicall

Basename(e) == IF IsMulticall(e) THEN Resolved(e) ELSE BaseName[EventOf[e].executable]
Executable(e) == IF IsMulticall(e) THEN Resolved(e) ELSE EventOf[e].executable

(* _process_identity_seen *)
Seen(e) ==
  IF IsMulticall(e) THEN Resolved(e) \in KnownNames
  ELSE EventOf[e].executable \in KnownPaths \/ EventOf[e].name \in KnownNames

UnseenShells(E) == {e \in Processes(E) : Basename(e) \in Shells /\ ~Seen(e)}
UnseenTools(E) == {e \in Processes(E) : Basename(e) \notin Shells /\ ~Seen(e)}

-------------------------------------------------------------------------------
(* Custom rules. *)

(* _ancestor_chain: the parents of e within E, at most                      *)
(* CUSTOM_ANCESTOR_MAX_DEPTH steps up.  Where the code stops at a parent it *)
(* has seen, going on finds no other.                                       *)
Ancestors(e, E) ==
  LET up[n \in 0..CUSTOM_ANCESTOR_MAX_DEPTH] ==
        IF n = 0 THEN {e} ELSE {EventOf[d].parent : d \in up[n - 1]} \intersect E IN
  UNION {up[n] : n \in 1..CUSTOM_ANCESTOR_MAX_DEPTH}

FieldValue(e, field) ==
  CASE field = "executable" -> Basename(e)
    [] field = "process_name" -> EventOf[e].name
    [] field = "parent_executable" ->
         IF EventOf[e].parent_executable = None THEN None
         ELSE BaseName[EventOf[e].parent_executable]
    [] field = "user_uid" -> EventOf[e].uid
    [] field = "privileged" -> EventOf[e].privileged
    [] field = "container_id" -> EventOf[e].container
    [] field = "action" -> EventOf[e].action

(* A value is a whole name: it contains no name but itself.                 *)
LeafMatches(l, e) ==
  IF l.op \in {"equals", "in", "contains"} THEN FieldValue(e, l.field) = l.value
  ELSE FieldValue(e, l.field) # l.value

(* The comparisons a rule for processes, or for Docker events, may use.     *)
LeavesFor(target) ==
  {l \in Leaves : IF target = "process" THEN l.field # "action"
                  ELSE l.scope = "event" /\ l.field \in {"action", "container_id"}}

Truth(e, E, target) ==
  [l \in LeavesFor(target) |->
     IF l.scope = "ancestor"
     THEN \E a \in Ancestors(e, Processes(E)) : LeafMatches(l, a)
     ELSE LeafMatches(l, e)]

(* A match: the rule, what it rests on and where.  "source" is a sequence   *)
(* of events: one, a shell and a tool, or none for the score.               *)
Match(rule, source, container) == [rule |-> rule, source |-> source, container |-> container]

(* A rule that raises is recorded as an error and keeps the matches it made *)
(* before.                                                                  *)
CustomMatches(R, E) ==
  UNION {LET rule == RuleOf[r]
             subject == IF rule.target = "process" THEN Processes(E) ELSE Runtime(E)
             reached == {e \in subject : \A d \in rule.raises \intersect subject : Precedes(e, d)} IN
         {Match(rule.slug, <<e>>, EventOf[e].container) :
            e \in {d \in reached : Evaluate(rule.condition, Truth(d, E, rule.target))}} :
         r \in R}

-------------------------------------------------------------------------------
(* The built-in rules. *)

(* Of the unseen tools the first ones are reported, the others counted.     *)
Reported(E) ==
  {e \in UnseenTools(E) :
     Cardinality({d \in UnseenTools(E) : Precedes(d, e)}) < POR_DET_004_MATCH_CAP}

(* A shell and a tool that follows it in its container. *)
Sequences_(E) ==
  {pair \in UnseenShells(E) \X UnseenTools(E) :
     LET shell == EventOf[pair[1]]
         tool == EventOf[pair[2]] IN
     /\ tool.container # None
     /\ tool.container = shell.container
     /\ shell.at <= tool.at
     /\ tool.at <= shell.at + CORRELATION_WINDOW}

OfEach(rule, E) == {Match(rule, <<e>>, EventOf[e].container) : e \in E}

BuiltInMatches(E, anomaly) ==
  (IF anomaly >= 50 THEN {Match("POR-DET-001", <<>>, None)} ELSE {})
  \union OfEach("POR-DET-002", UnseenShells(E))
  \union OfEach("POR-DET-003", {e \in Processes(E) : EventOf[e].uid = 0 /\ 0 \notin KnownUids})
  \union OfEach("POR-DET-004", Reported(E))
  \union {Match("POR-DET-005", pair, EventOf[pair[2]].container) : pair \in Sequences_(E)}
  \union OfEach("POR-DET-006", {e \in Runtime(E) : EventOf[e].action = "exec_start"})
  \union OfEach("POR-DET-007", {e \in Runtime(E) : /\ EventOf[e].privileged
                                                   /\ EventOf[e].action \in {"create", "start"}})

BuiltIn ==
  [rule \in BuiltInRules |->
     CASE rule = "POR-DET-001" -> [severity |-> 65, confidence |-> 70, incident_eligible |-> FALSE]
       [] rule = "POR-DET-002" -> [severity |-> 72, confidence |-> 90, incident_eligible |-> TRUE]
       [] rule = "POR-DET-003" -> [severity |-> 78, confidence |-> 90, incident_eligible |-> TRUE]
       [] rule = "POR-DET-004" -> [severity |-> 64, confidence |-> 80, incident_eligible |-> TRUE]
       [] rule = "POR-DET-005" -> [severity |-> 90, confidence |-> 95, incident_eligible |-> TRUE]
       [] rule = "POR-DET-006" -> [severity |-> 35, confidence |-> 95, incident_eligible |-> FALSE]
       [] rule = "POR-DET-007" -> [severity |-> 92, confidence |-> 95, incident_eligible |-> TRUE]]

-------------------------------------------------------------------------------
(* Allowlists: [rule, executable, parent_executable].                       *)

(* What the details of a match say of its executable and its parent.        *)
AllowlistMatch(m, a) ==
  /\ m.rule = a.rule
  /\ m.source # <<>> /\ EventOf[m.source[1]].kind = "process"
  /\ Executable(m.source[1]) = a.executable
  /\ \/ a.parent_executable = None
     \/ m.rule # "POR-DET-003" /\ EventOf[m.source[1]].parent_executable = a.parent_executable

Exempt(m, A) == \E a \in A : AllowlistMatch(m, a)

(* A sequence goes with the report of its shell or of its tool.             *)
Suppressed(M, A) ==
  LET direct == {m \in M : m.rule # "POR-DET-005" /\ Exempt(m, A)}
      events == {m.source[1] : m \in {d \in direct : d.rule \in {"POR-DET-002", "POR-DET-004"}}} IN
  direct \union {m \in M : m.rule = "POR-DET-005" /\ {m.source[1], m.source[2]} \intersect events # {}}

-------------------------------------------------------------------------------
(* evaluate_detection *)

Weight(m, R) ==
  IF m.rule \in BuiltInRules THEN BuiltIn[m.rule]
  ELSE LET r == CHOOSE r \in R : RuleOf[r].slug = m.rule IN
       [severity |-> RuleOf[r].severity, confidence |-> RuleOf[r].confidence,
        incident_eligible |-> RuleOf[r].incident_eligible]

Eligible(M, R) == {m \in M : Weight(m, R).incident_eligible}

(* Mutant: the mean of the severities in place of the greatest one.         *)
MeanSeverity(M, R) ==
  SumSet({Weight(m, R).severity : m \in M}) \div Cardinality({Weight(m, R).severity : m \in M})

RuleSeverity(M, R) == Max({Weight(m, R).severity : m \in M})

Bonus(M) == Min({12, 3 * (Cardinality(M) - 1)})

(* In hundredths of a percent, at most 100 percent.                         *)
Severity(M, R, anomaly) ==
  IF Eligible(M, R) = {} THEN 25 * anomaly
  ELSE Min({10000, 65 * RuleSeverity(Eligible(M, R), R) + 35 * anomaly
                     + 100 * Bonus(Eligible(M, R))})

(* _deduplicate sorts by occurred_at, rule_id and source_id; the match of  *)
(* the score, dated at the end of the window, comes last.                   *)
Place(m) ==
  IF m.source = <<>> THEN <<1, 0, 0, 0, 0>>
  ELSE <<0, EventOf[m.source[Len(m.source)]].at, RuleOrder[m.rule], Ids[m.source[1]],
         Ids[m.source[Len(m.source)]]>>
Before(p, q) == \E i \in 1..5 : p[i] < q[i] /\ \A j \in 1..i - 1 : p[j] = q[j]
Latest(M) ==
  LET place == [m \in M |-> Place(m)] IN
  CHOOSE m \in M : \A n \in M \ {m} : Before(place[n], place[m])

(* Doubt is multiplied over the matches, one after another and rounded at   *)
(* each.                                                                    *)
Doubt(M, R) ==
  MapThenFoldSet(LAMBDA certain, doubt : (doubt * (100 - certain)) \div 100, 10000,
                 LAMBDA m : Weight(m, R).confidence, Latest, M)
RuleConfidence(M, R) == 10000 - Doubt(M, R)

SourceTypes(M) ==
  {CASE Len(m.source) = 0 -> "anomaly_score"
     [] Len(m.source) = 2 -> "derived_correlation"
     [] Len(m.source) = 1 -> EventOf[m.source[1]].kind : m \in M}

Confidence(M, R, E) ==
  LET diversity == Min({10000, (10000 * Cardinality(SourceTypes(M))) \div 3})
      coverage == 75 * Min({100, 20 * Cardinality(Processes(E))})
                    + (IF Runtime(E) = {} THEN 0 ELSE 2500) IN
  (2 * (IF M = {} THEN 0 ELSE RuleConfidence(M, R)) + diversity + coverage) \div 4

(* "anomaly" is the total score, or None if the window was not scored.      *)
evaluate_detection(anomaly, E, A, R) ==
  IF anomaly = None
  THEN [status |-> "insufficient_data", matches |-> {}, suppressed |-> {}, severity |-> 0,
        confidence |-> 0]
  ELSE LET all == BuiltInMatches(E, anomaly) \union CustomMatches(R, E)
           suppressed == Suppressed(all, A)
           matches == all \ suppressed IN
       [status |-> IF Eligible(matches, R) # {} THEN "incident_created"
                   ELSE IF matches # {} THEN "findings_only" ELSE "no_findings",
        matches |-> matches, suppressed |-> suppressed,
        severity |-> Severity(matches, R, anomaly),
        confidence |-> Confidence(matches, R, E)]
===============================================================================
