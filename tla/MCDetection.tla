------------------------------- MODULE MCDetection -------------------------------
(* Instances of Detection and RuleExpression for TLC. *)
EXTENDS Detection, RuleExpression

CONSTANTS e1, e2, e3, d1, s1, a1, a2, a3, r1, r2, r3, q1, q2, box,
          sh, nc, ls, busybox, opt, big, null

(* A shell, a tool it starts, a known program that is not reported, and a   *)
(* privileged container.                                                    *)
Exec(at, program, applet, parent, uid) ==
  [kind |-> "process", at |-> at, container |-> box, executable |-> program,
   name |-> program, applet |-> applet, parent |-> parent,
   parent_executable |-> IF parent = None THEN None ELSE sh, uid |-> uid]
MCEventOf ==
  [e \in Events |->
     CASE e = e1 -> Exec(1, sh, None, None, 1)
       [] e = e2 -> Exec(1, busybox, nc, e1, 0)
       [] e = e3 -> Exec(2, ls, None, e1, 1)
       [] e = d1 -> [kind |-> "runtime", at |-> 3, container |-> box, action |-> "start",
                     privileged |-> TRUE]]
(* "POR-CUS-first" comes before "POR-DET-001".                               *)
MCRuleOrder ==
  [rule \in BuiltInRules \union Slugs |->
     CASE rule = "first" -> 1 [] rule = "second" -> 2 [] rule = "POR-DET-001" -> 3
       [] rule = "POR-DET-002" -> 4 [] rule = "POR-DET-003" -> 5 [] rule = "POR-DET-004" -> 6
       [] rule = "POR-DET-005" -> 7 [] rule = "POR-DET-006" -> 8 [] rule = "POR-DET-007" -> 9]
MCIds == [e \in Events |-> CASE e = e1 -> 1 [] e = e2 -> 2 [] e = e3 -> 3 [] e = d1 -> 4]
SamePath == [p \in Paths |-> p]

MCScoreOf == [s \in Scores |-> [anomaly |-> 60, from |-> 0, until |-> 9]]

(* a1 and a2 exempt the shell, a1 for a time; a3 the tool from a rule.      *)
MCMatcherOf ==
  [a \in Allowlists |->
     IF a = a3 THEN [rule |-> "first", executable |-> nc, parent_executable |-> sh]
     ELSE [rule |-> "POR-DET-002", executable |-> sh, parent_executable |-> None]]

(* Comparisons, of the editor and of the rules.  A rule may compare with a  *)
(* number that is written with an exponent, and with null.                  *)
IsTool == [scope |-> "event", field |-> "executable", op |-> "equals", value |-> nc]
OfShell == [scope |-> "ancestor", field |-> "executable", op |-> "not_in", value |-> sh]
Starts == [scope |-> "event", field |-> "action", op |-> "equals", value |-> "start"]
HasUid(uid) == [scope |-> "event", field |-> "user_uid", op |-> "equals", value |-> uid]
MCLeaves == {IsTool, OfShell, HasUid(big), HasUid(null)}
MCClauses ==
  {Leaf(OfShell), Node("any", <<Leaf(IsTool), Leaf(OfShell)>>), Node("not", <<Leaf(IsTool)>>)}

MCTrees == {Leaf(IsTool), Node("not", <<Leaf(OfShell)>>)}
MCRuleOf ==
  [r \in CustomRules |->
     [slug |-> IF r = r3 THEN "second" ELSE "first", target |-> "process",
      condition |-> IF r = r2 THEN Node("not", <<Leaf(OfShell)>>) ELSE Leaf(IsTool),
      severity |-> 10, confidence |-> 50, incident_eligible |-> TRUE,
      raises |-> IF r = r2 THEN {e2} ELSE {}]]

(* Interchangeable handlers.                                               *)
Handlers == Permutations(Requests)

(* The editor works before any detection, on conditions of its own.         *)
MCInit == EditorInit /\ DetectionInit
MCNext ==
  \/ DetectionInit /\ Edit /\ UNCHANGED detectionVars
  \/ condition = Leaf(IsTool) /\ DetectionNext /\ UNCHANGED condition
MCSpec == MCInit /\ [][MCNext]_<<condition, detectionVars>>
===============================================================================
