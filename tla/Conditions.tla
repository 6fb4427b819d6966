------------------------------- MODULE Conditions -------------------------------
(***************************************************************************)
(* The condition of a custom rule: a tree of comparisons                   *)
(* (evaluate_custom_condition, backend/src/porygon_api/detection.py).      *)
(***************************************************************************)
EXTENDS Integers, Sequences

CONSTANTS
  Leaves,      (* comparisons, a subset of Comparisons                        *)
  Values,      (* value tokens                                                *)
  CUSTOM_CONDITION_MAX_DEPTH

Fields == {"executable", "process_name", "parent_executable", "parent_name",
           "command_line", "user_uid", "container_id", "action", "privileged",
           "image_digest"}
Operators == {"equals", "not_equals", "in", "not_in", "contains"}

Comparisons ==
  [scope : {"event", "ancestor"}, field : Fields, op : Operators, value : Values]

ASSUME ExpressionAssumption == Leaves \subseteq Comparisons

-------------------------------------------------------------------------------
(* "of" holds the children of a node, "leaf" the comparison of a leaf.      *)
Leaf(l)       == [key |-> "leaf", of |-> <<>>, leaf |-> <<l>>]
Node(key, cs) == [key |-> key, of |-> cs, leaf |-> <<>>]

(* The nodes of a tree validate_custom_condition has accepted.              *)
Nodes(c) ==
  LET level[n \in 0..CUSTOM_CONDITION_MAX_DEPTH] ==
        IF n = 0 THEN {c}
        ELSE UNION {{d.of[i] : i \in DOMAIN d.of} : d \in level[n - 1]} IN
  UNION {level[n] : n \in 0..CUSTOM_CONDITION_MAX_DEPTH}

(* evaluate_custom_condition, where "truth" says which comparisons hold.    *)
Evaluate(c, truth) ==
  LET holds[d \in Nodes(c)] ==
        CASE d.key = "leaf" -> truth[d.leaf[1]]
          [] d.key = "all" -> \A i \in DOMAIN d.of : holds[d.of[i]]
          [] d.key = "any" -> \E i \in DOMAIN d.of : holds[d.of[i]]
          [] d.key = "not" -> ~holds[d.of[1]] IN
  holds[c]
===============================================================================
