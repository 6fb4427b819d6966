----------------------------- MODULE RuleExpression -----------------------------
(***************************************************************************)
(* The two forms of a custom rule's condition: the tree the engine         *)
(* evaluates (Conditions) and the text an operator reads and types         *)
(* (backend/src/porygon_api/rule_expression.py), with the limits           *)
(* validate_custom_condition puts on a tree                                *)
(* (backend/src/porygon_api/detection.py).                                 *)
(*                                                                         *)
(* A text is its sequence of tokens, its length their number; a value,     *)
(* list or not, is one token.                                              *)
(***************************************************************************)
EXTENDS Conditions, SequencesExt, FiniteSets

CONSTANTS
  CUSTOM_CONDITION_MAX_LEAVES, MAX_PARSE_DEPTH, MAX_EXPRESSION_LENGTH,
  Unwritable,  (* values without a text: null, objects, lists that hold one   *)
  Unreadable,  (* values whose text is no value: 1e+16, nan, lists nested     *)
               (* too deeply                                                  *)
  Clauses      (* conditions the editor puts beside the one it shows          *)

ASSUME TextAssumption ==
  /\ Unwritable \subseteq Values /\ Unreadable \subseteq Values
  /\ MAX_PARSE_DEPTH \in Nat /\ MAX_EXPRESSION_LENGTH \in Nat

VARIABLE condition   (* the condition the editor shows                        *)

-------------------------------------------------------------------------------
RECURSIVE Depth(_), LeafCount(_), ComparisonsOf(_)
Depth(c) ==
  IF c.key = "leaf" THEN 0
  ELSE 1 + (CHOOSE d \in {Depth(c.of[i]) : i \in DOMAIN c.of} :
              \A i \in DOMAIN c.of : Depth(c.of[i]) <= d)
LeafCount(c) ==
  IF c.key = "leaf" THEN 1 ELSE FoldLeft(LAMBDA n, d : n + LeafCount(d), 0, c.of)

ComparisonsOf(c) ==
  IF c.key = "leaf" THEN {c.leaf[1]} ELSE UNION {ComparisonsOf(c.of[i]) : i \in DOMAIN c.of}

(* validate_custom_condition, for trees of known fields and operators.      *)
Valid(c) ==
  /\ Depth(c) <= CUSTOM_CONDITION_MAX_DEPTH
  /\ LeafCount(c) <= CUSTOM_CONDITION_MAX_LEAVES

-------------------------------------------------------------------------------
(* render_expression *)

OpTokens(op) ==
  CASE op = "equals" -> <<"==">>
    [] op = "not_equals" -> <<"!=">>
    [] op = "in" -> <<"in">>
    [] op = "not_in" -> <<"not", "in">>
    [] op = "contains" -> <<"contains">>

Comparison(l) ==
  (IF l.scope = "ancestor" THEN <<"ancestor", ".">> ELSE <<>>)
    \o <<l.field>> \o OpTokens(l.op) \o <<l.value>>

Parenthesized(ts) == <<"(">> \o ts \o <<")">>

(* Mutant: nothing is put in parentheses under an "and".                    *)
NeverGrouped(key, parent, ts) == ts

(* "and" binds tighter than "or".                                           *)
Grouped(key, parent, ts) ==
  IF key = "any" /\ parent = "all" THEN Parenthesized(ts) ELSE ts

RECURSIVE Render(_, _)
Render(c, parent) ==
  CASE c.key = "leaf" -> Comparison(c.leaf[1])
    [] c.key \in {"all", "any"} ->
         LET joiner == IF c.key = "all" THEN "and" ELSE "or"
             parts == [i \in DOMAIN c.of |-> Render(c.of[i], c.key)] IN
         Grouped(c.key, parent,
                 FoldLeft(LAMBDA ts, part : ts \o <<joiner>> \o part, Head(parts), Tail(parts)))
    [] c.key = "not" ->
         LET inner == Render(c.of[1], "not") IN
         <<"not">> \o (IF c.of[1].key \in {"all", "any"} THEN Parenthesized(inner) ELSE inner)

(* The text shown beside a condition, empty when render_expression fails.   *)
expression(c) ==
  IF \E l \in ComparisonsOf(c) : l.value \in Unwritable THEN <<>> ELSE Render(c, "none")

-------------------------------------------------------------------------------
(* parse_expression: a parse is the node read and the tokens left.          *)

Readable == Values \ (Unwritable \union Unreadable)

Failed == [ok |-> FALSE, node |-> Node("none", <<>>), rest |-> <<>>]
Read(node, rest) == [ok |-> TRUE, node |-> node, rest |-> rest]

NextIs(ts, token) == ts # <<>> /\ Head(ts) = token

(* The operators of a comparison and how many tokens they take.             *)
OperatorAt(ts) ==
  {op \in Operators : IsPrefix(OpTokens(op), ts)}

ParseOperands(scope, ts) ==
  IF ts = <<>> \/ Head(ts) \notin Fields \/ OperatorAt(Tail(ts)) = {} THEN Failed
  ELSE LET op == CHOOSE o \in OperatorAt(Tail(ts)) : TRUE
           rest == SubSeq(ts, 2 + Len(OpTokens(op)), Len(ts)) IN
       IF rest = <<>> \/ Head(rest) \notin Readable THEN Failed
       ELSE Read(Leaf([scope |-> scope, field |-> Head(ts), op |-> op, value |-> Head(rest)]),
                 Tail(rest))

ParseComparison(ts) ==
  IF IsPrefix(<<"ancestor", ".">>, ts) THEN ParseOperands("ancestor", SubSeq(ts, 3, Len(ts)))
  ELSE ParseOperands("event", ts)

Joined(key, branches) == IF Len(branches) = 1 THEN branches[1] ELSE Node(key, branches)

(* "depth" counts the groups and negations entered (_recurse).              *)
RECURSIVE ParseOr(_, _, _), ParseAnd(_, _, _), ParseNot(_, _)

ParseOr(ts, depth, branches) ==
  LET b == ParseAnd(ts, depth, <<>>) IN
  IF ~b.ok THEN Failed
  ELSE IF NextIs(b.rest, "or") THEN ParseOr(Tail(b.rest), depth, Append(branches, b.node))
  ELSE Read(Joined("any", Append(branches, b.node)), b.rest)

ParseAnd(ts, depth, branches) ==
  LET b == ParseNot(ts, depth) IN
  IF ~b.ok THEN Failed
  ELSE IF NextIs(b.rest, "and") THEN ParseAnd(Tail(b.rest), depth, Append(branches, b.node))
  ELSE Read(Joined("all", Append(branches, b.node)), b.rest)

ParseNot(ts, depth) ==
  IF NextIs(ts, "not") THEN
    IF depth = MAX_PARSE_DEPTH THEN Failed
    ELSE LET n == ParseNot(Tail(ts), depth + 1) IN
         IF n.ok THEN Read(Node("not", <<n.node>>), n.rest) ELSE Failed
  ELSE IF NextIs(ts, "(") THEN
    IF depth = MAX_PARSE_DEPTH THEN Failed
    ELSE LET n == ParseOr(Tail(ts), depth + 1, <<>>) IN
         IF n.ok /\ NextIs(n.rest, ")") THEN Read(n.node, Tail(n.rest)) ELSE Failed
  ELSE ParseComparison(ts)

(* An empty text and one that is too long are refused.                      *)
parse_expression(ts) ==
  LET r == ParseOr(ts, 0, <<>>) IN
  IF Len(ts) \in 1..MAX_EXPRESSION_LENGTH /\ r.ok /\ r.rest = <<>> THEN r ELSE Failed

-------------------------------------------------------------------------------
(* The rule editor: the builder nests and joins clauses, the text form      *)
(* submits what was displayed with a token struck out.                      *)

EditorInit == condition \in {Leaf(l) : l \in Leaves}

Negate == condition' = Node("not", <<condition>>)

Join(key, clause) ==
  \/ condition' = Node(key, <<condition, clause>>)
  \/ condition' = Node(key, <<clause, condition>>)

SubmitText ==
  LET ts == expression(condition) IN
  \E i \in DOMAIN ts \union {0} :
    LET r == parse_expression(IF i = 0 THEN ts ELSE RemoveAt(ts, i)) IN
    /\ r.ok /\ Valid(r.node)
    /\ condition' = r.node

Edit ==
  /\ Valid(condition)
  /\ \/ Negate
     \/ \E key \in {"all", "any"}, clause \in Clauses : Join(key, clause)
     \/ SubmitText

EditorSpec == EditorInit /\ [][Edit]_condition

-------------------------------------------------------------------------------
(* Properties. *)

Equivalent(c, d) ==
  \A truth \in [ComparisonsOf(c) \union ComparisonsOf(d) -> BOOLEAN] :
    Evaluate(c, truth) = Evaluate(d, truth)

(* The text shown beside a valid condition, if it is accepted, is a valid   *)
(* condition again and has the same meaning; and it is accepted unless it   *)
(* is missing, holds a value the text form has no word for, or is longer    *)
(* than a request may be: neither the tree's nesting and size, within their *)
(* limits, nor the missing parentheses can get it refused or misread.       *)
RepresentationsAgree ==
  Valid(condition) =>
    LET ts == expression(condition)
        r == parse_expression(ts) IN
    /\ r.ok => Valid(r.node) /\ Equivalent(r.node, condition)
    /\ r.ok <=> /\ \A l \in ComparisonsOf(condition) : l.value \in Readable
                /\ Len(ts) =< MAX_EXPRESSION_LENGTH

(* What schemas.py says: a rule authored in the builder and one authored as *)
(* text "are indistinguishable afterwards, and the two representations      *)
(* cannot drift apart": the text shown for a valid condition is accepted.   *)
(* The code does not keep this: nothing limits the length of a tree's text, *)
(* and not every number is read as it is written.                           *)
FormsCannotDrift ==
  Valid(condition) /\ expression(condition) # <<>> =>
    parse_expression(expression(condition)).ok
===============================================================================
