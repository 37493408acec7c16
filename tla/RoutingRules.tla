----------------------------- MODULE RoutingRules -----------------------------
(***************************************************************************)
(* The routing condition language (domain/routing/dsl.py) and the pure     *)
(* evaluation of a policy's rules over a snapshot of facts                 *)
(* (domain/routing/models.py).  Nothing here changes state: Routing        *)
(* evaluates these operators on what it has loaded.                        *)
(*                                                                         *)
(* A condition is the sequence of the nodes of its syntax tree, node 1 the *)
(* root, every child at a larger index than its parent.  A value carries   *)
(* its Python type, because eq and neq compare types first.                *)
(***************************************************************************)
EXTENDS Integers, Sequences, FiniteSets, SequencesExt

CONSTANTS
    None,
    Namespaces, \* "model", "manual" and "effective"
    MaxDepth,   \* _MAX_DEPTH of the condition language
    Inside,     \* pairs of texts <<s, t>> such that s occurs in t
    Begins      \* pairs of texts <<s, t>> such that t starts with s

ASSUME RulesAssumption ==
    /\ MaxDepth \in Nat
    /\ None \notin Nat
    /\ Begins \subseteq Inside

Unknown == "unknown"
Truth(b) == IF b THEN "true" ELSE "false"

\* What a missing fact resolves to, and JSON null.
Missing == [type |-> "missing", v |-> 0]
Number(n) == [type |-> "float", v |-> n]
IsNumber(x) == x.type \in {"int", "float"}
Absent(x) == x.type \in {"missing", "null"}

(* Conditions. *)
Orderings == {"gt", "gte", "lt", "lte"}
NumericOperators == Orderings \cup {"eq", "neq", "in"}
Operators == NumericOperators \cup {"contains", "starts_with"}
LabelComparisons == Orderings \cup {"eq"}

\* Scores and thresholds are hundredths.
ValidThreshold(x) == IsNumber(x) /\ x.v \in 0..100

ValidComparison(node, numericOnly) ==
    /\ node.cmp \in IF numericOnly THEN NumericOperators ELSE Operators
    /\ numericOnly => IsNumber(node.value)
    /\ node.cmp = "in" => node.value.type = "list"

ValidLabel(node, scope) ==
    /\ node.ns \in Namespaces
    /\ node.scope \in IF scope = "global" THEN {scope} ELSE {scope, None}
    /\ node.cmp = None \/ (node.cmp \in LabelComparisons /\ ValidThreshold(node.value))

ValidNode(node) ==
    \/ node.op \in {"all", "any"} /\ node.args # {}
    \/ node.op = "not" /\ Cardinality(node.args) = 1
    \/ node.op = "label" /\ ValidLabel(node, "global")
    \/ node.op \in {"any_media", "none_media"} /\ ValidLabel(node, "media")
    \/ node.op = "label_score" /\ ValidComparison(node, TRUE)
    \/ node.op = "label_present" /\ ValidThreshold(node.value)
    \/ node.op = "exists"
    \/ node.op = "compare" /\ ValidComparison(node, FALSE)

Children(node) == IF node.op \in {"all", "any", "not"} THEN node.args ELSE {}

ValidCondition(condition) ==
    LET depth[n \in DOMAIN condition] ==
            IF n = 1 THEN 0
            ELSE 1 + depth[CHOOSE p \in 1..(n - 1) : n \in Children(condition[p])]
    IN  \A n \in DOMAIN condition : ValidNode(condition[n]) /\ depth[n] <= MaxDepth

(* Facts: [fields, labels].  fields maps a fact name to a value; labels    *)
(* holds, for each namespace, the global labels by key and the media       *)
(* entries, each the labels of one asset by key.                           *)
ResolveFact(facts, fact) ==
    IF fact.ns = None
    THEN IF fact.name \in DOMAIN facts.fields THEN facts.fields[fact.name] ELSE Missing
    ELSE LET labels == facts.labels[fact.ns].global IN
         IF fact.name \in DOMAIN labels THEN Number(labels[fact.name].score) ELSE Missing

Compares(a, cmp, b) ==
    CASE cmp = "gt" -> a > b
      [] cmp = "gte" -> a >= b
      [] cmp = "lt" -> a < b
      [] cmp = "lte" -> a <= b

\* Python's ==: an integer, a float and a boolean (0 or 1) compare by value.
PythonEqual(x, y) ==
    LET Numeric(z) == z.type \in {"int", "float", "bool"} IN
    (x.type = y.type \/ (Numeric(x) /\ Numeric(y))) /\ x.v = y.v

\* The texts of a comparison are numbered in their order.
Compare(actual, cmp, expected, numericOnly) ==
    LET numbers == IsNumber(actual) /\ IsNumber(expected)
        texts == actual.type = "text" /\ expected.type = "text"
    IN  IF Absent(actual) \/ (numericOnly /\ ~numbers) THEN Unknown
        ELSE
        CASE cmp \in Orderings ->
                IF numbers \/ texts THEN Truth(Compares(actual.v, cmp, expected.v)) ELSE Unknown
          [] cmp \in {"eq", "neq"} ->
                IF actual.type # expected.type THEN Unknown
                ELSE Truth((actual.v = expected.v) <=> (cmp = "eq"))
          [] cmp = "in" ->
                IF expected.type # "list" THEN Unknown
                ELSE Truth(\E x \in expected.v : PythonEqual(actual, x))
          [] cmp = "contains" ->
                IF actual.type = "list" THEN Truth(\E x \in actual.v : PythonEqual(expected, x))
                ELSE IF texts THEN Truth(<<expected.v, actual.v>> \in Inside) ELSE Unknown
          [] cmp = "starts_with" ->
                IF texts THEN Truth(<<expected.v, actual.v>> \in Begins) ELSE Unknown

\* labels: the global labels, or those of one media entry.
EvaluateLabel(node, labels) ==
    IF node.key \notin DOMAIN labels THEN Unknown
    ELSE IF node.cmp = None THEN Truth(labels[node.key].activated)
    ELSE Compare(Number(labels[node.key].score), node.cmp, node.value, TRUE)

Conjunction(results) ==
    IF "false" \in results THEN "false" ELSE IF Unknown \in results THEN Unknown ELSE "true"
Disjunction(results) ==
    IF "true" \in results THEN "true" ELSE IF Unknown \in results THEN Unknown ELSE "false"
\* Fault: whatever is not a match is inverted into one.
TwoValued(result) == Truth(result # "true")
Negation(result) == IF result = Unknown THEN Unknown ELSE Truth(result = "false")

\* The media entries are those of assets with at least one label.
EvaluateMedia(node, media) ==
    LET some == Disjunction({EvaluateLabel(node, media[a]) : a \in DOMAIN media}) IN
    IF node.op = "any_media" THEN some ELSE Negation(some)

EvaluateLeaf(node, facts) ==
    LET actual == ResolveFact(facts, node.fact) IN
    IF node.op = "exists"
    THEN IF actual.type = "missing" THEN Unknown ELSE Truth(actual.type # "null")
    ELSE Compare(actual, node.cmp, node.value, node.op = "label_score")

EvaluatePresent(node, facts) ==
    LET actual == ResolveFact(facts, node.fact) IN
    IF IsNumber(actual) THEN Truth(actual.v >= node.value.v) ELSE Unknown

Evaluate(condition, facts) ==
    LET value[n \in DOMAIN condition] ==
            LET node == condition[n]
                results == {value[a] : a \in Children(node)}
            IN  CASE node.op = "all" -> Conjunction(results)
                  [] node.op = "any" -> Disjunction(results)
                  [] node.op = "not" -> Negation(value[CHOOSE a \in node.args : TRUE])
                  [] node.op = "label" -> EvaluateLabel(node, facts.labels[node.ns].global)
                  [] node.op \in {"any_media", "none_media"} ->
                        EvaluateMedia(node, facts.labels[node.ns].media)
                  [] node.op = "label_present" -> EvaluatePresent(node, facts)
                  [] OTHER -> EvaluateLeaf(node, facts)
    IN  value[1]

EvaluateCondition(condition, facts) ==
    ValidCondition(condition) /\ Evaluate(condition, facts) = "true"

(***************************************************************************)
(* Rules: [id, priority, enabled, stop, condition, actions], id a number   *)
(* in the order of the UUIDs, actions the sequence of the rule's           *)
(* publication actions in output_order.                                    *)
(***************************************************************************)
\* Fault: ascending priorities.
PrecedesReversed(r, s) == r.priority < s.priority \/ (r.priority = s.priority /\ r.id < s.id)
Precedes(r, s) == r.priority > s.priority \/ (r.priority = s.priority /\ r.id < s.id)

\* A rule that is not reached after a stop has no outcome.
CheckRule(facts, decision, rule) ==
    LET matched == rule.enabled /\ EvaluateCondition(rule.condition, facts)
        stops == matched /\ rule.stop
    IN  IF decision.stoppedAt # None THEN decision
        ELSE [outcomes |-> Append(decision.outcomes,
                  [rule |-> rule.id, evaluated |-> rule.enabled,
                   matched |-> matched, stopped |-> stops]),
              actions |-> decision.actions \o
                  IF matched THEN [i \in DOMAIN rule.actions |->
                                      [rule |-> rule.id, action |-> rule.actions[i]]]
                  ELSE <<>>,
              stoppedAt |-> IF stops THEN rule.id ELSE None]

\* Each rule has its place by the number of rules that precede it.
InOrder(rules) ==
    [i \in 1..Cardinality(rules) |->
        CHOOSE r \in rules : Cardinality({s \in rules : Precedes(s, r)}) = i - 1]

EvaluateRouting(rules, facts) ==
    LET ordered == InOrder(rules)
        decision[i \in 0..Cardinality(rules)] ==
            IF i = 0 THEN [outcomes |-> <<>>, actions |-> <<>>, stoppedAt |-> None]
            ELSE CheckRule(facts, decision[i - 1], ordered[i])
    IN  decision[Cardinality(rules)]

=============================================================================
