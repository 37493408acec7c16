------------------------- MODULE ResponseValidation -------------------------
(***************************************************************************)
(* What StructuredOutputValidator makes of a provider's response.  In a    *)
(* batch the targets a response speaks of are looked for one by one: a     *)
(* target that is named twice, not at all or with scores that do not fit   *)
(* its label set is left to be retried, and whatever else the response     *)
(* holds is an issue but no result.                                        *)
(*                                                                         *)
(* A score is a number of steps of an arbitrary scale; what is not a       *)
(* finite number between 0 and 1 is a score beyond MaxScore.  Reason and   *)
(* evidence belong to the fields of an item, of which only this is kept:   *)
(* whether they are those the schema asks for, each of its type.           *)
(***************************************************************************)
EXTENDS Naturals

CONSTANTS
    Targets,        \* values of the target field of an item
    NoTarget,       \* the target of an item that names none
    LabelKeys,      \* label_keys of the label set
    NegativeLabels, \* those whose definition is negative
    Threshold,      \* activation_threshold of a binding
    MaxScore        \* the score 1.0

ASSUME ValidationAssumption ==
    /\ NoTarget \notin Targets
    /\ NegativeLabels \subseteq LabelKeys
    /\ MaxScore \in Nat
    /\ Threshold \in [LabelKeys -> 0..MaxScore]

\* The parts of a stage's execution_mode and structured_output_policy that
\* validation looks at.
Template == [batch : BOOLEAN, dense : BOOLEAN]

\* One element of "results", or the value of "result".
IsItem(item) ==
    /\ item.target \in Targets \cup {NoTarget}
    /\ item.fields \in BOOLEAN
    /\ \A i \in DOMAIN item.scores : item.scores[i].score \in Nat

\* A payload with the only key "results", a list, or "result", a mapping, or
\* anything else.
IsPayload(payload) ==
    /\ payload.envelope \in {"results", "result", "other"}
    /\ payload.envelope = "result" => DOMAIN payload.items = {1}
    /\ \A i \in DOMAIN payload.items : IsItem(payload.items[i])

Values(seq) == {seq[i] : i \in DOMAIN seq}

\* A score mapping is complete; a list of matches may leave labels out and is
\* refused when it repeats one.
ScoresValid(item, template) ==
    LET keys == {match.label : match \in Values(item.scores)}
    IN /\ \A match \in Values(item.scores) : match.score <= MaxScore
       /\ IF template.dense
          THEN keys = LabelKeys
          ELSE /\ keys \subseteq LabelKeys
               /\ \A i, j \in DOMAIN item.scores :
                     item.scores[i].label = item.scores[j].label => i = j

ItemValid(item, template) == item.fields /\ ScoresValid(item, template)

\* The labels of a valid item.
ResolveScores(item) ==
    {[label |-> match.label,
      activated |-> match.score >= Threshold[match.label],
      negative |-> match.label \in NegativeLabels] : match \in Values(item.scores)}

\* The items of the payload that name t.
Naming(payload, t) == {i \in DOMAIN payload.items : payload.items[i].target = t}

\* Fault: of several results for one target any is taken.
NamedAtLeastOnce(payload, t) == Naming(payload, t) # {}

NamedOnce(payload, t) == \E i \in DOMAIN payload.items : Naming(payload, t) = {i}

Issue(kind, t) == [kind |-> kind, target |-> t]

NoResults == [t \in {} |-> {}]

WholePayloadFailure(expected) ==
    [results |-> NoResults, issues |-> {Issue("invalid", NoTarget)}, retry |-> expected]

ItemFor(payload, t) == payload.items[CHOOSE i \in Naming(payload, t) : TRUE]

ValidTargets(payload, expected, template) ==
    {t \in expected : NamedOnce(payload, t) /\ ItemValid(ItemFor(payload, t), template)}

BatchIssues(payload, expected, template) ==
    {Issue("invalid", item.target) :
        item \in {it \in Values(payload.items) :
                     it.target \notin ValidTargets(payload, expected, template)}}
      \cup {Issue("missing", t) : t \in {u \in expected : Naming(payload, u) = {}}}

ValidateBatch(payload, expected, template) ==
    IF payload.envelope # "results"
    THEN WholePayloadFailure(expected)
    ELSE LET valid == ValidTargets(payload, expected, template)
         IN [results |-> [t \in valid |-> ResolveScores(ItemFor(payload, t))],
             issues |-> BatchIssues(payload, expected, template),
             retry |-> expected \ valid]

\* Only a batch has more than one expected target, and only its items name them.
ValidateSingle(payload, expected, template) ==
    IF payload.envelope # "result"
    THEN WholePayloadFailure(expected)
    ELSE IF ItemValid(payload.items[1], template)
    THEN [results |-> [t \in expected |-> ResolveScores(payload.items[1])],
          issues |-> {}, retry |-> {}]
    ELSE [results |-> NoResults, issues |-> {Issue("invalid", t) : t \in expected},
          retry |-> expected]

Validate(payload, expected, template) ==
    IF template.batch
    THEN ValidateBatch(payload, expected, template)
    ELSE ValidateSingle(payload, expected, template)

\* An activated negative label among the valid results.
NegativeGateHit(validation) ==
    \E t \in DOMAIN validation.results :
        \E label \in validation.results[t] : label.activated /\ label.negative

=============================================================================
