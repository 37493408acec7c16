------------------------------ MODULE MCRouting ------------------------------
(* Instances of Routing for TLC. *)
EXTENDS Routing

CONSTANTS
    p1, p2,         \* two versions of one routing policy
    g1, g2,         \* two versions of a global label
    v1,             \* a media label
    t1,             \* a rendering template
    message, photo,
    news, alerts, bot

Label(score, on) == [score |-> score, activated |-> on]
Owners == [v \in Versions |->
            CASE v \in {p1, p2} -> "policy" [] v \in {g1, g2} -> "ugc" [] v = v1 -> "logo" [] OTHER -> "card"]
Keys == [v \in Versions |->
            CASE v \in {g1, g2} -> "ugc" [] v = v1 -> "logo" [] OTHER -> v]

High == Label(80, TRUE)
Low == Label(20, FALSE)

Values == {High, Low}

\* The global label has a new version; the message still has the old one's.
Before == [v \in Versions |->
            CASE v = p2 -> "draft" [] v = g1 -> "archived" [] OTHER -> "published"]
NoLabels == [id \in Identity |-> None]
OldLabel == [NoLabels EXCEPT ![<<message, g1>>] = High]
Results == {[NoLabels EXCEPT ![<<message, g2>>] = Low, ![<<photo, v1>>] = High],
            [NoLabels EXCEPT ![<<photo, v1>>] = Low]}

Action(id, d, i) ==
    [id |-> id, destination |-> d, identity |-> i, mode |-> "forward_only", template |-> None]
Rule(id, priority, stop, condition, actions) ==
    [id |-> id, priority |-> priority, enabled |-> TRUE, stop |-> stop,
     condition |-> condition, actions |-> actions]

Ugc(ns, cmp, value) ==
    [op |-> "label", ns |-> ns, scope |-> "global", key |-> "ugc", cmp |-> cmp, value |-> value]
Logo(op) ==
    [op |-> op, ns |-> "effective", scope |-> None, key |-> "logo", cmp |-> None, value |-> Missing]
UgcScore(cmp, n) ==
    [op |-> "label_score", fact |-> [ns |-> "effective", name |-> "ugc"], cmp |-> cmp, value |-> Number(n)]
ReviewIs(status) ==
    [op |-> "compare", fact |-> [ns |-> None, name |-> "review_status"],
     cmp |-> "eq", value |-> [type |-> "text", v |-> status]]
Not(n) == [op |-> "not", args |-> {n}]
AllOf(args) == [op |-> "all", args |-> args]
AnyOf(args) == [op |-> "any", args |-> args]

\* not(effective ugc), then reviewed and labelled, then any logo or a low score.
Curated == {
    Rule(1, 2, TRUE, <<Not(2), Ugc("effective", None, Missing)>>, <<Action(1, news, None)>>),
    Rule(2, 1, FALSE, <<AllOf({2, 3}), ReviewIs("reviewed"), Ugc("manual", "gte", Number(50))>>,
         <<Action(2, news, bot), Action(3, alerts, None)>>),
    Rule(3, 1, TRUE, <<AnyOf({2, 3}), Logo("any_media"), UgcScore("lt", 50)>>,
         <<[Action(4, alerts, None) EXCEPT !.mode = "copy_with_caption", !.template = t1]>>)}

\* Without media labels: the first rule changed, or nested too deeply.
Relaxed == {
    Rule(1, 0, FALSE, <<Not(2), Ugc("model", None, Missing)>>, <<Action(1, news, None)>>)}
Nested == {
    Rule(1, 0, FALSE, <<Not(2), Not(3), Not(4), ReviewIs("reviewed")>>, <<Action(1, news, None)>>)}

CuratedRules == {Curated, Relaxed, Nested}
TwoPolicies == [p \in {p1, p2} |-> IF p = p1 THEN Curated ELSE Nested]

CallersAlike == Permutations(Callers)

Duplicates == {[known |-> TRUE, older |-> FALSE, newer |-> TRUE]}
BotPublishes == [d \in {news, alerts} |-> bot]

=============================================================================
