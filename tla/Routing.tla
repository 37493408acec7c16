-------------------------------- MODULE Routing --------------------------------
(***************************************************************************)
(* RoutingService.evaluate and its PostgreSQL repository: a caller looks   *)
(* for an evaluation stored under its request id, loads one REPEATABLE     *)
(* READ snapshot of the message's facts and of a published policy,         *)
(* evaluates the rules, and either answers (dry run) or stores the         *)
(* evaluation with its publication intents in one transaction.  Callers    *)
(* run concurrently, retry a request after a failure, and meet only in the *)
(* unique index on routing_request_id.  Reviews, analyses and              *)
(* configuration changes happen between any two of their steps.            *)
(*                                                                         *)
(* One message is routed.  An evaluation is named after the caller and the *)
(* request that computed it: a caller that stored one never computes       *)
(* another for the same request.                                           *)
(***************************************************************************)
EXTENDS Review

CONSTANTS
    Callers,            \* processes that evaluate routing requests
    Requests,           \* routing request ids
    Fingerprints,       \* the message's duplicates, see DuplicateStatus
    Destinations,
    Identities,         \* Telegram identities that publish
    DefaultIdentity,    \* [Destinations -> Identities]
    MaxChanges          \* bound: reviews, analyses and configuration changes

\* An action without a rendering template forwards the message.
ActionShape(action) ==
    /\ DOMAIN action = {"id", "destination", "identity", "mode", "template"}
    /\ action.destination \in Destinations
    /\ action.identity \in Identities \cup {None}
    /\ (action.mode = "forward_only") <=> (action.template = None)

\* A fact is a label of a namespace, or a field of the message.
FactShape(node) ==
    node.op \in {"label_score", "label_present", "exists", "compare"} =>
        node.fact.ns \in Namespaces \cup {None}

\* The nodes of a syntax tree, every child after its parent.
ConditionShape(condition) ==
    /\ condition \in Seq(ToSet(condition)) \ {<<>>}
    /\ \A n \in DOMAIN condition :
        /\ Children(condition[n]) \subseteq (n + 1)..Len(condition)
        /\ FactShape(condition[n])

RuleShape(rule) ==
    /\ DOMAIN rule = {"id", "priority", "enabled", "stop", "condition", "actions"}
    /\ rule.id \in Nat
    /\ rule.priority \in Int
    /\ {rule.enabled, rule.stop} \subseteq BOOLEAN
    /\ ConditionShape(rule.condition)
    /\ rule.actions \in Seq(ToSet(rule.actions))
    /\ \A i \in DOMAIN rule.actions : ActionShape(rule.actions[i])
    /\ \A i, j \in DOMAIN rule.actions : rule.actions[i].id = rule.actions[j].id => i = j

RuleSetShape(rs) ==
    /\ IsFiniteSet(rs)
    /\ \A r \in rs : RuleShape(r)
    /\ \A r, s \in rs : r.id = s.id => r = s

ASSUME RoutingAssumption ==
    /\ \A rs \in RuleSets : RuleSetShape(rs)
    /\ DefaultIdentity \in [Destinations -> Identities]
    /\ Namespaces = {"model", "manual", "effective"}
    /\ MaxChanges \in Nat

VARIABLES
    fingerprint,    \* [known, older, newer] of the message's visual fingerprint
    disabled,       \* destinations and identities an administrator disabled
    evaluations,    \* routing_evaluations
    intents,        \* publication_intents
    call,           \* what each caller is doing
    changes         \* number of changes made around the callers

routingVars == <<evaluations, intents, call>>
worldVars == <<configurationVars, reviewVars, fingerprint, disabled>>
vars == <<worldVars, routingVars, changes>>

NoCall == [at |-> "idle"]

Init ==
    /\ ConfigurationInit
    /\ ReviewInit
    /\ fingerprint \in Fingerprints
    /\ disabled = {}
    /\ evaluations = {}
    /\ intents = {}
    /\ call = [c \in Callers |-> NoCall]
    /\ changes = 0

(***************************************************************************)
(* The snapshot.                                                           *)
(***************************************************************************)

\* older, newer: whether a message with the same fingerprint was published
\* before, after this one.
DuplicateStatus ==
    IF ~fingerprint.known THEN "unknown"
    ELSE IF fingerprint.older THEN "duplicate"
    ELSE IF fingerprint.newer THEN "canonical" ELSE "unique"

\* Of the columns of the message, its channel and its assets only the review
\* status changes here; the others are facts of the same kind.
MessageFields ==
    [duplicate_status |-> [type |-> "text", v |-> DuplicateStatus],
     review_status |-> [type |-> "text", v |-> reviewStatus]]

Facts ==
    [fields |-> MessageFields,
     labels |-> [ns \in Namespaces |-> NamespaceSnapshot(ns)]]

ActionsOf(rs) == UNION {{r.actions[i] : i \in DOMAIN r.actions} : r \in rs}

IdentityFor(action) ==
    IF action.identity = None THEN DefaultIdentity[action.destination] ELSE action.identity

\* Every action of the policy counts, whether or not its rule will match.
ReferencesUsable(rs) ==
    \A action \in ActionsOf(rs) :
        /\ {action.destination, DefaultIdentity[action.destination], IdentityFor(action)}
                \cap disabled = {}
        /\ action.template # None => Published(action.template)

RulesValid(rs) == \A r \in rs : ValidCondition(r.condition)

Loadable(p) ==
    /\ Published(p)
    /\ ReferencesUsable(rules[p])
    /\ RulesValid(rules[p])
    /\ ~Ambiguous

NewIntent(evaluation, a) ==
    [evaluation |-> evaluation, rule |-> a.rule, action |-> a.action.id,
     destination |-> a.action.destination, identity |-> IdentityFor(a.action),
     mode |-> a.action.mode, template |-> a.action.template, status |-> "pending"]

IntentsOf(evaluation, decision) == {NewIntent(evaluation, a) : a \in ToSet(decision.actions)}

\* Unique over all intents.  The evaluation's id names its request.
BusinessKey(intent) == <<intent.evaluation, intent.rule, intent.action, intent.destination>>

\* The stored facts_snapshot and its hash are left out: nothing reads them.
Draft(c) ==
    LET decision == EvaluateRouting(rules[call[c].policy], Facts)
        id == <<c, call[c].request, call[c].dryRun>>
    IN  [evaluation |-> [id |-> id, request |-> call[c].request, policy |-> call[c].policy,
                         outcomes |-> decision.outcomes, stoppedAt |-> decision.stoppedAt],
         intents |-> IntentsOf(id, decision)]

(***************************************************************************)
(* RoutingService.evaluate.                                                *)
(***************************************************************************)
StoredFor(q) == {e \in evaluations : e.request = q}

\* _load_execution_by_request: the stored evaluation with its intents.
Reused(e) == [evaluation |-> e, intents |-> {i \in intents : i.evaluation = e.id}]

\* The call of c with the result it holds.
Holding(c, at, answer) ==
    [at |-> at, request |-> call[c].request, policy |-> call[c].policy,
     dryRun |-> call[c].dryRun, answer |-> answer]

\* A request id is bound to the policy version it was first evaluated with.  A
\* call that raises is over.
Reuse(c) ==
    \E e \in StoredFor(call[c].request) :
        call' = [call EXCEPT ![c] = IF e.policy = call[c].policy
                                    THEN Holding(c, "answered", Reused(e))
                                    ELSE NoCall]

StartCall(c) ==
    /\ call[c] = NoCall
    /\ \E q \in Requests, p \in Policies, dryRun \in BOOLEAN :
        call' = [call EXCEPT ![c] = [at |-> IF dryRun THEN "load" ELSE "find",
                                     request |-> q, policy |-> p, dryRun |-> dryRun]]
    /\ UNCHANGED <<evaluations, intents>>

FindByRequestId(c) ==
    /\ call[c].at = "find"
    /\ IF StoredFor(call[c].request) = {}
       THEN call' = [call EXCEPT ![c].at = "load"]
       ELSE Reuse(c)
    /\ UNCHANGED <<evaluations, intents>>

LoadSnapshot(c) ==
    /\ call[c].at = "load"
    /\ call' = [call EXCEPT ![c] =
                IF Loadable(call[c].policy)
                THEN Holding(c, IF call[c].dryRun THEN "answered" ELSE "persist", Draft(c))
                ELSE NoCall]
    /\ UNCHANGED <<evaluations, intents>>

\* What is stored is what was decided, for this evaluation.
PayloadMatches(c) ==
    LET answer == call[c].answer IN
    /\ answer.evaluation.policy = call[c].policy
    /\ \A i \in answer.intents :
        /\ i.evaluation = answer.evaluation.id
        /\ i.status = "pending"

\* Foreign keys: to the rule that stopped the evaluation, to the intents' actions.
References(answer) ==
    {<<r>> : r \in {answer.evaluation.stoppedAt} \ {None}} \cup
    {<<i.rule, i.action>> : i \in answer.intents}

\* A rule or an action deleted since the snapshot fails the transaction.
InsertDraft(c) ==
    /\ \A i \in call[c].answer.intents, j \in intents : BusinessKey(i) # BusinessKey(j)
    /\ References(call[c].answer) \subseteq RuleRows(rules[call[c].policy])
    /\ evaluations' = evaluations \cup {call[c].answer.evaluation}
    /\ intents' = intents \cup call[c].answer.intents
    /\ call' = [call EXCEPT ![c].at = "answered"]

\* Fault: the intents are inserted whether or not the evaluation was.
PersistIntentsAnyway(c) ==
    /\ call[c].at = "persist"
    /\ \/ /\ StoredFor(call[c].request) = {}
          /\ InsertDraft(c)
       \/ /\ StoredFor(call[c].request) # {}
          /\ Reuse(c)
          /\ intents' = intents \cup call[c].answer.intents
          /\ UNCHANGED evaluations

\* Fault: the loser answers with what it computed itself.
PersistAnswersDraft(c) ==
    /\ call[c].at = "persist"
    /\ \/ /\ StoredFor(call[c].request) = {}
          /\ InsertDraft(c)
       \/ /\ StoredFor(call[c].request) # {}
          /\ call' = [call EXCEPT ![c].at = "answered"]
          /\ UNCHANGED <<evaluations, intents>>

\* ON CONFLICT DO NOTHING: the loser returns what the winner stored.
PersistEvaluation(c) ==
    /\ call[c].at = "persist"
    /\ PayloadMatches(c)
    /\ \/ /\ StoredFor(call[c].request) = {}
          /\ InsertDraft(c)
       \/ /\ StoredFor(call[c].request) # {}
          /\ Reuse(c)
          /\ UNCHANGED <<evaluations, intents>>

\* The caller dies, or returns its answer; it may ask again.
EndCall(c) ==
    /\ call[c] # NoCall
    /\ call' = [call EXCEPT ![c] = NoCall]
    /\ UNCHANGED <<evaluations, intents>>

(***************************************************************************)
(* What happens around the callers.                                        *)
(***************************************************************************)
UsedRules ==
    [p \in Policies |-> UNION {References(Reused(e)) : e \in {f \in evaluations : f.policy = p}}]

Configure ==
    /\ \/ \E v \in Versions : PublishVersion(v) \/ RetireVersion(v)
       \/ \E e \in Editors, p \in Policies : BeginEdit(e, p)
       \/ \E e \in Editors : CommitEdit(e, UsedRules) \/ RollBackEdit(e)
    /\ UNCHANGED <<reviewVars, fingerprint, disabled>>

Disable ==
    /\ \E d \in (Destinations \cup Identities) \ disabled : disabled' = disabled \cup {d}
    /\ UNCHANGED <<configurationVars, reviewVars, fingerprint>>

ReviewMessage ==
    /\ \/ \E id \in Identity, at \in Positions : SetLabel(id, at) \/ ClearLabel(id, at)
       \/ \E new \in ReviewStatuses, at \in Positions : TransitionStatus(new, at)
       \/ CompleteAnalysis
    /\ UNCHANGED <<configurationVars, fingerprint, disabled>>

Change ==
    /\ changes < MaxChanges
    /\ changes' = changes + 1
    /\ Configure \/ Disable \/ ReviewMessage
    /\ UNCHANGED routingVars

Call(c) ==
    /\ \/ StartCall(c)
       \/ FindByRequestId(c)
       \/ LoadSnapshot(c)
       \/ PersistEvaluation(c)
       \/ EndCall(c)
    /\ UNCHANGED <<worldVars, changes>>

Next == Change \/ \E c \in Callers : Call(c)

Spec == Init /\ [][Next]_vars

(***************************************************************************)
(* Properties.                                                             *)
(***************************************************************************)
Answered(c) == call[c].at = "answered"
Persists(c) == call[c].at = "persist"

EvaluationShape(e) ==
    /\ e.id \in Callers \X {e.request} \X {FALSE}
    /\ e.request \in Requests
    /\ e.policy \in Policies
    /\ e.stoppedAt \in {e.outcomes[i].rule : i \in DOMAIN e.outcomes} \cup {None}

IntentShape(i) ==
    /\ i.evaluation \in {e.id : e \in evaluations}
    /\ i.destination \in Destinations
    /\ i.identity \in Identities
    /\ (i.mode = "forward_only") <=> (i.template = None)
    /\ i.status = "pending"
    /\ \A j \in intents : BusinessKey(i) = BusinessKey(j) => i = j

(* Every variable stays in its domain and every row in its table's shape.  *)
TypeOK ==
    /\ versionState \in [Versions -> VersionState]
    /\ rules \in [Policies -> RuleSets]
    /\ edit \in [Editors -> Edit]
    /\ ReviewTypeOK
    /\ fingerprint \in Fingerprints
    /\ disabled \subseteq Destinations \cup Identities
    /\ \A e \in evaluations : EvaluationShape(e)
    /\ \A i \in intents : IntentShape(i)
    /\ \A c \in Callers : call[c].at \in {"idle", "find", "load", "persist", "answered"}
    /\ changes \in 0..MaxChanges

(* However many callers evaluate a request, and however often, it has one  *)
(* evaluation, and the intents are those of the matched rules of the       *)
(* stored evaluations and no others (persist_evaluation).                  *)
OneEvaluationPerRequest ==
    /\ \A e, f \in evaluations : e.request = f.request => e = f
    /\ \A i \in intents : \E e \in evaluations :
        /\ e.id = i.evaluation
        /\ \E n \in DOMAIN e.outcomes : e.outcomes[n].rule = i.rule /\ e.outcomes[n].matched

(* Formal answers to one request are what is stored under it, whoever won  *)
(* the race and whatever the loser had computed; a dry run's answer is not *)
(* stored (evaluate, persist_evaluation).                                  *)
AnswersAgree ==
    \A c \in Callers : Answered(c) =>
        IF call[c].dryRun THEN call[c].answer.evaluation \notin evaluations
        ELSE /\ call[c].answer.evaluation \in StoredFor(call[c].request)
             /\ call[c].answer.evaluation.policy = call[c].policy
             /\ call[c].answer.intents =
                    {i \in intents : i.evaluation = call[c].answer.evaluation.id}

\* c has just evaluated its policy.
Evaluates(c) == call[c].at = "load" /\ call'[c].at \in {"persist", "answered"}
Drafted(c) == call'[c].answer

(* The decision is what the policy says: a rule fires iff it is enabled,   *)
(* matches, and no firing rule before it in (-priority, id) stops; its     *)
(* intents are the actions of the firing rules (evaluate_routing).         *)
DecisionFollowsRules ==
    [][\A c \in Callers : Evaluates(c) =>
        LET rs == rules[call[c].policy]
            before(r, s) == r.priority > s.priority \/ (r.priority = s.priority /\ r.id < s.id)
            matches(r) == r.enabled /\ EvaluateCondition(r.condition, Facts)
            fires(r) == matches(r) /\ \A s \in rs : s.stop /\ matches(s) => ~before(s, r)
        IN  {<<i.rule, i.action>> : i \in Drafted(c).intents} =
            {<<ra[1].id, ra[2].id>> : ra \in
                {ra \in rs \X ActionsOf(rs) : fires(ra[1]) /\ ra[2] \in ToSet(ra[1].actions)}}]_vars

\* The facts with one more label: on the message, or on an asset.
WithEntry(f, key, value) ==
    [k \in DOMAIN f \cup {key} |-> IF k = key THEN value ELSE f[k]]

WithLabel(facts, ns, id, value) ==
    LET labels == facts.labels[ns]
        entry == IF id[1] \in DOMAIN labels.media THEN labels.media[id[1]] ELSE <<>>
        known == IF id[1] = MessageTarget
                 THEN [global |-> WithEntry(labels.global, KeyOf[id[2]], value),
                       media |-> labels.media]
                 ELSE [global |-> labels.global,
                       media |-> WithEntry(labels.media, id[1], WithEntry(entry, KeyOf[id[2]], value))]
    IN  [fields |-> facts.fields,
         labels |-> [m \in Namespaces |-> IF m = ns THEN known ELSE facts.labels[m]]]

KnownLabel(facts, ns, id) ==
    IF id[1] = MessageTarget THEN KeyOf[id[2]] \in DOMAIN facts.labels[ns].global
    ELSE id[1] \in DOMAIN facts.labels[ns].media /\ KeyOf[id[2]] \in DOMAIN facts.labels[ns].media[id[1]]

Completions(facts) ==
    {WithLabel(facts, x[1], x[2], x[3]) :
        x \in {y \in Namespaces \X Identity \X LabelValues : ~KnownLabel(facts, y[1], y[2])}}

\* The match of a rule does not rest on the absence of a label.
MatchIsKnown(c, rule) ==
    rule.enabled /\ EvaluateCondition(rule.condition, Facts) =>
        \A f \in Completions(Facts) : EvaluateCondition(rule.condition, f)

\* The condition may hold because no asset has a label.
NegatesMedia(condition) ==
    \E n, m \in DOMAIN condition :
        \/ condition[n].op = "none_media"
        \/ condition[n].op = "not" /\ condition[m].op = "any_media"

(* A missing label is never what makes a rule match: a rule that matches   *)
(* still matches once any label the message or an asset lacks is known,    *)
(* whatever its value (evaluate_condition, _evaluate).  Rules that say     *)
(* none_media, or any_media beside a not, are not meant: an asset without  *)
(* any label has no entry among the facts, and counts as free of every     *)
(* label.                                                                  *)
UnknownNeverMatches ==
    [][\A c \in Callers : Evaluates(c) =>
        \A r \in rules[call[c].policy] : ~NegatesMedia(r.condition) => MatchIsKnown(c, r)]_vars

(* The newest manual event of a label decides: a set overrides the model,  *)
(* a clear falls back to it, an event that commits late with an older time *)
(* changes nothing, and an analysis that ends never moves a label that a   *)
(* person set (resolve_label_namespaces).                                  *)
NewestEventDecides ==
    [][\A id \in Identity :
        LET added == {e \in manual' \ manual : e.id = id}
            newest == {e \in added : \A f \in EventsOf(id) : f.at < e.at}
        IN  IF newest # {}
            THEN \E e \in newest : EffectiveLabels'[id] =
                    IF e.value = None THEN modelLabels[id] ELSE e.value
            ELSE (added # {} \/ ManualLabels[id] # None) =>
                    EffectiveLabels'[id] = EffectiveLabels[id]]_vars

=============================================================================
