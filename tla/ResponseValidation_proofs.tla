---------------------- MODULE ResponseValidation_proofs ----------------------
(***************************************************************************)
(* What the worker relies on when it commits the valid results of a        *)
(* response and retries the rest, for every response, every set of         *)
(* expected targets and every label set.                                   *)
(***************************************************************************)
EXTENDS ResponseValidation, TLAPS

\* A target of a batch that has no result is named by an issue: it is missing, or
\* one of its items has been refused.
LEMMA UnsettledIsAnIssue ==
    ASSUME NEW payload, NEW expected, NEW template,
           NEW t \in expected \ ValidTargets(payload, expected, template)
    PROVE  \E issue \in BatchIssues(payload, expected, template) : issue.target = t
<1>1. CASE Naming(payload, t) = {}
  <2>1. Issue("missing", t) \in BatchIssues(payload, expected, template)
    BY <1>1 DEF BatchIssues
  <2>2. QED BY <2>1 DEF Issue
<1>2. CASE Naming(payload, t) # {}
  <2>1. PICK item \in Values(payload.items) : item.target = t
    BY <1>2 DEF Naming, Values
  <2>2. Issue("invalid", item.target) \in BatchIssues(payload, expected, template)
    BY <2>1 DEF BatchIssues
  <2>3. QED BY <2>1, <2>2 DEF Issue
<1>3. QED BY <1>1, <1>2

(* AnalysisStageRunWorker.process commits valid_results, retries            *)
(* retry_target_ids and takes issues[0] for a target without an issue of    *)
(* its own: no target is both committed and retried or neither, nothing     *)
(* else is committed, and there is an issue whenever one is retried.        *)
THEOREM EveryTargetIsSettled ==
    ASSUME NEW payload, NEW expected, NEW template
    PROVE  LET validation == Validate(payload, expected, template)
           IN /\ DOMAIN validation.results \subseteq expected
              /\ validation.retry = expected \ DOMAIN validation.results
              /\ validation.retry # {} => validation.issues # {}
<1> DEFINE validation == Validate(payload, expected, template)
<1>1. CASE template.batch /\ payload.envelope = "results"
  <2>1. /\ DOMAIN validation.results = ValidTargets(payload, expected, template)
        /\ validation.retry = expected \ ValidTargets(payload, expected, template)
        /\ validation.issues = BatchIssues(payload, expected, template)
    BY <1>1 DEF Validate, ValidateBatch
  <2>2. QED BY <2>1, UnsettledIsAnIssue DEF ValidTargets
<1>2. CASE template.batch /\ payload.envelope # "results"
  BY <1>2 DEF Validate, ValidateBatch, WholePayloadFailure, NoResults
<1>3. CASE ~template.batch
  BY <1>3 DEF Validate, ValidateSingle, WholePayloadFailure, NoResults
<1>4. QED BY <1>1, <1>2, <1>3

(* A result of a batch comes from the only item that names its target, and  *)
(* that item fits the label set (StructuredOutputValidator._validate_batch).*)
THEOREM ResultsAreUnambiguous ==
    ASSUME NEW payload, NEW expected, NEW template,
           NEW t \in DOMAIN ValidateBatch(payload, expected, template).results
    PROVE  \E i \in DOMAIN payload.items :
              /\ payload.items[i].target = t
              /\ \A j \in DOMAIN payload.items : payload.items[j].target = t => j = i
              /\ ItemValid(payload.items[i], template)
              /\ ValidateBatch(payload, expected, template).results[t]
                   = ResolveScores(payload.items[i])
<1>1. payload.envelope = "results"
  BY DEF ValidateBatch, WholePayloadFailure, NoResults
<1>2. /\ t \in ValidTargets(payload, expected, template)
      /\ ValidateBatch(payload, expected, template).results[t]
           = ResolveScores(ItemFor(payload, t))
  BY <1>1 DEF ValidateBatch
<1>3. PICK i \in DOMAIN payload.items : Naming(payload, t) = {i}
  BY <1>2 DEF ValidTargets, NamedOnce
<1>4. ItemFor(payload, t) = payload.items[i]
  BY <1>3 DEF ItemFor
<1>5. QED BY <1>2, <1>3, <1>4 DEF Naming, ValidTargets

=============================================================================
