-------------------------------- MODULE Review --------------------------------
(***************************************************************************)
(* Human review of one message: the append-only manual label events, the   *)
(* review status with its append-only history, and the three label         *)
(* namespaces that routing sees (domain/review, application/review,        *)
(* review_repository.py).                                                  *)
(*                                                                         *)
(* An event's created_at is read from the clock, or supplied, before the   *)
(* message row is locked: events commit in any order of their times.  The  *)
(* pair (created_at, event id) is one place in a total order, at.          *)
(***************************************************************************)
EXTENDS ConfigurationVersions, RoutingRules

CONSTANTS
    MessageTarget,  \* the message as the target of a global label
    Assets,         \* its images and videos, the targets of media labels
    LabelVersions,  \* the versions of label definitions
    MediaLabels,    \* those of scope media
    Enabled,        \* those with the enabled flag
    LabelValues,    \* the [score, activated] of a label
    ModelResults,   \* the label assignments an analysis run may leave
    InitialLabels,  \* those of the run before the model starts
    ReviewStatuses,
    MaxEvents       \* bound: manual label events, and review events

\* Scores are hundredths.
LabelShape(label) == label.score \in 0..100 /\ label.activated \in BOOLEAN

ASSUME ReviewAssumption ==
    /\ \A label \in LabelValues : LabelShape(label)
    /\ LabelVersions \subseteq Versions
    /\ MediaLabels \subseteq LabelVersions
    /\ Enabled \subseteq LabelVersions
    /\ None \notin LabelValues
    /\ "unreviewed" \in ReviewStatuses
    /\ MaxEvents \in Nat

VARIABLES
    modelLabels,    \* assignments of the newest finished run, None where it has none
    manual,         \* manual_label_assignments: the events
    reviewStatus,   \* messages.review_status
    reviewEvents    \* message_review_events, in the order of their commits

reviewVars == <<modelLabels, manual, reviewStatus, reviewEvents>>

Targets == {MessageTarget} \cup Assets
InScope(target, version) == (target \in Assets) <=> (version \in MediaLabels)
Identity == {id \in Targets \X LabelVersions : InScope(id[1], id[2])}

\* An assignment of an analysis run has one value for each label it gave.
ASSUME ModelLabelsAssumption ==
    ModelResults \cup {InitialLabels} \subseteq [Identity -> LabelValues \cup {None}]

Positions == 1..MaxEvents
\* A set event has a value, a clear event has none.
ManualEvent == [id : Identity, value : LabelValues \cup {None}, at : Positions]

ReviewInit ==
    /\ modelLabels = InitialLabels
    /\ manual = {}
    /\ reviewStatus = "unreviewed"
    /\ reviewEvents = <<>>

NewManualEvent(id, value, at) == [id |-> id, value |-> value, at |-> at]
UsableLabelVersion(version) == Published(version) /\ version \in Enabled

AppendManualLabel(event) ==
    /\ event.at \notin {e.at : e \in manual}
    /\ UsableLabelVersion(event.id[2])
    /\ manual' = manual \cup {event}
    /\ UNCHANGED <<modelLabels, reviewStatus, reviewEvents>>

SetLabel(id, at) ==
    \E value \in LabelValues : AppendManualLabel(NewManualEvent(id, value, at))
ClearLabel(id, at) == AppendManualLabel(NewManualEvent(id, None, at))

ReviewEvent == [old : ReviewStatuses, new : ReviewStatuses, at : Positions]
NewReviewEvent(old, new, at) == [old |-> old, new |-> new, at |-> at]
ReviewTransition(old, new) == new # old

\* Fault: the old status is read before the lock is taken.
TransitionUnlocked(new, at) ==
    /\ at \notin {reviewEvents[i].at : i \in DOMAIN reviewEvents}
    /\ \E old \in {"unreviewed"} \cup {reviewEvents[i].new : i \in DOMAIN reviewEvents} :
        /\ ReviewTransition(old, new)
        /\ reviewEvents' = Append(reviewEvents, NewReviewEvent(old, new, at))
    /\ reviewStatus' = new
    /\ UNCHANGED <<modelLabels, manual>>

\* The old status is read under the lock on the message row.
TransitionStatus(new, at) ==
    /\ at \notin {reviewEvents[i].at : i \in DOMAIN reviewEvents}
    /\ ReviewTransition(reviewStatus, new)
    /\ reviewStatus' = new
    /\ reviewEvents' = Append(reviewEvents, NewReviewEvent(reviewStatus, new, at))
    /\ UNCHANGED <<modelLabels, manual>>

\* A formal run or a reanalysis ends.  Its label versions were published when
\* its configuration was frozen.
CompleteAnalysis ==
    /\ modelLabels' \in ModelResults
    /\ modelLabels' # modelLabels
    /\ \A id \in Identity : modelLabels'[id] # None => versionState[id[2]] # "draft"
    /\ UNCHANGED <<manual, reviewStatus, reviewEvents>>

(* Namespaces: functions of Identity, None where there is no label. *)
EventsOf(id) == {e \in manual : e.id = id}
LatestEvent(id) == CHOOSE e \in EventsOf(id) : \A f \in EventsOf(id) : f.at <= e.at

ManualLabels ==
    [id \in Identity |-> IF EventsOf(id) = {} THEN None ELSE LatestEvent(id).value]

\* Fault: an event of any age overrides the model, a clear does not count.
EffectiveWithoutClear ==
    LET sets(id) == {e \in EventsOf(id) : e.value # None} IN
    [id \in Identity |->
        IF sets(id) = {} THEN modelLabels[id]
        ELSE (CHOOSE e \in sets(id) : \A f \in sets(id) : f.at <= e.at).value]

EffectiveLabels ==
    [id \in Identity |->
        IF ManualLabels[id] # None THEN ManualLabels[id] ELSE modelLabels[id]]

Namespace(ns) ==
    CASE ns = "model" -> modelLabels
      [] ns = "manual" -> ManualLabels
      [] ns = "effective" -> EffectiveLabels

LabelsOn(ns, target) == {id \in Identity : id[1] = target /\ Namespace(ns)[id] # None}

\* Two versions of one key on one target cannot be told apart by key.
Ambiguous ==
    \E ns \in Namespaces, target \in Targets :
        \E i, j \in LabelsOn(ns, target) : i # j /\ KeyOf[i[2]] = KeyOf[j[2]]

LabelsByKey(ns, target) ==
    [k \in {KeyOf[id[2]] : id \in LabelsOn(ns, target)} |->
        Namespace(ns)[CHOOSE id \in LabelsOn(ns, target) : KeyOf[id[2]] = k]]

\* An asset without labels has no entry.
NamespaceSnapshot(ns) ==
    [global |-> LabelsByKey(ns, MessageTarget),
     media |-> [a \in {b \in Assets : LabelsOn(ns, b) # {}} |-> LabelsByKey(ns, a)]]

(***************************************************************************)
(* Properties.                                                             *)
(***************************************************************************)
ReviewTypeOK ==
    /\ modelLabels \in [Identity -> LabelValues \cup {None}]
    /\ manual \subseteq ManualEvent
    /\ reviewStatus \in ReviewStatuses
    /\ reviewEvents \in Seq(ReviewEvent)

(* The review history is a chain: each event starts from the status the    *)
(* one committed before it left, and the last one left the message's       *)
(* current status, whoever reviewed concurrently                           *)
(* (transition_review_status).                                             *)
EventsChain ==
    LET left(i) == IF i = 0 THEN "unreviewed" ELSE reviewEvents[i].new IN
    /\ \A i \in DOMAIN reviewEvents : reviewEvents[i].old = left(i - 1)
    /\ reviewStatus = left(Len(reviewEvents))

=============================================================================
