------------------------ MODULE ConfigurationVersions ------------------------
(***************************************************************************)
(* Versions of a configuration: drafts that are published and then         *)
(* archived, and the rows that hang below a version and may change while   *)
(* it is a draft only.  The repository has no service for them: what an    *)
(* administrator's transaction may do is said by the domain value          *)
(* (configuration/versions.py), the tables and the triggers of the         *)
(* migrations.  Label definitions, routing policies and rendering          *)
(* templates follow it here; rules are the rows below a policy version.    *)
(*                                                                         *)
(* An edit takes two steps.  The trigger of a statement reads the state of *)
(* the owning version without locking it; the changed rows show when the   *)
(* transaction commits.                                                    *)
(***************************************************************************)
EXTENDS Integers, FiniteSets

CONSTANTS
    Versions,       \* all versions of all configurations
    OwnerOf,        \* [Versions -> the configuration a version belongs to]
    KeyOf,          \* [Versions -> the key of a label version, else the version]
    InitialVersions,    \* [Versions -> VersionState]
    Policies,       \* the versions of routing policies
    RuleSets,       \* the sets of rules an administrator writes
    InitialRules,   \* [Policies -> RuleSets]
    Editors,        \* concurrent editing transactions
    NoEdit

VersionState == {"draft", "published", "archived"}

ASSUME VersionsAssumption ==
    /\ InitialVersions \in [Versions -> VersionState]
    /\ Policies \subseteq Versions
    /\ InitialRules \in [Policies -> RuleSets]

VARIABLES
    versionState,   \* state of each version
    rules,          \* the committed rules of each policy version
    edit            \* what each editing transaction is about to commit

configurationVars == <<versionState, rules, edit>>

\* One published version per configuration, and per label key.
Exclude(v, w) == v # w /\ (OwnerOf[v] = OwnerOf[w] \/ KeyOf[v] = KeyOf[w])

Edit == [policy : Policies, rules : RuleSets] \cup {NoEdit}

ConfigurationInit ==
    /\ versionState = InitialVersions
    /\ rules = InitialRules
    /\ edit = [e \in Editors |-> NoEdit]

Published(v) == versionState[v] = "published"

PublishVersion(v) ==
    /\ versionState[v] = "draft"
    /\ \A w \in Versions : Exclude(v, w) => ~Published(w)
    /\ versionState' = [versionState EXCEPT ![v] = "published"]
    /\ UNCHANGED <<rules, edit>>

\* Fault: the state the domain value names, which the tables do not know.
RetireAsDomainSays(v) ==
    /\ Published(v)
    /\ versionState' = [versionState EXCEPT ![v] = "retired"]
    /\ UNCHANGED <<rules, edit>>

RetireVersion(v) ==
    /\ Published(v)
    /\ versionState' = [versionState EXCEPT ![v] = "archived"]
    /\ UNCHANGED <<rules, edit>>

\* The trigger reads the owner's state when the statement runs.
BeginEdit(e, p) ==
    /\ edit[e] = NoEdit
    /\ versionState[p] = "draft"
    /\ \E rs \in RuleSets \ {rules[p]} :
        edit' = [edit EXCEPT ![e] = [policy |-> p, rules |-> rs]]
    /\ UNCHANGED <<versionState, rules>>

\* The rows of routing_rules and routing_actions, by their ids.
RuleRows(rs) ==
    {<<r.id>> : r \in rs} \cup
    UNION {{<<r.id, r.actions[i].id>> : i \in DOMAIN r.actions} : r \in rs}

\* used: the rows that evaluations and intents refer to, which foreign keys
\* keep from being deleted.  Two edits of one policy wait for each other's
\* row locks; the later one is the one that stays.
CommitEdit(e, used) ==
    /\ edit[e] # NoEdit
    /\ LET p == edit[e].policy IN
        /\ used[p] \subseteq RuleRows(edit[e].rules)
        /\ rules' = [rules EXCEPT ![p] = edit[e].rules]
    /\ edit' = [edit EXCEPT ![e] = NoEdit]
    /\ UNCHANGED versionState

RollBackEdit(e) ==
    /\ edit[e] # NoEdit
    /\ edit' = [edit EXCEPT ![e] = NoEdit]
    /\ UNCHANGED <<versionState, rules>>

=============================================================================
