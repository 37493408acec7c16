-------------------------- MODULE MCAnalysisStages --------------------------
(* Instances of AnalysisStages for TLC. *)
EXTENDS AnalysisStages, TLC

CONSTANTS text, image, tested, formal, test, message, key, asset, other, ad, ugc

\* Two stages of one run, without a cache or with the same semantic key, as two
\* nodes of a pipeline with one stage version and one target have it.
OneRun == [e \in Entities |-> formal]
Uncached == [e \in Entities |-> None]

Cached == [e \in Entities |-> key]

\* One stage in a formal run and the same stage in a test run.
TwoRuns == text :> formal @@ tested :> test

SameMessage == [r \in Runs |-> message]

\* One target; labels of which ad is negative and active from one half on.
SameTarget == [e \in Entities |-> asset]
OneHalf == [l \in LabelKeys |-> 1]

\* A batch with lists of matches, and a single target with a mapping of scores.
SparseBatch == [e \in Entities |-> [batch |-> TRUE, dense |-> FALSE]]
DenseSingle == [e \in Entities |-> [batch |-> FALSE, dense |-> TRUE]]

Match(l, n) == [label |-> l, score |-> n]
Item(t, scores) == [target |-> t, fields |-> TRUE, scores |-> scores]
Payload(envelope, items) == [envelope |-> envelope, items |-> items]

Clean == <<Match(ugc, 2)>>
Negative == <<Match(ad, 1)>>

\* For the target a result without and with the negative label, the latter next to
\* a result nobody asked for; both at once; another target only.
BatchResponses ==
    {Payload("results", <<Item(asset, Clean)>>),
     Payload("results", <<Item(other, Clean), Item(asset, Negative)>>),
     Payload("results", <<Item(asset, Clean), Item(asset, Negative)>>),
     Payload("results", <<Item(other, Negative)>>)}

\* The negative label below and at its threshold; a score that is missing and one
\* that is out of range; no result at all.
SingleResponses ==
    {Payload("result", <<Item(NoTarget, <<Match(ad, 0), Match(ugc, 2)>>)>>),
     Payload("result", <<Item(NoTarget, <<Match(ad, 1), Match(ugc, 2)>>)>>),
     Payload("result", <<Item(NoTarget, Negative)>>),
     Payload("result", <<Item(NoTarget, <<Match(ad, 3), Match(ugc, 0)>>)>>),
     Payload("other", <<>>)}

\* The task's last transaction is not among the points where its process dies.
BeforeCommit == TaskPoints \ {"gate", "finish"}

\* A first claim and one takeover, for one of the stages or for none.
OneRetry == [e \in Entities |-> IF e = text THEN 2 ELSE 1]
NoRetry == [e \in Entities |-> 1]

Symmetry == Permutations(Workers)

=============================================================================
