-------------------------- MODULE RangeRefinement --------------------------
(* RangeProcessing implements ContinuousProgress. *)
EXTENDS RangeProcessing

Promise == INSTANCE ContinuousProgress WITH
    NoWindow <- NoMessage,
    frontier <- [r \in Ranges |-> range[r].watermark],
    window <- [r \in Ranges |-> range[r].high],
    over <- {r \in Ranges : range[r].status \in Terminal}

\* Every scheduler, worker, broker and crash step of RangeProcessing is a step
\* the promise allows, or changes nothing the promise speaks about.
KeepsPromise == Promise!Spec

=============================================================================
