------------------------- MODULE MCRangeProcessing -------------------------
(* Instances of RangeProcessing for TLC. *)
EXTENDS RangeRefinement, TLC

CONSTANTS fixedRange, latestRange

LatestOnly == latestRange :> "latest"
LatestStart == latestRange :> 1
LatestEnd == latestRange :> 0

FixedOnly == fixedRange :> "fixed"
FixedStart == fixedRange :> 1
FixedOnlyEnd == fixedRange :> 1

Symmetry == Permutations(Entities) \cup Permutations(Schedulers) \cup Permutations(Workers)

=============================================================================
