---------------------------- MODULE MCMediaArchive ----------------------------
(* Instances of MediaArchive for TLC. *)
EXTENDS MediaArchive, TLC

CONSTANT video

\* A video that yields two objects and, once it has been replaced, a single one,
\* as an image does.
ShorterReplacement == video :> <<2, 1>>

Symmetry == Permutations(Workers) \cup Permutations(Schedulers)

=============================================================================
