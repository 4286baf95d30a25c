---------------------------- MODULE MCMergeQueue ----------------------------
(* Instances of MergeQueue for TLC. *)
EXTENDS MergeQueue, TLC

Symmetry == Permutations(Clients) \cup Permutations(Loops)

=============================================================================
