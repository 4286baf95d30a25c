-------------------------- MODULE MCParallelLoops --------------------------
(* Instances of ParallelLoops for TLC. *)
EXTENDS ParallelLoops, TLC

Symmetry == Permutations(Loops) \cup Permutations(Mergers)

=============================================================================
