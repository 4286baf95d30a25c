----------------------------- MODULE MCLoopLock -----------------------------
(* Instances of LoopLock for TLC. *)
EXTENDS LoopLock, TLC

Symmetry == Permutations(Procs)

=============================================================================
