------------------------------ MODULE MCMemoryCli ------------------------------
(* Small instances of MemoryCli for TLC. *)
EXTENDS MemoryCli, TLC

Symmetry == Permutations(Procs) \cup Permutations(Gens)
=============================================================================
