---------------------------- MODULE MCReceiverStore ----------------------------
(* Small instances of ReceiverStore for TLC. *)
EXTENDS ReceiverStore, TLC

Symmetry == Permutations(Procs) \cup Permutations(Gens)
=============================================================================
