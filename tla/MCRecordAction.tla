----------------------------- MODULE MCRecordAction -----------------------------
(* Three attempts about two operations for TLC; neither has an order. *)
EXTENDS RecordAction, TLC

Symmetry == Permutations(Attempts) \cup Permutations(Operations)
=============================================================================
