---------------------- MODULE MC_OperationCancellation ----------------------
(* Instances of OperationCancellation for TLC. *)
EXTENDS OperationCancellation, TLC

Symmetry == Permutations(Servers) \cup Permutations(Cancellers)
=============================================================================
