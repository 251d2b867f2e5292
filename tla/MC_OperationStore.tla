------------------------- MODULE MC_OperationStore -------------------------
(* Instances of OperationStore for TLC. *)
EXTENDS OperationStore

CONSTANTS p1, p2, p3

MCThree == {p1, p2, p3}
=============================================================================
