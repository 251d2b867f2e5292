-------------------------- MODULE MC_OperationControl --------------------------
(* Values for TLC are in OperationControl.cfg.  People are never compared but for equality. *)
EXTENDS OperationControl
=============================================================================
