---------------------- MODULE MC_TerminalReconciliation ----------------------
EXTENDS TerminalReconciliation, TLC

\* Workspaces and reconciliations are interchangeable.
Symmetry == Permutations(Workspaces) \cup Permutations(Reconcilers)
==============================================================================
