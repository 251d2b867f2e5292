-------------------------- MODULE MC_ProductChoice --------------------------
\* Small instances of ProductChoice.  Submitters and controllers are
\* interchangeable: no action or property names one.
EXTENDS ProductChoice, TLC

Symmetry == Permutations(Humans) \cup Permutations(Procs)
=============================================================================
