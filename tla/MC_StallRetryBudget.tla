------------------------ MODULE MC_StallRetryBudget ------------------------
EXTENDS StallRetryBudget, TLC

\* Drives are interchangeable: no definition names one of them.
Symmetry == Permutations(Drives)
=============================================================================
