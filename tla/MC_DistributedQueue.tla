------------------------ MODULE MC_DistributedQueue ------------------------
EXTENDS DistributedQueue, TLC

\* Workers and jobs are interchangeable: no definition names one of them.
Symmetry == Permutations(Workers) \cup Permutations(Jobs)
=============================================================================
