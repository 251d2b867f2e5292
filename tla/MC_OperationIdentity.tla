------------------------ MODULE MC_OperationIdentity ------------------------
(* Instances of OperationIdentity for TLC. *)
EXTENDS OperationIdentity, TLC

CONSTANTS launcher, rival, worker, overseer, planA, planB

\* Two processes, either of which may launch, be the detached controller or
\* claim over the other; a participant and a supervisor session, whose binding
\* no claim drops; and two work graphs.
MCProcs == {launcher, rival}
MCSessions == {worker, overseer}
MCSupervisors == {overseer}
MCDigests == {planA, planB}
MCSymmetry == Permutations(MCProcs) \cup Permutations(MCDigests)
=============================================================================
