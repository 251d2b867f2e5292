CONSTANTS
    Pids = {p1, p2}
    Controller = p1
    Cancellers = {c1, c2}
    Servers = {s1, s2}
    Leases = {l1}
    MaxEpoch = 3
    MaxSpawns = 1
    MaxFaults = 1
    None = None
SPECIFICATION Spec
SYMMETRY Symmetry
CHECK_DEADLOCK FALSE
INVARIANTS WritersStopped EvidenceKept DisplacedStops
PROPERTY StaysCancellable
