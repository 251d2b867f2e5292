CONSTANTS
    Jobs = {j1}
    Workers = {w1, w2}
    MaxLeases = 3
    None = None
SPECIFICATION Spec
SYMMETRY Symmetry
INVARIANTS RunsBoundOnce AcceptedWasRun JobVisible
