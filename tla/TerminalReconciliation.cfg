SPECIFICATION FairSpec
CONSTANTS
    Workspaces = {w1}
    Pids = {p1}
    Reconcilers = {r1, r2}
    MaxRuns = 2
    MaxFaults = 1
    MaxReuse = 1
    None = None
CHECK_DEADLOCK FALSE
INVARIANTS TypeOK WorkspaceTraced CompleteMeansGone FencedRecovery
PROPERTY CleanupCompletes
