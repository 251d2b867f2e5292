SPECIFICATION Spec
CONSTANTS
    Workspaces = {w1}
    Pids = {}
    Reconcilers = {}
    MaxRuns = 2
    MaxFaults = 1
    MaxReuse = 0
    None = None
CHECK_DEADLOCK FALSE
INVARIANT WorkspaceRecoverable
