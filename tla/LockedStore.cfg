SPECIFICATION LockedSpec
CONSTANTS
    c1 = c1
    c2 = c2
    p1 = p1
    p2 = p2
    NoFile = NoFile
    None = None
    Torn = Torn
    Callers <- MCCallers
    Procs <- MCCallers
    Pids <- MCPids
    PidOf <- MCPidOf
    MaxCommits = 2
    MaxFaults = 1
PROPERTY LockGivesStore
