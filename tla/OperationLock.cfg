SPECIFICATION LockFairSpec
CONSTANTS
    c1 = c1
    c2 = c2
    c3 = c3
    p1 = p1
    p2 = p2
    NoFile = NoFile
    Callers <- MCCallers
    Pids <- MCPids
    PidOf <- MCPidOf
INVARIANT ExclusionUnlessRobbed
PROPERTY OrphanLockRecovered
