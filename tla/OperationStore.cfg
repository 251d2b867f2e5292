SPECIFICATION FairSpec
CONSTANTS
    p1 = p1
    p2 = p2
    p3 = p3
    None = None
    Torn = Torn
    Procs <- MCThree
    MaxCommits = 4
    MaxFaults = 4
INVARIANTS
    LogExact
    TailIsPending
PROPERTIES
    CommitsAtomically
    OutboxDrains
