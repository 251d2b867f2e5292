SPECIFICATION Spec
CONSTANTS
    launcher = launcher
    rival = rival
    worker = worker
    overseer = overseer
    planA = planA
    planB = planB
    None = None
    RootDeadline = TRUE
    Procs <- MCProcs
    Sessions <- MCSessions
    Supervisors <- MCSupervisors
    Digests <- MCDigests
    MaxEpoch = 2
    MaxExec = 3
CHECK_DEADLOCK FALSE
SYMMETRY MCSymmetry
INVARIANTS
    TokenLineage
    PolicyCurrent
    BindingsCurrent
PROPERTIES
    TerminalFinal
    IdentityAdvances
