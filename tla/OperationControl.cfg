CONSTANTS
    Controllers = {1, 2}
    Sessions = {1, 2}
    Roles = {r1}
    Actors = {a1}
    Calls = {1, 2}
    MaxEpoch = 3
    MaxExec = 2
    MaxFaults = 1
    Canceller = Canceller
    None = None
SPECIFICATION Spec
CHECK_DEADLOCK FALSE
INVARIANTS TypeOK PauseDrained OneWriter PausedCanResume
PROPERTY AppliedAsDecided
