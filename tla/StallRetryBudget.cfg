CONSTANTS
    Drives = {d1, d2}
    Cap = 2
    StallRetries = 1
    HintRetries = 1
    MaxCrashes = 2
    MaxClean = 1
    None = None
SPECIFICATION Spec
SYMMETRY Symmetry
INVARIANTS TypeOK OrphanCountedOnce OneLiveAttempt NoFreeAttempt OvershootBounded
