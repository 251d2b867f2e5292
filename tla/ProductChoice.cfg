SPECIFICATION Spec
CONSTANTS
    Procs = {p1, p2}
    Humans = {h1, h2}
    MaxRequests = 3
    None = None
SYMMETRY Symmetry
INVARIANTS TypeOK ReceiptBacked WorkUsesCurrentChoice AcceptedStands
PROPERTIES FreshConsent
CHECK_DEADLOCK FALSE
