SPECIFICATION Spec
CONSTANTS
    Creator = c
    Updates = {}
    Actions = {a1, a2}
    Reads = {r1}
    MaxRestarts = 1
    OneWriter = TRUE
SYMMETRY Alike
INVARIANTS
    ApprovalNeedsEvidence
CHECK_DEADLOCK FALSE
