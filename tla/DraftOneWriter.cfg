SPECIFICATION Spec
CONSTANTS
    Creator = c
    Updates = {u1, u2}
    Actions = {a1, a2, a3}
    Reads = {r1}
    MaxRestarts = 1
    OneWriter = TRUE
SYMMETRY Alike
INVARIANTS
    TypeOK
    AcknowledgedEditsAreStored
    MemoryAgreesWithRow
    ApprovalNeedsEvidenceInOneLife
PROPERTIES
    StoredStatusAdvances
CHECK_DEADLOCK FALSE
