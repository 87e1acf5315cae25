SPECIFICATION Spec
CONSTANTS
    Creator = c
    Updates = {u1, u2, u3}
    Actions = {}
    Reads = {r1}
    MaxRestarts = 0
    OneWriter = FALSE
SYMMETRY Alike
INVARIANTS
    AcknowledgedEditsAreStored
CHECK_DEADLOCK FALSE
