SPECIFICATION Spec
CONSTANTS
    Requests = {r1, r2, r3}
    Scopes = {k1, k2}
    Hashes = {h1, h2}
    Capacity = 2
    MaxRestarts = 1
    NoRequest = NoRequest
    NoScope = NoScope
    NoHash = NoHash
SYMMETRY Alike
INVARIANTS
    KeyCommitsOnce
CHECK_DEADLOCK FALSE
