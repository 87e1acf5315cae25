SPECIFICATION FairSpec
CONSTANTS
    Requests = {r1, r2, r3}
    Scopes = {k1, k2}
    Hashes = {h1, h2}
    Capacity = 1
    MaxRestarts = 1
    NoRequest = NoRequest
    NoScope = NoScope
    NoHash = NoHash
INVARIANTS
    TypeOK
    RunningIsRegistered
    NoStrandedWaiter
    ReplaysAreFaithful
    KeyCommitsOnceInOneLife
    CapacityRespected
PROPERTIES
    EveryRequestAnswered
CHECK_DEADLOCK FALSE
