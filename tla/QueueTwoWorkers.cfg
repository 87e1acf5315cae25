SPECIFICATION Spec
CONSTANTS
    Workers = {w1, w2}
    Jobs = {j1, j2}
    Sources = {1}
    MaxAttempts = 2
    MaxPasses = 1
    MaxClaims = 3
    MaxLosses = 1
    RenewalInTime = FALSE
    NoJob = NoJob
    NoSource = NoSource
SYMMETRY Alike
INVARIANTS
    TokensAreUnique
    DeadLetterIsEarned
    ExtractedHasCandidates
    OrphanLeaseMeansLoss
CHECK_DEADLOCK FALSE
