SPECIFICATION FairSpec
CONSTANTS
    Workers = {w1}
    Jobs = {j1, j2}
    Sources = {1, 2}
    MaxAttempts = 2
    MaxPasses = 1
    MaxClaims = 4
    MaxLosses = 1
    RenewalInTime = FALSE
    NoJob = NoJob
    NoSource = NoSource
INVARIANTS
    TypeOK
    SucceededMeansExtracted
    AttemptsAreBounded
PROPERTIES
    VerdictIsFinal
    ContractKept
    EveryJobSettles
CHECK_DEADLOCK FALSE
