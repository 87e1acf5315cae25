SPECIFICATION FairSpec
CONSTANTS
    Builds = {b1, b2}
    Confirms = {c1}
    Saves = {p1, p2}
    Keys = {k1, k2, k3}
    RefreshKeys = {k3}
    Sources = {s1}
    Fields = {LegalName, tax}
    LegalName = LegalName
    Values = {a, b}
    SingleApi = TRUE
    Missing = Missing
    NoKey = NoKey
    NoOne = NoOne
INVARIANTS
    TypeOK
    CompanyNameIsCurrent
    ConfirmationsBuildOnWhatWasSeen
    OneVersionPerKey
    AcceptedIsNoNewer
PROPERTIES
    EveryTransactionEnds
CHECK_DEADLOCK FALSE
