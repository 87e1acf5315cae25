SPECIFICATION Spec
CONSTANTS
    policy = policy
    document = document
    size = size
    sector = sector
    large = large
    url = url
    Policies = {policy}
    Documents = {document}
    Versions = {1, 2}
    Fields = {size, sector}
    Values = {large}
    Rules <- TheRules
    Items <- TheItems
    Source <- TheSource
    NoURL = NoURL
    Matches = {m1}
    Readers = {r1}
    Admins = {a1}
    MaxFacts = 2
    MaxChecklists = 1
    Missing = Missing
    NoOne = NoOne
INVARIANTS
    TypeOK
    UnreviewedOnlyByAdministration
    MatchedWasPublished
    ShownDocumentsAreUsable
    VerdictsRestOnTheirVersion
    
    ChecklistsWerePublished
CHECK_DEADLOCK FALSE
