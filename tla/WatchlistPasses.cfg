SPECIFICATION FairSpec
CONSTANTS
    Principals = {p}
    Extra = {w}
    Requests = {r1}
    NoOne = NoOne
    Watched = {w}
    Crawlers = {c1, c2}
    Policies = {k}
    Facts = {f}
    Choices <- Pairs
    Replaced <- NotYet
    Versions <- TwoVersions
    Days = 1
    Week = 1
    MaxVersions = 2
    MaxFaults = 1
    MaxStale = 1
INVARIANTS
    TypeOK
    OneAlertPerCrawler
    NothingOutlivesItsWorkspace
    OrphansComeFromFailures
PROPERTIES
    DueIsAnnounced
CHECK_DEADLOCK FALSE
