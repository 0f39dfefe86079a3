SPECIFICATION FairSpec
CONSTANTS
    Profiles <- MCProfiles
    Cases <- MCCases
    MaxChecks = 4
    Limit = 2
INVARIANTS
    TypeOK
    ReportComplete
    PassedForCause
    OwnLineOnly
    NothingLeft
    DiagnosedStore
    PolicyStands
PROPERTIES
    EndsByDeadline
    EndsWhenServed
