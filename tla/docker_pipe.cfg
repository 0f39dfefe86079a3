SPECIFICATION FairSpec
CONSTANTS
    Profiles <- MCProfiles
    Cases <- Lingering
    MaxChecks = 4
    Limit = 2
PROPERTIES
    EndsByDeadline
CHECK_DEADLOCK FALSE
