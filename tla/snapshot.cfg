CONSTANTS
    Repos <- MCRepos
    Branches <- MCBranches
    Commits <- MCCommits
    RepoOf <- MCRepoOf
    Configurations <- MCConfigurations
    FileAt <- MCFileAt
    Empty = "empty"
    NoRepo = NoRepo
    NoBranch = NoBranch
    NoCommit = NoCommit
    NoConfiguration = NoConfiguration
    MaxChanges = 3
    Changes = {"push", "branch", "default", "rename", "delete", "create", "install"}
    Faults = {"key", "answer", "cancel"}
SPECIFICATION FairSpec
INVARIANTS
    RevisionOfIdentity
    CancelledByUser
PROPERTIES
    Finishes
    ConfigurationUnlessLost
