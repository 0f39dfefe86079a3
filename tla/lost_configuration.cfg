CONSTANTS
    Repos <- MCRepos
    Branches <- MCBranches
    Commits <- MCCommits
    RepoOf <- MCRepoOf
    Configurations <- MCConfigurations
    FileAt <- MCFileAt
    Empty = "empty"
    NoRepo = NoRepo
    NoBranch = NoBranch
    NoCommit = NoCommit
    NoConfiguration = NoConfiguration
    MaxChanges = 3
    Changes = {"delete", "install"}
    Faults = {}
SPECIFICATION Spec
INVARIANTS
    ConfigurationOfRevision
