------------------------- MODULE MCRepositorySource -------------------------
(* Two repositories that can bear the configured name, two branches; the    *)
(* commits of the first have a file, none, another and a malformed one.     *)
EXTENDS RepositorySource, TLC

MCRepos == {101, 102}
MCBranches == {"main", "dev"}
MCCommits == {"a1", "a2", "a3", "b1"}
MCRepoOf == "a1" :> 101 @@ "a2" :> 101 @@ "a3" :> 101 @@ "b1" :> 102
MCConfigurations == {"empty", "strict", "other"}
MCFileAt == "a1" :> "strict" @@ "a2" :> "missing" @@ "a3" :> "malformed" @@ "b1" :> "other"
=============================================================================
