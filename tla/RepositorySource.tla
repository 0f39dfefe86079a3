-------------------------- MODULE RepositorySource --------------------------
(***************************************************************************)
(* RepositorySource.Snapshot of the GitHub connector.  The material of a    *)
(* task is put together from the answers to five requests, and between any  *)
(* two of them the repository may be pushed to, get another default branch, *)
(* be renamed, deleted, created anew under the same name or be taken out of *)
(* the App's installation.  A request may also fail, hang or be cancelled.  *)
(***************************************************************************)
EXTENDS Naturals

CONSTANTS
    Repos,          \* repository ids the configured owner/name can come to mean
    Branches,
    Commits,
    RepoOf,         \* the repository each commit belongs to
    Configurations, \* decoded repository configurations
    Empty,          \* emptyRepositoryConfiguration()
    FileAt,         \* what .delegatd.yaml is in each commit
    Changes,        \* what may happen to the repository during the snapshot
    MaxChanges,     \* bound: changes of the repository during one snapshot
    Faults,         \* what may go wrong with the command
    NoRepo, NoBranch, NoCommit, NoConfiguration

ChangeKinds == {"push", "branch", "default", "rename", "delete", "create", "install"}

FaultKinds == {"key", "answer", "cancel"}

ASSUME SourceAssumption ==
    /\ RepoOf \in [Commits -> Repos]
    /\ Empty \in Configurations
    /\ FileAt \in [Commits -> Configurations \cup {"missing", "malformed"}]
    /\ {"missing", "malformed"} \cap Configurations = {}
    /\ Changes \subseteq ChangeKinds
    /\ MaxChanges \in Nat
    /\ Faults \subseteq FaultKinds
    /\ NoRepo \notin Repos
    /\ NoBranch \notin Branches
    /\ NoCommit \notin Commits
    /\ NoConfiguration \notin Configurations

VARIABLES
    named,          \* the repository that owner/name means, or NoRepo
    moved,          \* it has been renamed: owner/name only redirects to it
    installed,      \* the installation covers it
    default,        \* its default branch
    tip,            \* the head of each branch of each repository
    changes,        \* how often the repository has changed
    pc,             \* the next request
    cancelled,      \* the command's context is done
    scope,          \* the repositories the installation token gives access to
    identity, branch, revision, configuration,  \* what has been read so far
    reason          \* the safe reason of a failure

upstream == <<named, moved, installed, default, tip, changes>>
read == <<scope, identity, branch, revision, configuration>>
vars == <<upstream, pc, cancelled, read, reason>>

Requests == {"installation", "token", "repository", "commits", "contents"}

Reasons == {"", "task cancelled", "private key", "repository is not installed",
            "repository is unavailable", "repository configuration is invalid"}

TypeOK ==
    /\ named \in Repos \cup {NoRepo}
    /\ moved \in BOOLEAN
    /\ installed \in BOOLEAN
    /\ default \in Branches
    /\ tip \in [Repos -> [Branches -> Commits \cup {NoCommit}]]
    /\ changes \in 0..MaxChanges
    /\ pc \in {"start", "done", "failed"} \cup Requests
    /\ cancelled \in BOOLEAN
    /\ scope \in SUBSET Repos
    /\ identity \in Repos \cup {NoRepo}
    /\ branch \in Branches \cup {NoBranch}
    /\ revision \in Commits \cup {NoCommit}
    /\ configuration \in Configurations \cup {NoConfiguration}
    /\ reason \in Reasons

CommitsOf(r) == {c \in Commits : RepoOf[c] = r}

Init ==
    /\ named \in Repos
    /\ moved = FALSE
    /\ installed \in BOOLEAN
    /\ default \in Branches
    /\ tip \in [Repos -> [Branches -> Commits]]
    /\ \A r \in Repos, b \in Branches : tip[r][b] \in CommitsOf(r)
    /\ changes = 0
    /\ pc = "start"
    /\ cancelled = FALSE
    /\ scope = {}
    /\ identity = NoRepo
    /\ branch = NoBranch
    /\ revision = NoCommit
    /\ configuration = NoConfiguration
    /\ reason = ""

-----------------------------------------------------------------------------
(* The repository changes.                                                  *)

Change(kind) ==
    /\ kind \in Changes
    /\ changes < MaxChanges
    /\ changes' = changes + 1
    /\ UNCHANGED <<pc, cancelled, read, reason>>

(* A push, also a forced one.                                               *)
Push(b, c) ==
    /\ Change("push")
    /\ named = RepoOf[c]
    /\ tip' = [tip EXCEPT ![named][b] = c]
    /\ UNCHANGED <<named, moved, installed, default>>

DeleteBranch(b) ==
    /\ Change("branch")
    /\ named # NoRepo
    /\ b # default
    /\ tip' = [tip EXCEPT ![named][b] = NoCommit]
    /\ UNCHANGED <<named, moved, installed, default>>

SetDefault(b) ==
    /\ Change("default")
    /\ named # NoRepo
    /\ tip[named][b] # NoCommit
    /\ default' = b
    /\ UNCHANGED <<named, moved, installed, tip>>

Rename ==
    /\ Change("rename")
    /\ named # NoRepo
    /\ moved' = ~moved
    /\ UNCHANGED <<named, installed, default, tip>>

Delete ==
    /\ Change("delete")
    /\ named' = NoRepo
    /\ moved' = FALSE
    /\ UNCHANGED <<installed, default, tip>>

(* Another repository takes the name.                                       *)
Create(r) ==
    /\ Change("create")
    /\ named = NoRepo \/ moved
    /\ r # named
    /\ \A b \in Branches : tip[r][b] # NoCommit
    /\ named' = r
    /\ moved' = FALSE
    /\ UNCHANGED <<installed, default, tip>>

(* The repository is taken out of, or put into, the installation.           *)
Install ==
    /\ Change("install")
    /\ installed' = ~installed
    /\ UNCHANGED <<named, moved, default, tip>>

RepositoryChanges ==
    \/ \E b \in Branches : DeleteBranch(b) \/ SetDefault(b)
    \/ \E b \in Branches, c \in Commits : Push(b, c)
    \/ \E r \in Repos : Create(r)
    \/ Rename \/ Delete \/ Install

-----------------------------------------------------------------------------
(* GitHub's answer to a request below /repos/owner/name: a redirect is an   *)
(* answer of its own, and what a credential may not see does not exist.     *)
Status(visible) ==
    IF moved THEN 301
    ELSE IF named \in visible /\ installed THEN 200 ELSE 404

Fail(r) ==
    /\ pc' = "failed"
    /\ reason' = r
    /\ UNCHANGED <<upstream, cancelled, read>>

(* Seeded fault: the error of the derived context is taken for the user's.  *)
MapErrorOfChild(timedOut) ==
    IF cancelled \/ timedOut THEN "task cancelled" ELSE "repository is unavailable"

(* mapError: only the command's own context means that it was cancelled.    *)
MapError(timedOut) ==
    IF cancelled THEN "task cancelled" ELSE "repository is unavailable"

(* A request that is answered; the context was not done until then.         *)
Answered(request) == pc = request /\ ~cancelled

Continue(next) == pc' = next /\ UNCHANGED <<upstream, cancelled, reason>>

(* Snapshot before the first request: the context, loadPrivateKey, appJWT.  *)
LoadKey ==
    /\ pc = "start"
    /\ \/ cancelled /\ Fail("task cancelled")
       \/ ~cancelled /\ "key" \in Faults /\ Fail("private key")
       \/ ~cancelled /\ Continue("installation") /\ UNCHANGED read

(* GET /repos/owner/name/installation with the App's JWT.                   *)
Installation ==
    /\ Answered("installation")
    /\ \/ Status(Repos) = 200 /\ Continue("token") /\ UNCHANGED read
       \/ Status(Repos) = 404 /\ Fail("repository is not installed")
       \/ Status(Repos) = 301 /\ Fail("repository is unavailable")

(* Seeded fault: the token is not restricted to the one repository.         *)
TokenScopeOfInstallation == Repos

(* The token is requested for the repository that has the name just now.    *)
TokenScope == {named}

(* POST .../access_tokens: GitHub refuses a name the installation does not  *)
(* cover; expired and over-scoped tokens are refused by Snapshot.           *)
Token ==
    /\ Answered("token")
    /\ \/ /\ Status(Repos) = 200
          /\ scope' = TokenScope
          /\ Continue("repository")
          /\ UNCHANGED <<identity, branch, revision, configuration>>
       \/ Status(Repos) # 200 /\ Fail("repository is unavailable")

(* GET /repos/owner/name: id, full_name and default branch.                 *)
Repository ==
    /\ Answered("repository")
    /\ \/ /\ Status(scope) = 200
          /\ identity' = named
          /\ branch' = default
          /\ Continue("commits")
          /\ UNCHANGED <<scope, revision, configuration>>
       \/ Status(scope) # 200 /\ Fail("repository is unavailable")

(* GET .../commits?sha=<default branch>&per_page=1.                         *)
LatestCommit ==
    /\ Answered("commits")
    /\ \/ /\ Status(scope) = 200
          /\ tip[named][branch] # NoCommit
          /\ revision' = tip[named][branch]
          /\ Continue("contents")
          /\ UNCHANGED <<scope, identity, branch, configuration>>
       \/ /\ Status(scope) = 200 => tip[named][branch] = NoCommit
          /\ Fail("repository is unavailable")

(* Seeded fault: the file is read at the branch instead of the commit.      *)
ContentsRefOfBranch ==
    IF tip[named][branch] = NoCommit THEN revision ELSE tip[named][branch]

(* GET .../contents/.delegatd.yaml?ref=<commit>: the commit that is read.   *)
ContentsRef == revision

(* DecodeRepository accepts the file of commit c.                           *)
Decodes(c) == FileAt[c] \in Configurations

(* A file that is not there selects the empty profile, and so does every    *)
(* other 404.                                                               *)
Contents ==
    /\ Answered("contents")
    /\ \/ /\ \/ Status(scope) = 404
             \/ Status(scope) = 200 /\ FileAt[ContentsRef] = "missing"
          /\ configuration' = Empty
          /\ Continue("done")
          /\ UNCHANGED <<scope, identity, branch, revision>>
       \/ /\ Status(scope) = 200
          /\ Decodes(ContentsRef)
          /\ configuration' = FileAt[ContentsRef]
          /\ Continue("done")
          /\ UNCHANGED <<scope, identity, branch, revision>>
       \/ /\ Status(scope) = 200
          /\ FileAt[ContentsRef] # "missing"
          /\ ~Decodes(ContentsRef)
          /\ Fail("repository configuration is invalid")
       \/ Status(scope) = 301 /\ Fail("repository is unavailable")

(* A lost connection, an answer that is too large, malformed or of another  *)
(* status; a configuration that is too large has a reason of its own.       *)
RequestFails ==
    /\ "answer" \in Faults
    /\ pc \in Requests
    /\ \/ Fail(MapError(FALSE))
       \/ pc = "contents" /\ ~cancelled /\ Fail("repository configuration is invalid")

(* Seeded fault: neither the client nor the context has a time limit.       *)
TimeOutNever == pc \in Requests /\ cancelled /\ Fail(MapError(TRUE))

(* The ten seconds of a request or the thirty of the snapshot are over.     *)
TimeOut == pc \in Requests /\ Fail(MapError(TRUE))

(* A request of a done context fails.                                       *)
Interrupted == pc \in Requests /\ cancelled /\ Fail(MapError(FALSE))

(* SIGINT or SIGTERM.                                                       *)
Cancel ==
    /\ "cancel" \in Faults
    /\ pc \notin {"done", "failed"}
    /\ ~cancelled
    /\ cancelled' = TRUE
    /\ UNCHANGED <<upstream, pc, read, reason>>

Snapshot ==
    \/ LoadKey \/ Installation \/ Token \/ Repository \/ LatestCommit \/ Contents
    \/ RequestFails \/ TimeOut \/ Interrupted

Finished == pc \in {"done", "failed"} /\ UNCHANGED vars

Next == Snapshot \/ Cancel \/ RepositoryChanges \/ Finished

Spec == Init /\ [][Next]_vars

(* GitHub need not answer; the process runs and its timers fire.            *)
FairSpec == Spec /\ WF_vars(LoadKey \/ TimeOut \/ Interrupted)

-----------------------------------------------------------------------------
(* The identity a resource is bound to and the revision of the task are of  *)
(* one repository, even if another one takes the name between two requests. *)
RevisionOfIdentity == pc = "done" => RepoOf[revision] = identity

(* What DecodeRepository or a missing file makes of a commit's file.        *)
Profile(c) == IF FileAt[c] = "missing" THEN Empty ELSE FileAt[c]

(* ".delegatd.yaml content is read at the pinned default-branch revision; a *)
(* missing file selects the empty version-one repository profile": the      *)
(* configuration of a snapshot is the one in its revision, whatever is      *)
(* pushed meanwhile.                                                        *)
ConfigurationOfRevision == pc = "done" => configuration = Profile(revision)

(* The only other answer is the empty profile, given when the repository    *)
(* cannot be read at the moment its file is asked for.                      *)
ConfigurationUnlessLost ==
    [][pc # "done" /\ pc' = "done" =>
         \/ configuration' = Profile(revision)
         \/ configuration' = Empty /\ ~(named \in scope /\ installed)]_vars

(* A failure is blamed on the user only if the user cancelled, not when a   *)
(* time limit of the connector has ended the derived context.               *)
CancelledByUser == reason = "task cancelled" => cancelled

(* Snapshot returns although GitHub may never answer a request.             *)
Finishes == <>(pc \in {"done", "failed"})
=============================================================================
