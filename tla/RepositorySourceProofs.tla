----------------------- MODULE RepositorySourceProofs -----------------------
(* What a snapshot is a snapshot of, for any repositories, branches,        *)
(* commits and any number of changes while it is taken.                     *)
EXTENDS RepositorySource, TLAPS

(* Every branch of a repository points to a commit of that repository.      *)
TipsOwn ==
    \A r \in Repos, b \in Branches :
        tip[r][b] # NoCommit => RepoOf[tip[r][b]] = r

(* The token is for one repository; what has been read is of that one.      *)
ReadFromOne ==
    /\ pc \in {"repository", "commits", "contents", "done"} =>
         \E r \in Repos : scope = {r}
    /\ pc \in {"commits", "contents", "done"} =>
         identity \in Repos /\ scope = {identity} /\ branch \in Branches
    /\ pc \in {"contents", "done"} =>
         revision \in Commits /\ RepoOf[revision] = identity

Inv == TypeOK /\ TipsOwn /\ ReadFromOne

-----------------------------------------------------------------------------
(* The inductive invariant holds when Snapshot is called.                   *)
LEMMA InitInv == Init => Inv
<1> SUFFICES ASSUME Init PROVE Inv
  OBVIOUS
<1>1. \A r \in Repos : tip[r] \in [Branches -> Commits \cup {NoCommit}]
  BY DEF Init
<1>2. tip \in [Repos -> [Branches -> Commits \cup {NoCommit}]]
  BY <1>1 DEF Init
<1>3. TypeOK
  <2>1. changes \in 0..MaxChanges
    <3>1. changes = 0 /\ MaxChanges \in Nat
      BY SourceAssumption DEF Init
    <3> QED
      BY <3>1
  <2>2. /\ named \in Repos \cup {NoRepo}
        /\ moved \in BOOLEAN
        /\ installed \in BOOLEAN
        /\ default \in Branches
        /\ scope \in SUBSET Repos
    BY DEF Init
  <2>3. /\ pc \in {"start", "done", "failed"} \cup Requests
        /\ cancelled \in BOOLEAN
        /\ identity \in Repos \cup {NoRepo}
        /\ branch \in Branches \cup {NoBranch}
        /\ revision \in Commits \cup {NoCommit}
        /\ configuration \in Configurations \cup {NoConfiguration}
        /\ reason \in Reasons
    BY DEF Init, Requests, Reasons
  <2> QED
    BY <1>2, <2>1, <2>2, <2>3 DEF TypeOK
<1>4. TipsOwn
  BY DEF Init, TipsOwn, CommitsOf
<1>5. ReadFromOne
  BY DEF Init, ReadFromOne
<1> QED
  BY <1>3, <1>4, <1>5 DEF Inv

(* A step that ends the snapshot.                                           *)
LEMMA FailInv ==
    ASSUME Inv, NEW r \in Reasons, Fail(r)
    PROVE  Inv'
BY DEF Inv, TypeOK, TipsOwn, ReadFromOne, Fail, upstream, read, Requests

(* Every reason mapError gives is one of the safe ones.                     *)
LEMMA MapErrorType == \A timedOut : MapError(timedOut) \in Reasons
BY DEF MapError, Reasons

(* A change of the repository: nothing that has been read changes.          *)
LEMMA ChangeInv ==
    ASSUME Inv, RepositoryChanges
    PROVE  Inv'
<1> USE SourceAssumption DEF Inv, upstream, read, Change
<1>1. ASSUME NEW b \in Branches, DeleteBranch(b) PROVE Inv'
  <2>1. named \in Repos
    BY <1>1 DEF DeleteBranch, TypeOK
  <2>2. tip' = [tip EXCEPT ![named] = [tip[named] EXCEPT ![b] = NoCommit]]
    BY <1>1, <2>1 DEF DeleteBranch, TypeOK
  <2>3. \A r \in Repos : tip'[r] = IF r = named THEN [tip[r] EXCEPT ![b] = NoCommit] ELSE tip[r]
    BY <2>1, <2>2 DEF TypeOK
  <2>4. tip' \in [Repos -> [Branches -> Commits \cup {NoCommit}]]
    BY <2>1, <2>2 DEF TypeOK
  <2>5. TypeOK'
    BY <1>1, <2>4 DEF DeleteBranch, TypeOK
  <2>6. TipsOwn'
    BY <1>1, <2>1, <2>3 DEF DeleteBranch, TypeOK, TipsOwn
  <2> QED
    BY <1>1, <2>5, <2>6 DEF DeleteBranch, ReadFromOne
<1>2. ASSUME NEW b \in Branches, SetDefault(b) PROVE Inv'
  BY <1>2 DEF SetDefault, TypeOK, TipsOwn, ReadFromOne
<1>3. ASSUME NEW b \in Branches, NEW c \in Commits, Push(b, c) PROVE Inv'
  <2>1. named \in Repos
    BY <1>3 DEF Push, TypeOK
  <2>2. tip' = [tip EXCEPT ![named] = [tip[named] EXCEPT ![b] = c]]
    BY <1>3, <2>1 DEF Push, TypeOK
  <2>3. \A r \in Repos : tip'[r] = IF r = named THEN [tip[r] EXCEPT ![b] = c] ELSE tip[r]
    BY <2>1, <2>2 DEF TypeOK
  <2>4. tip' \in [Repos -> [Branches -> Commits \cup {NoCommit}]]
    BY <2>1, <2>2 DEF TypeOK
  <2>5. TypeOK'
    BY <1>3, <2>4 DEF Push, TypeOK
  <2>6. TipsOwn'
    BY <1>3, <2>1, <2>3 DEF Push, TypeOK, TipsOwn
  <2> QED
    BY <1>3, <2>5, <2>6 DEF Push, ReadFromOne
<1>4. ASSUME NEW r \in Repos, Create(r) PROVE Inv'
  <2>1. named' \in Repos \cup {NoRepo} /\ moved' \in BOOLEAN
    BY <1>4, Zenon DEF Create
  <2>2. changes' \in 0..MaxChanges
    BY <1>4 DEF Create, TypeOK
  <2>3. UNCHANGED <<installed, default, tip, pc, cancelled, read, reason>>
    BY <1>4 DEF Create
  <2>4. TypeOK'
    BY <2>1, <2>2, <2>3 DEF TypeOK
  <2> QED
    BY <2>3, <2>4 DEF TypeOK, TipsOwn, ReadFromOne
<1>5. CASE Rename
  <2>1. moved' \in BOOLEAN
    BY <1>5, Zenon DEF Rename
  <2>2. changes' \in 0..MaxChanges
    BY <1>5 DEF Rename, TypeOK
  <2>3. TypeOK'
    BY <1>5, <2>1, <2>2 DEF Rename, TypeOK
  <2> QED
    BY <1>5, <2>3 DEF Rename, TypeOK, TipsOwn, ReadFromOne
<1>6. CASE Delete
  <2>1. named' \in Repos \cup {NoRepo} /\ moved' \in BOOLEAN
    BY <1>6, Zenon DEF Delete
  <2>2. changes' \in 0..MaxChanges
    BY <1>6 DEF Delete, TypeOK
  <2>3. UNCHANGED <<installed, default, tip, pc, cancelled, read, reason>>
    BY <1>6 DEF Delete
  <2>4. TypeOK'
    BY <2>1, <2>2, <2>3 DEF TypeOK
  <2> QED
    BY <2>3, <2>4 DEF TypeOK, TipsOwn, ReadFromOne
<1>7. CASE Install
  <2>1. installed' \in BOOLEAN
    BY <1>7, Zenon DEF Install
  <2>2. changes' \in 0..MaxChanges
    BY <1>7 DEF Install, TypeOK
  <2>3. TypeOK'
    BY <1>7, <2>1, <2>2 DEF Install, TypeOK
  <2> QED
    BY <1>7, <2>3 DEF Install, TypeOK, TipsOwn, ReadFromOne
<1> QED
  BY <1>1, <1>2, <1>3, <1>4, <1>5, <1>6, <1>7 DEF RepositoryChanges

(* A request or its failure: each answer is of the token's repository.      *)
LEMMA SnapshotInv ==
    ASSUME Inv, Snapshot
    PROVE  Inv'
<1> USE SourceAssumption DEF Inv, Continue, upstream, read, Requests
<1>1. CASE LoadKey
  <2>1. CASE \E r \in Reasons : Fail(r)
    BY <2>1, FailInv
  <2>2. CASE Continue("installation") /\ UNCHANGED read
    BY <2>2 DEF TypeOK, TipsOwn, ReadFromOne
  <2> QED
    BY <1>1, <2>1, <2>2 DEF LoadKey, Reasons
<1>2. CASE Installation
  <2>1. CASE \E r \in Reasons : Fail(r)
    BY <2>1, FailInv
  <2>2. CASE Continue("token") /\ UNCHANGED read
    BY <2>2 DEF TypeOK, TipsOwn, ReadFromOne
  <2> QED
    BY <1>2, <2>1, <2>2 DEF Installation, Reasons
<1>3. CASE Token
  <2>1. CASE \E r \in Reasons : Fail(r)
    BY <2>1, FailInv
  <2>2. CASE Continue("repository")
    <3>1. named \in Repos
      BY <1>3, <2>2 DEF Token, Status, Fail
    <3>2. scope' = {named} /\ UNCHANGED <<identity, branch, revision, configuration>>
      BY <1>3, <2>2 DEF Token, TokenScope, Fail
    <3> QED
      BY <2>2, <3>1, <3>2 DEF TypeOK, TipsOwn, ReadFromOne
  <2> QED
    BY <1>3, <2>1, <2>2 DEF Token, Reasons
<1>4. CASE Repository
  <2>1. CASE \E r \in Reasons : Fail(r)
    BY <2>1, FailInv
  <2>2. CASE Continue("commits")
    <3>1. /\ named \in scope
          /\ pc = "repository"
          /\ identity' = named
          /\ branch' = default
          /\ UNCHANGED <<scope, revision, configuration>>
      BY <1>4, <2>2 DEF Repository, Answered, Status, Fail
    <3>2. PICK r \in Repos : scope = {r}
      BY <3>1 DEF ReadFromOne
    <3>3. named \in Repos /\ scope = {named}
      BY <3>1, <3>2
    <3> QED
      BY <2>2, <3>1, <3>3 DEF TypeOK, TipsOwn, ReadFromOne
  <2> QED
    BY <1>4, <2>1, <2>2 DEF Repository, Reasons
<1>5. CASE LatestCommit
  <2>1. CASE \E r \in Reasons : Fail(r)
    BY <2>1, FailInv
  <2>2. CASE Continue("contents")
    <3>1. /\ named \in scope
          /\ pc = "commits"
          /\ tip[named][branch] # NoCommit
          /\ revision' = tip[named][branch]
          /\ UNCHANGED <<scope, identity, branch, configuration>>
      BY <1>5, <2>2 DEF LatestCommit, Answered, Status, Fail
    <3>2. identity \in Repos /\ named = identity /\ branch \in Branches
      BY <3>1 DEF ReadFromOne
    <3>3. revision' \in Commits /\ RepoOf[revision'] = identity
      BY <3>1, <3>2 DEF TypeOK, TipsOwn
    <3> QED
      BY <2>2, <3>1, <3>2, <3>3 DEF TypeOK, TipsOwn, ReadFromOne
  <2> QED
    BY <1>5, <2>1, <2>2 DEF LatestCommit, Reasons
<1>6. CASE Contents
  <2>1. CASE \E r \in Reasons : Fail(r)
    BY <2>1, FailInv
  <2>2. CASE Continue("done")
    <3>1. /\ pc = "contents"
          /\ configuration' \in Configurations
          /\ UNCHANGED <<scope, identity, branch, revision>>
      BY <1>6, <2>2 DEF Contents, Decodes, Answered, Fail
    <3> QED
      BY <2>2, <3>1 DEF TypeOK, TipsOwn, ReadFromOne
  <2> QED
    BY <1>6, <2>1, <2>2 DEF Contents, Reasons
<1>7. CASE RequestFails \/ TimeOut \/ Interrupted
  BY <1>7, FailInv, MapErrorType DEF RequestFails, TimeOut, Interrupted, Reasons
<1> QED
  BY <1>1, <1>2, <1>3, <1>4, <1>5, <1>6, <1>7 DEF Snapshot

(* The inductive invariant, one case per disjunct of the next-state         *)
(* relation.                                                                *)
LEMMA Inductive == Inv /\ [Next]_vars => Inv'
<1> SUFFICES ASSUME Inv, [Next]_vars PROVE Inv'
  OBVIOUS
<1>1. CASE Cancel
  BY <1>1 DEF Inv, TypeOK, TipsOwn, ReadFromOne, Cancel, upstream, read
<1>2. CASE UNCHANGED vars
  BY <1>2 DEF Inv, TypeOK, TipsOwn, ReadFromOne, vars, upstream, read
<1> QED
  BY <1>1, <1>2, SnapshotInv, ChangeInv DEF Next, Finished

(* Throughout a snapshot everything that has been read is of the one        *)
(* repository its installation token was issued for.                        *)
THEOREM SnapshotInvariant == Spec => []Inv
BY InitInv, Inductive, PTL DEF Spec

(* The identity and the revision of a snapshot are of one repository,       *)
(* however often the repository behind the configured name is replaced      *)
(* while Snapshot sends its five requests.                                  *)
THEOREM OneRepository == Spec => []RevisionOfIdentity
<1>1. Inv => RevisionOfIdentity
  BY DEF Inv, ReadFromOne, RevisionOfIdentity
<1> QED
  BY SnapshotInvariant, <1>1, PTL

-----------------------------------------------------------------------------
(* While the repository stays where it is, the token keeps its access.      *)
Steady ==
    /\ pc \in {"repository", "commits", "contents"} => named \in scope /\ installed
    /\ ConfigurationOfRevision

(* The repository is neither deleted, replaced nor taken out of the         *)
(* installation.                                                            *)
Stays == {"delete", "create", "install"} \cap Changes = {}

(* Nothing has been read when Snapshot is called.                           *)
LEMMA SteadyInit == Init => Steady
BY DEF Init, Steady, ConfigurationOfRevision

(* No step makes a 404 of the contents request mean anything but a missing  *)
(* file.                                                                    *)
LEMMA SteadyStep ==
    ASSUME Stays, Inv, Steady, [Next]_vars
    PROVE  Steady'
<1> USE DEF upstream, read
<1>1. CASE RepositoryChanges
  <2>1. /\ UNCHANGED <<pc, read>>
        /\ UNCHANGED <<named, installed>>
    BY <1>1 DEF RepositoryChanges, Change, DeleteBranch, SetDefault, Push,
                Rename, Delete, Create, Install, Stays
  <2> QED
    BY <2>1 DEF Steady, ConfigurationOfRevision, Profile
<1>2. CASE \E r : Fail(r)
  BY <1>2 DEF Fail, Steady, ConfigurationOfRevision
<1>3. CASE pc = "contents" /\ Contents
  <2>1. CASE Continue("done")
    <3>1. revision' = revision /\ configuration' = Profile(revision)
      <4>1. Status(scope) # 404
        BY <1>3 DEF Steady, Status
      <4>2. FileAt[revision] # "missing" \/ FileAt[revision] \notin Configurations
        BY SourceAssumption
      <4> QED
        BY <1>3, <2>1, <4>1, <4>2 DEF Contents, ContentsRef, Decodes, Profile, Continue, Fail
    <3> QED
      BY <2>1, <3>1 DEF Continue, Steady, ConfigurationOfRevision, Profile
  <2> QED
    BY <1>2, <1>3, <2>1 DEF Contents
<1>4. CASE LoadKey \/ Installation
  BY <1>2, <1>4 DEF LoadKey, Installation, Continue, Steady, ConfigurationOfRevision
<1>5. CASE Token
  <2>1. CASE Continue("repository")
    BY <1>5, <2>1 DEF Token, Continue, TokenScope, Status, Fail, Steady,
                      ConfigurationOfRevision
  <2> QED
    BY <1>2, <1>5, <2>1 DEF Token
<1>6. CASE Repository \/ LatestCommit
  <2>1. CASE Continue("commits") \/ Continue("contents")
    BY <1>6, <2>1 DEF Repository, LatestCommit, Answered, Continue, Fail, Steady,
                      ConfigurationOfRevision
  <2> QED
    BY <1>2, <1>6, <2>1 DEF Repository, LatestCommit
<1>7. CASE RequestFails \/ TimeOut \/ Interrupted
  BY <1>2, <1>7 DEF RequestFails, TimeOut, Interrupted
<1>8. CASE Cancel \/ UNCHANGED vars
  BY <1>8 DEF Cancel, vars, Steady, ConfigurationOfRevision, Profile
<1> QED
  BY <1>1, <1>3, <1>4, <1>5, <1>6, <1>7, <1>8
     DEF Next, Snapshot, Finished, Contents, Answered

(* The configuration of a snapshot is the one in its revision, whatever is  *)
(* pushed, whichever branch becomes the default one and however often the   *)
(* repository is renamed, as long as the token keeps its access.            *)
THEOREM PinnedConfiguration ==
    ASSUME Stays
    PROVE  Spec => []ConfigurationOfRevision
<1>1. Steady /\ Inv /\ [Next]_vars => Steady'
  BY SteadyStep
<1>2. Steady => ConfigurationOfRevision
  BY DEF Steady
<1> QED
  BY SteadyInit, SnapshotInvariant, <1>1, <1>2, PTL DEF Spec

(* Whatever happens to the repository, the configuration of a snapshot is   *)
(* the one in its revision unless the repository was out of reach when      *)
(* Snapshot asked for the file.                                             *)
THEOREM ConfigurationOrLost == Spec => ConfigurationUnlessLost
<1> DEFINE Step ==
      pc # "done" /\ pc' = "done" =>
        \/ configuration' = Profile(revision)
        \/ configuration' = Empty /\ ~(named \in scope /\ installed)
<1>1. Inv /\ [Next]_vars => [Step]_vars
  <2> SUFFICES ASSUME Inv, Next, pc # "done", pc' = "done"
               PROVE  Step
    OBVIOUS
  <2>1. pc = "contents" /\ Contents
    BY DEF Next, Snapshot, LoadKey, Installation, Token, Repository, LatestCommit,
           Contents, RequestFails, TimeOut, Interrupted, Cancel, Finished,
           RepositoryChanges, Change, Push, DeleteBranch, SetDefault, Rename,
           Delete, Create, Install, Answered, Continue, Fail, vars
  <2>2. FileAt[revision] # "missing" \/ FileAt[revision] \notin Configurations
    BY SourceAssumption
  <2>3. Status(scope) = 404 => ~(named \in scope /\ installed)
    BY DEF Status
  <2> QED
    BY <2>1, <2>2, <2>3 DEF Contents, ContentsRef, Decodes, Profile, Continue, Fail
<1> QED
  BY SnapshotInvariant, <1>1, PTL DEF Spec, ConfigurationUnlessLost

-----------------------------------------------------------------------------
(* A failure says that the task was cancelled only if the user cancelled    *)
(* it, also when a request or the whole snapshot runs into its time limit   *)
(* at any point, whatever the derived contexts report.                      *)
THEOREM BlameOnUser == Spec => []CancelledByUser
<1>1. Init => CancelledByUser
  BY DEF Init, CancelledByUser
<1>2. CancelledByUser /\ [Next]_vars => CancelledByUser'
  <2> SUFFICES ASSUME CancelledByUser, [Next]_vars PROVE CancelledByUser'
    OBVIOUS
  <2>1. ASSUME NEW r, Fail(r), r = "task cancelled" => cancelled PROVE CancelledByUser'
    BY <2>1 DEF Fail, CancelledByUser
  <2>2. ASSUME NEW next, Continue(next) PROVE CancelledByUser'
    BY <2>2 DEF Continue, CancelledByUser
  <2>3. \A timedOut : MapError(timedOut) = "task cancelled" => cancelled
    BY DEF MapError
  <2>4. CASE LoadKey \/ Installation \/ Token
    BY <2>1, <2>2, <2>4 DEF LoadKey, Installation, Token
  <2>5. CASE Repository \/ LatestCommit \/ Contents
    <3>1. ASSUME Fail("repository is unavailable") PROVE CancelledByUser'
      BY <2>1, <3>1
    <3>2. ASSUME Fail("repository configuration is invalid") PROVE CancelledByUser'
      BY <2>1, <3>2
    <3>3. CASE Repository
      BY <2>2, <3>1, <3>3 DEF Repository
    <3>4. CASE LatestCommit
      BY <2>2, <3>1, <3>4 DEF LatestCommit
    <3>5. CASE Contents
      BY <2>2, <3>1, <3>2, <3>5 DEF Contents
    <3> QED
      BY <2>5, <3>3, <3>4, <3>5
  <2>6. CASE RequestFails \/ TimeOut \/ Interrupted
    <3>1. ASSUME NEW timedOut, Fail(MapError(timedOut)) PROVE CancelledByUser'
      BY <2>1, <2>3, <3>1
    <3>2. ASSUME Fail("repository configuration is invalid") PROVE CancelledByUser'
      BY <2>1, <3>2
    <3> QED
      BY <2>6, <3>1, <3>2 DEF RequestFails, TimeOut, Interrupted
  <2>7. CASE RepositoryChanges
    <3>1. UNCHANGED <<reason, cancelled>>
      BY <2>7 DEF RepositoryChanges, Change, Push, DeleteBranch, SetDefault, Rename,
                  Delete, Create, Install
    <3> QED
      BY <3>1 DEF CancelledByUser
  <2>8. CASE Cancel \/ Finished \/ UNCHANGED vars
    BY <2>8 DEF Cancel, Finished, vars, CancelledByUser
  <2> QED BY <2>4, <2>5, <2>6, <2>7, <2>8 DEF Next, Snapshot
<1> QED BY <1>1, <1>2, PTL DEF Spec
=============================================================================
