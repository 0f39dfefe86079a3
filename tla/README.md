# A TLA+ model of delegatd

delegatd records tasks for allowlisted GitHub repositories. `task submit` takes
a snapshot of a repository, resolves a policy and stores one pending task;
`task show` prints a stored task; `doctor` diagnoses the deployment. Every
command is a short-lived process. All durable state is one SQLite file that the
processes share, and all outside input is read while other people change it.
That is where the difficulty is, and where this project looks.

Paths below are relative to the repository. `PROJECT.json` lists the components,
runs, mutants, source lines of every definition, findings, hazards and theorems.

## Inventory

| Component | State | Operations | Interacts with | What makes it correct |
|---|---|---|---|---|
| SQLite store (`internal/store/sqlite/store.go`, `migrations.go`) | the state file: directory entry, pages, rollback journal, lock, mode; per process a handle and a transaction | `Open` (create, migrate, validate, clean up), `CreateTask`, `OpenReadOnly`, `Task`, `Close` | other processes through the file; task service | rows fit together after any crash; nothing committed or printed is lost; foreign files are left alone; the file is private |
| Task store contract (`internal/storetest`) | tasks, resource bindings | create, read | both stores | atomic, immutable tasks; one binding per resource |
| Task service (`internal/control`) | none | `SubmitManualRepository`, `Show` | store, source, policy | the task belongs to the repository that was read |
| Bootstrap (`internal/bootstrap/task.go`), command line (`cmd/delegatd`) | context, stdin, exit status | run one command | everything | always ends; failure means nothing was stored |
| GitHub source (`internal/connector/github/repository.go`, `auth.go`) | what the requests so far have answered | `Snapshot` | GitHub, task service | identity, revision and configuration are of one repository and one commit; always ends |
| Policy (`internal/policy`) | none | `NormalizeRequest`, `Resolve` | task service, both decoders | normalising twice changes nothing; no protected path is lost; nothing is allowed that not every layer allows |
| Domain (`internal/domain`) | none | ids, snapshots, input normalisation | all | normal form is stable; ids are checked |
| Memory store (`internal/store/memory`) | maps under an RWMutex | `CreateTask`, `Task`, `History` | tests | same contract |
| Doctor (`internal/doctor`, `internal/bootstrap/doctor.go`) and its probes (GitHub, SQLite, Docker, OMP) | result slots, child processes, pipes | `Run`, one probe each | external programs, GitHub, the state file | one line per instance, for its own cause; no child left; printed by the deadline |
| Configuration (`internal/config`) | none | `Load`, `LoadStore`, `DecodeRepository` | bootstrap, source | the three commands agree on a document, but for the differences `DiagnosedStore` names |
| Release tool (`internal/releasetool`) | release directory | `archive`, `canonicalize-spdx`, `checksums` | other runs, the file system | an output file is old or complete; digests are of complete files |
| Release scripts, workflows | tags, releases | package, publish | CI | not modelled |

Hard behaviour: processes interleave between system calls; a process may be
cancelled (SIGINT, SIGTERM) or die anywhere; Stat and open, count and migrate,
snapshot and transaction, commit and print are separate steps; GitHub changes
between requests or never answers; child processes hang, write too much, or
leave descendants that keep a pipe open.

## Modules

    TaskStore               abstract: what the durable task boundary promises
    SqliteStore             the state store and the commands that use it
      MCSqliteStore           instances for TLC
      SqliteStoreProofs       types, the inductive invariant, what is durable
      SqliteStoreCommands     SqliteStore implements TaskStore; what each command
                              promises
    RepositorySource        Snapshot against a repository that changes
      MCRepositorySource      instances for TLC
      RepositorySourceProofs  what a snapshot is a snapshot of
    MemoryStore             the store behind an RWMutex, as goroutines use it
      MCMemoryStore           instances for TLC
      MemoryStoreProofs       its invariant; MemoryStore implements TaskStore
    TaskInput               reading and normalising the instructions
      MCTaskInput             instances for TLC
      TaskInputProofs         its invariant and what follows from it; what the
                              normalisation makes of every text
    Policy                  requests and the effective policy, as operators
    Configuration           the document, as each command reads it (extends Policy)
      ConfigurationProofs     what an accepted document has passed, the list of
                              checks, requests normalised again
    Doctor                  the diagnosis and its probes (extends Configuration)
      MCDoctor                instances for TLC
      DoctorProofs            its invariant and what follows from it
    WriteAtomic             the release tool's output files
      MCWriteAtomic           instances for TLC
      WriteAtomicProofs       its invariant and what follows from it

### SqliteStore

A process is a `task submit` (`Submitters`) or a `task show` (`Readers`); `pc`
is its next system call or SQL statement. A submission runs

    PrepareStat, PrepareCreate, PrepareClose       prepareDatabaseFile
    Connect, ReadVersion              PingContext, requireDeleteJournal, user_version
    CountObjects, Migrate*            migrate
    ValidateSchema                    validateSchema
    BuildDraft                        SubmitManualRepository up to CreateTask
    TaskBegin, TaskExec, TaskCommit, TaskFinish    CreateTask
    CloseStore, Report                deferred Close, writeJSON

and a show runs `ShowStat`, `ShowConnect`, `ShowValidate`, `ShowQuery`,
`CloseStore`, `Report`. `AbortOpen` and `Cleanup` are `Open`'s error returns.
`Open` removes the path by name in two places: in its cleanup, and when
`file.Close` fails on the file it has just created (`store.go:348-351`). Both
end in the action `Cleanup`.

The file system part is `path` (which inode the configured path names), `disk`,
`journal`, `perm` and `lock` per inode. SQLite is external and modelled from
how the code uses it: an IMMEDIATE transaction takes the RESERVED lock at its
start and works on private pages (`work`); `CommitWrite` saves the old pages in
the journal and writes the new ones; `CommitFinish` removes the journal, which
is the commit point, and the lock; a writable connection that finds a journal
without a live owner restores it (`Recover`), a read-only one fails. Between
`CommitWrite` and `CommitFinish` nobody else can read. The statements of one
transaction are one action: nobody can see or change anything between them, and
failing at any of them has the same effect, a rollback.

A call that meets another process's lock waits, or fails with SQLITE_BUSY
(`Busy`): at once on a connection without a busy timeout, after up to five
seconds otherwise. `Busy` is possible whenever a live process holds a lock that
the call cannot share (`MeetsLock`), for every process and in every run, so
nothing rests on how long the code waits or whether it waits at all:
`readOnlyDSN` sets no timeout, and `_busy_timeout` in `writableDSN` is a key of
the driver, whose source is not in the repository.

I/O errors and a source that cannot be read (`Error`; `FileCallFails` for the
calls on the file itself), cancellation, crashes, a failing stdout and refusals
before the store is opened are separate fault actions that a run switches on for
each process with `Faults`.
Cancellation makes every context-aware call fail; a Commit that has started
runs to its end, as in database/sql. After a Commit that failed before its
commit point the connection keeps its lock until `Close`.

Data is abstracted: a draft has an id, a candidate resource id, a configured
name, a connector, an upstream identity, its material (reference, revision,
configuration, requested policy) and its payload (input, effective policy). The
columns `kind`, `status` and `reason` have one value in this program.

### TaskStore

The stored tasks, the bindings of resources and the tasks that were printed.
`Create` stores one task with a fresh id for a resource that is bound exactly
that way or clashes with none; `Report` prints a stored task. SqliteStore
implements it with the committed rows of the file behind the path; a submission
takes effect at `TaskFinish`.

### RepositorySource

The five requests of `Snapshot` in order, each answered by GitHub's state at one
instant, and seven kinds of change of the repository between them. An
installation token gives access to the repository that had the name when it was
issued (the token request names the repository). A renamed repository answers
with a redirect, which the client does not follow; what a credential may not see
answers 404. The two time limits (per request, whole snapshot) have the same
effect and are one action.

### MemoryStore

Goroutines call `CreateTask` (`Writers`) or `Task` and then `History`
(`Readers`). The steps are the context check and validation before the lock
(`CreateEnter`, `TaskEnter`), taking the mutex (`Lock`, `RLock`), and the access
to each map: `StoreResource`, `StoreTask`, `StoreHistory`, `TaskRead`,
`HistoryRead`; the deferred unlock goes with the last access, or with `Refuse`.
The maps are functions with a "none" value for missing keys. A draft carries
what `validateDraft` looks at: its status, its first history entry, and whether
its ids, fields and snapshots parse. Seen through the refinement mapping a
`CreateTask` takes effect at `StoreTask`, and a resource counts from its first
task on. The store does not compare a candidate resource id with stored ids (the
SQLite store's primary key does), so that candidate ids of different names
differ is an assumption; the ids are random.

### TaskInput

`readTaskInput` and `NormalizeManualInput`. The command (`Main`) and the
goroutine that reads stdin (`Goroutine`) run concurrently and meet in the
channel `completed`; others cancel, append to the file or remove it. Reading is
one character at a time up to `Limit + 1`. Texts are sequences over text, blank,
LF, CR and invalid characters, which is what the normalisation tells apart; it
is written with the code's passes, `strings.Split` and `strings.Join` as
recursive functions along the text, and compared with a definition by positions
(`Wanted`). Closing stdin ends a pending read or not (`Stdins`): for a
descriptor in blocking mode it does not.

### Policy and Configuration

Operators without state. A path is a sequence of segments of the kinds the
checks tell apart, with or without white space around it. A document is the
decoded sections and, for each kind of YAML defect, whether it is in the part
that `task show` reads (version and store) or in the rest; `versionKey` says
whether the version is a key of the document or comes with a YAML merge key,
where `LoadStore` does not look for it. `Load`, `LoadStore`, `Submit`, `Show`
and `DecodeRepository` are the code's checks in their order and give the reason
of the first that fails. `Submit` and `Show` go up to and with the opening of
the store: `Databases` are the files that `Open` and `OpenReadOnly` tell apart,
`Opens` and `OpensReadOnly` those they accept. `LoadDoctor` makes the list of
checks.

### Doctor

`runDoctor` loads the document, starts one goroutine per check and waits for all
of them; `Deadline` is the timeout or a signal, at any moment. `at` is where a
probe is:

    omp      start, frame, stopping | waiting, draining, answered
    docker   start, run, answered
    github   start, request, body, answered
    sqlite   start, query, answered

What a check meets is a record of the case: what fails locally, what the server
or the child says, how it exits (or hangs), how much it writes, and whether a
descendant keeps its output for good. The pipe holds one write; a child blocks
on a full one, and its write fails once our end is closed. Beside the probe run
the kill of `exec.CommandContext`, OMP's watcher (`CloseReader`) and drain
(`Discard`, `CopyEnds`), and os/exec's copy into the `limitedBuffer`
(`WriteLimited`). `own` is a context that a probe cancels for itself. os/exec
copies Docker's stderr through a second pipe that nobody limits; that it ends
when no descendant is left is the condition `~leaves` of `DockerRan`.

### WriteAtomic

Runs of the release tool on one directory. An inode is named by the run that
creates it; a run's temporary name is the run. Every call of `writeAtomic` may
fail (`Fail`, then `Remove`), a run may be killed, and the power may be lost
once: names and modes are then those last committed, and data that was not
synced is kept or not. A `SHA256SUMS` is written one line per input: `OpenInput`
resolves the name, `HashInput` reads what the inode then holds.

## Runs

SqliteStore: two submitters and one reader. The first submitter has one draft;
the second chooses one of six: the same resource, a second alias of it, the
alias moved to another repository, another resource, a colliding resource id, a
colliding task id. These are all the ways two drafts can meet. A populated file
holds one task of an earlier submission that clashes with some of them. A
submitter creates at most one file by `O_EXCL` or one by `mode=rwc`, and two
inodes are enough for one to be removed and replaced.

| Run | Start | Faults | Shows |
|---|---|---|---|
| `existing` | empty, current or populated file, or one of seven kinds of unsupported file | all | `TablesConsistent`, `ReportedDurable`, `TaskOfReadRepository`, `FailedLeavesNothing`, `CommittedTasksPermanent`, `ResourceBindingPermanent`, `ShowFindsReported`, `ForeignUntouched`, `TypeOK` |
| `first_run` | no file | all | `OnlyCreatorRemoves`, for both removals by name, while processes create, remove and replace files |
| `commands` | empty, current or populated file | error, cancel, crash; the second submitter only crashes (and meets locks) | `TaskStoreSpec`, `NoSpuriousFailure`, `Terminates` |
| `lost_task` | no file | none | violates `ReportedDurable` |
| `broad_file` | no file | cancel | violates `StateFilePrivate` |

`existing` has about 720,000 states, `first_run` 1.75 million;
`commands` has 260,000, because its temporal properties cost more: it leaves out
the faults that end a command before or after it uses the file. Its second
submitter meets no I/O error of its own, so `NoSpuriousFailure` speaks about it:
a live process may have the file locked at that moment, another may have
migrated it first, or its draft may clash with what is stored; what the others
leave behind when they fail, are cancelled or die, a lock or a journal, refuses
nobody.

RepositorySource: two repositories that can bear the name, two branches, four
commits (with a file, without, with a malformed one, of the other repository)
and at most three changes (`MaxChanges`): deleting and creating anew takes two,
and a third lets a push or an installation change come in between.

| Run | Changes | Shows |
|---|---|---|
| `snapshot` | all; GitHub need not answer | `RevisionOfIdentity`, `ConfigurationUnlessLost`, `CancelledByUser`, `Finishes` |
| `lost_configuration` | delete, installation | violates `ConfigurationOfRevision` |

MemoryStore: three writers and a reader. The drafts of the first two meet in
every way two can; the third is valid, with a task id that may be taken, or
wrong in one of the checked fields. TaskInput: a limit of three characters, so
that texts below, at and above it exist; all texts of up to five.

| Run | Shows |
|---|---|
| `memory` | `HistoryOfTask`, `ResourceBacked`, `Contract`, `Returns` |
| `input` | inline, both kinds of stdin, and a growing or vanishing file: `NeverTruncated`, `Stable`, `RefusedForCause`, `NoReaderLeft`, `CancelledReturns`, `TypeOK` |

Doctor: documents with one instance per section. One group has a defect each and
a live SQLite probe; the others keep two probes alive, so that every behaviour
of one dependency meets a bad other one (Docker over its limit, a silent
GitHub); one case has all four alive and in order. `MaxChecks = 4`; the output
limit is two chunks, Docker writes up to four, one or two at a time, so that the
limit is met exactly, crossed by one write and exceeded when full. The store's
path has every kind of file in turn, and a version may come with a merge key.
167,000 states. Every document that loads is also resolved against five repository
profiles. WriteAtomic: two archivers of the same name and one run of checksums
in a directory of two artefacts, any of which may exist before; an archive is
one chunk (`Length`): it is incomplete or complete, which is all that is told
apart. 3 million states up to the symmetry of the archivers.

| Run | Shows |
|---|---|
| `doctor` | `ReportComplete`, `PassedForCause`, `OwnLineOnly`, `NothingLeft`, `DiagnosedStore`, `PolicyStands`, `EndsByDeadline`, `EndsWhenServed`, `TypeOK` |
| `docker_pipe` | a docker executable that leaves a process: violates `EndsByDeadline` |
| `write_atomic` | `OutputComplete`, `DigestsWhole`, `NoLeftover`, `TypeOK` |

Fairness. `Terminates` assumes that a live process keeps taking its own steps
(weak fairness of `Step(p)`), which the operating system's scheduler gives; no
fault is assumed to happen or not to happen. A process waiting for a lock is not
running, and gets it because every holder releases it, ends or dies. The busy
timeout is not needed for this; it only makes waiting end sooner (`Busy`, of
which no fairness is assumed).
`Finishes` assumes that the process runs and its timers fire, and nothing of
GitHub. `Returns` assumes that goroutines run and get a mutex that is free.
`CancelledReturns` assumes that the command runs and that the goroutine goes on
when its read fails or the limit is reached; nobody has to write to stdin.
Doctor assumes that the process does not stop while one of its goroutines can go
on and the kernel kills what it is told to kill, and that dependencies which
serve (`Serves`: they do not hang) go on; each takes finitely many steps, so one
condition for all of them is enough. A ready OMP may exit at any time, and is
only bound to once its stdin is closed (`Obliged`). Nothing is assumed of a
dependency that hangs. That the timer fires is the premise of `EndsByDeadline`, and
`EndsWhenServed` does not need it.

Each property has a mutant in `PROJECT.json`: a definition changed as a
plausible bug would change it, kept beside the original as "Seeded fault". The
type invariants of RepositorySource and MemoryStore, and `TablesConsistent` for
a first run, are proved and not checked again by a run.

## What the runs found

- `lost_task`: two overlapping first submissions. The first creates the file;
  the second finds it, migrates it, stores and prints its task; the first then
  finds objects in what it takes for its own empty database, fails, and its
  cleanup removes the file by name, with the stored task (`store.go:81`,
  `migrations.go:14-28`). `ReportedDurable` is proved for a state file that
  exists at the start; creation is the only window.
- `broad_file`: a first submission is cancelled and removes its file between
  another's Stat and connection; `mode=rwc` recreates it with the umask's mode
  (`store.go:372`).
- `lost_configuration`: any 404 of the contents request selects the empty
  configuration, also when the repository has become inaccessible since the
  commit was read (`repository.go:254`). `ConfigurationUnlessLost` shows that
  this is the only way.
- `docker_pipe`: `command.Run` waits for the copies of stdout and stderr, so a
  process that docker leaves behind keeps the killed probe, and `doctor` with
  it, past the deadline (`docker/doctor.go:47`). The OMP probe takes care of
  exactly this, and `doctor` shows that it succeeds.

Differences between the commands that no document speaks about. `task submit`
does not look at `store.kind`, while `task show` and `doctor` accept only
`sqlite`. A pass of `doctor` for the store does not mean that the others can
work on the file: its probe reads any SQLite database, also one of another
program, one in WAL mode (`sqlite/doctor_test.go:14-29`, `53-68`), one with
broad permissions or one whose journal it ignores. `LoadStore` wants the version
as a key of the document itself, `Load` also takes it from a merge key.
`DiagnosedStore` says exactly what a pass is worth: `task show` then works on a
state file of this program and on nothing else the probe passes; `task submit`
is refused for a foreign, WAL or broad file, and otherwise, if the connector
passes too, only for an unusable resource.

## Proofs

All theorems hold for every value of the constants under the named assumption of
their component (`ConstantsAssumption`, `SourceAssumption`, `MemoryAssumption`,
`InputAssumption`, `DoctorAssumption`, `WriteAtomicAssumption`: types, and that
the "no ..." values are none of the real ones), which every run evaluates.
Hypotheses beyond these are named below where a theorem needs them.

*SqliteStoreProofs* first proves `TypeCorrect`. `TypeOK` is not inductive alone:
whether `disk[handle[p]]` is a database depends on `handle[p]` being a file
whenever `pc[p]` is a step with an open connection, and on a draft being there
when a transaction runs. `Wired` says so.

Then it adds what the lock and the journal mean. `Inv` is `TypeOK`,
`Wired` and

- `Allocation`: an inode that is in use anywhere is not a fresh one, so creating
  a file cannot overwrite an open one;
- `Holds`, `HeldBy`: who is in a transaction holds the lock of its file, and
  only a holder inside a commit, or one that died there, has a journal;
- `Transaction`: the private pages of a transaction are the committed ones, or a
  consistent successor of them that keeps every task and binding, and during a
  commit the journal holds the old ones;
- `Validated`: who got past `Open` works on a supported schema;
- `Sound`: the committed content of every file is consistent.

`StepCommits` reduces everything to one case: the committed content of a file
changes only when its lock holder finishes a commit, to the pages `Transaction`
describes. `CreateConsistent`, about the tables alone, shows that the statements
of `CreateTask` keep consistency, tasks and bindings. `ConsistentAlways`,
`TasksPermanent` and `BindingsPermanent` follow without further assumption.
`ReportedForGood` assumes that a state file exists at the start (`FileExists`);
then nobody creates one, so nobody removes one (`PathFixed`), and an answer is
committed from `TaskFinish` on (`Answers`). The assumption is needed: `lost_task`
refutes the theorem without it.

*SqliteStoreCommands* proves that SqliteStore implements TaskStore under
`FileExists`. `Shapes` relates the pages of an open transaction to the one row
it adds; `TaskFinish` then is `Create`, `Report` is `Report`, and every other
step leaves the mapped state alone. Every other property of the runs follows
from invariants of its own on top of `Inv`:

- `CreatorRemoves`: a process between `O_EXCL` and the end of its `Open`, or
  its removal of the file, finds its own inode at the path (`Creators`). That
  covers both removals, the one after a failed `file.Close` and the cleanup. Others' cleanups cannot have removed it: they
  would have to have created it. No assumption about the start.
- `LostOnlyByCleanup`: a task that the configured path has does not leave it,
  unless the creator of that very file removes it by name because closing it or
  a later step of its own `Open` has failed. Files only grow (`StepExtends`), and the path changes only from
  nothing to a fresh file or by a cleanup (`StepPath`). No assumption about the
  start: what `lost_task` shows, a removal by name of a file that others use
  already, is the only way to lose a task.
- `NobodyBlocks`: whoever holds a file's lock is inside a transaction or about to
  close, so no two commands wait for each other and no lock outlives its
  command. This is the safety half of `Terminates`.
- `ForeignKept`: a process that is past a check of `Open` has a supported file,
  and the pages it will write are supported (`Adopts`), although version, object
  count and migration are separate calls.
- `FailureLeavesNothing`: no file holds a task with the payload of a submission
  that has not succeeded (`Absent`), because a task becomes visible only at the
  commit point of its own submission, after which that submission can no longer
  fail (`Owns`, `StepMoves`). A journal restored by another process only takes
  away.
- `TaskBoundToReadRepository`: the commit writes the binding, and
  `BindingsPermanent`'s argument keeps it (`Bound`). `ShowIsRight`: a printed
  task is committed, and `ShowQuery` reads committed pages when there is no
  journal. Both under `FileExists`: a task whose file is removed, as in
  `lost_task`, is neither bound nor found any more.
- `FailsForCause` assumes `OwnFile`: the file at the start is empty, current or
  populated, not one that `Open` must refuse. The file stays one that `Open`
  accepts (`Welcoming`); then the only ways to fail without an I/O error of
  one's own are a lock that a live process holds (`MeetsLock`; a failed or dead
  command has none, see `NobodyBlocks`), a migration that another has finished,
  and a real clash. `OwnFileStaysPrivate`
  has the same assumption: what `broad_file` shows needs a path that is empty
  when SQLite connects.

*RepositorySourceProofs* proves `OneRepository` from: branches point to commits
of their own repository, the token is for one repository, and everything read
is of that one. `PinnedConfiguration` assumes that the repository stays
accessible (`Stays`); then a 404 of the contents request cannot occur for any
reason but a missing file. `ConfigurationOrLost` has no such assumption: a step
that completes a snapshot gives it the configuration of its revision, unless the
repository is inaccessible at that moment. `BlameOnUser` goes through every way
to fail: only the command's own context makes `MapError` say "cancelled".

*MemoryStoreProofs* proves `HistoryOfTask`, `ResourceBacked` and `Contract` for
any number of goroutines, under `MemoryAssumption`. The invariant says who holds
the mutex (`Held`), that the maps' keys, ids and identities are one to one and
every task resolves (`Keyed`), how far the writer inside the mutex has come
(`Written`), and that a task without history, or a resource without its task,
exists only while that writer is between its writes (`Complete`, `Backed`).
`StoreTask` then is TaskStore's `Create`; a return is `Report`.

*TaskInputProofs* proves `NothingCutOff`, `RefusalHasCause`, `ReaderIsJoined` and
`TypeCorrect` for texts of any length and any limit. The invariant says who
reads at which stage (`Stages`), that what was read is the beginning of what is
there (`Texts`; others only append), and that the end has been seen exactly of
a text within the limit (`Limits`): the limited reader goes one character
further than the limit, which is what tells the two apart.

It also proves `NormalForm`, for which it has to say what `NormalizeManualInput`
makes of every text (`NormalizedIsWanted`, `NormalizedTwice`). The argument
follows the passes. Two scans of a text that drop and replace the same
characters agree, so the CRLF and CR passes yield one line feed for every line
end (`UnixIs`). `Split` yields the pieces between neighbouring line feeds
(`SplitCuts`), and `Join` of neighbouring pieces is the part of the text they
come from (`JoinCuts`). The passes that look for the first and the last line
with something visible find those that `Wanted` defines by position
(`MiddleIs`, `WantedIs`). A text that is one of these parts already is its own
normal form. `ReturnedText` carries this to the states of the command. The
library's induction theorems take an operator as a parameter, so induction goes
through sets instead: `Induction` says that a set of numbers with 0 and every
successor has all of them, from the library's well-foundedness of the natural
numbers, and `Recursion` that a function defined along a text exists and is the
one its equations describe.

*ConfigurationProofs* collects what a document has passed that `Load` accepts
(`LoadIs`), what `Submit` and `Show` check of it, and that `LoadDoctor` makes
exactly one check of every instance, in order and with an id of its own
(`ChecksOf`, `IdsDiffer`); `StoreLoads`, `ShowOpens` and `SubmitOpens` are what
the other commands make of a document that `Load` accepts. `FirstFailureIs` carries all of this: a list of checks
gives "" if all pass and the reason of the first that fails otherwise. It also
proves `NormalizedAgain`: a request of any length that was normalised is
accepted and unchanged when it is normalised again, because trimming twice is
trimming once and changes no segment.

*DoctorProofs* proves all seven invariants of Doctor for any documents,
dependencies, number of checks and output limit. `DoctorInv` has one part per
slot, `SlotInv`, which no step of another slot touches (`OthersKeep`):

- `Placed`: at which step a probe of a kind can be, and which of child, pipe and
  copy it has there;
- `Reaped`: who has answered has no child and no copy running, which is
  `NothingIsLeft`;
- `Known`: what the probe has found out of its dependency by reaching a step;
- `Copied`: what Docker has written is in the buffer, the pipe or still to come,
  unless the limit has cut it off and recorded a failure;
- `Passed`: what a pass stands for (`PassesForCause`);
- `Smooth`: until the deadline nothing has gone wrong for a healthy dependency
  (`OwnLine`); a ready OMP may exit before its frame is read, so the frame is
  then in the pipe (`FrameComes`).

`Reported` says that a report is made of the slots after all probes have
answered. With the lemmas on documents it gives `ReportsAll` and `Diagnoses`,
which also uses that a pass of the store is one of the files the probe reads
(`HealthyIs`);
`PolicyIsKept` is about documents alone. `DoctorAssumption` only says that the
cases are documents with dependencies of the kinds the probes can meet.

*WriteAtomicProofs* proves all four invariants for any runs, names and lengths,
under `WriteAtomicAssumption`. The inductive invariant adds to `TypeOK`: every
name, in the directory and as committed, has a file that is complete, synced and
readable (`NamesWhole`); a run past its sync has such a file (`ReadyWhole`); a
run of checksums has a complete artefact open (`InputWhole`) and has written
lines of complete ones (`LinesWhole`); a temporary name has its run's file or
none, and none once the run is over (`Temporaries`). `NamesWhole` is about the
committed names too: that is why the loss of power keeps it, and why the sync
has to come before the rename.

Only model-checked: liveness under fairness (`Terminates`, `Finishes`,
`Returns`, `CancelledReturns`, `EndsByDeadline`, `EndsWhenServed`), which is out
of the prover's reach. Every other property of a passing run, invariant or
action property, is a theorem, and so are both refinements of TaskStore.

## Limits

- Journals belong to inodes. That SQLite finds a journal by name, so that a
  journal left beside a removed file could meet a new file of that name, is not
  modelled.
- SQLite's locks are abstracted to the process that has a transaction and to
  who reads: `MeetsLock` allows SQLITE_BUSY wherever two of them may exclude each
  other, and neither the length of a wait nor a retry inside it is modelled.
- Unlink has Unix semantics; on Windows an open file cannot be removed.
- Crashes are of processes. A machine crash that loses unsynchronised writes is
  SQLite's and the file system's business.
- Foreign keys: the model's `TasksResolve` holds because of `CreateTask`'s
  statements; whether the driver enforces REFERENCES does not matter for it.
- Columns are stored and read back unchanged; encoding, decoding and the
  corruption checks of `Task` are left out.
- WriteAtomic's file system commits names and modes in the order of the calls,
  as journaling ones do; the directory is not synced, so a successful run's
  output may be the old file after a loss of power.
- A descendant in Doctor keeps its pipe for good; one that ends after a while
  delays the report by that while.
- The SQLite diagnosis connects with `immutable=1`, which takes no lock, and is
  not composed with SqliteStore. In Doctor the file does not change while the
  report is made, and `Opens` leaves out I/O errors and locks of others.

## Plan

Done: every component with state of its own, and a theorem for every property
that the prover can reach. Possible next: the theorems that assume `FileExists`
for a path where no file is created while another submission runs.

## Not modelled

- Argument parsing, usage texts, and the printing of tasks: wording.
- YAML and JSON syntax, the grammars of names and ids, canonical JSON: string
  formats; a document has a defect or not.
- RSA key parsing and the signing of tokens: they succeed or fail.
- Archive formats and the rewriting of an SBOM: pure functions of one input.
- Release scripts and workflows: shell and CI configuration around outside
  programs.
