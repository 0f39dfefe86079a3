---------------------------- MODULE SqliteStore ----------------------------
(***************************************************************************)
(* The SQLite state store of delegatd as the commands use it.  Every        *)
(* `task submit` and every `task show` is a process of its own that opens   *)
(* the configured state file, does one thing and exits, so everything they  *)
(* share is on disk: the directory entry, the database file behind it, its  *)
(* rollback journal and its lock.                                           *)
(*                                                                          *)
(* One action is one system call or one SQL statement (the statements of a  *)
(* transaction that holds the lock are one action), so every interleaving,  *)
(* cancellation and crash between two of them is a behaviour.               *)
(***************************************************************************)
EXTENDS Integers

CONSTANTS
    Submitters,     \* `task submit` processes
    Readers,        \* `task show` processes
    Wanted,         \* the task id each reader was asked for
    Files,          \* inodes the configured path can come to name
    TaskIDs, ResourceIDs, Names, Connectors, Identities,
    Materials,      \* what one source.Snapshot returned: ref, revision, configuration
    Payloads,       \* the normalized input and the effective policy
    Times,          \* values of created_at
    Offers,         \* the drafts each submitter may come to build
    Seeds,          \* drafts an earlier, finished submission may have stored
    InitialFiles,   \* what may be at the configured path at the start
    Faults,         \* what may go wrong in each process
    NoFile, NoProc, NoJournal, NoTask, NoDraft

Procs == Submitters \cup Readers

Draft == [id : TaskIDs, candidate : ResourceIDs, name : Names,
          connector : Connectors, identity : Identities,
          material : Materials, payload : Payloads, createdAt : Times]

-----------------------------------------------------------------------------
(* The three tables of schema version 1, as sets of rows.  The columns      *)
(* kind and status hold one value each in this program and are left out.    *)

ResourceRow == [id : ResourceIDs, name : Names, connector : Connectors,
                identity : Identities, material : Materials,
                onboardedAt : Times, updatedAt : Times]

TaskRow == [id : TaskIDs, resource : ResourceIDs, name : Names,
            connector : Connectors, material : Materials,
            payload : Payloads, createdAt : Times]

HistoryRow == [task : TaskIDs, sequence : {1}, occurredAt : Times]

Tables == [resources : SUBSET ResourceRow, tasks : SUBSET TaskRow,
           history : SUBSET HistoryRow]

EmptyTables == [resources |-> {}, tasks |-> {}, history |-> {}]

TableNames == {"resources", "tasks", "task_history"}

(* "other" is any object whose definition is not one of the three expected. *)
Objects == TableNames \cup {"other"}

Content == [version : {-1, 0, 1, 2}, objects : SUBSET Objects,
            mode : {"delete", "wal"}, tables : Tables]

(* An empty file is a database of version zero without objects.             *)
EmptyContent ==
    [version |-> 0, objects |-> {}, mode |-> "delete", tables |-> EmptyTables]

CurrentContent(t) ==
    [version |-> 1, objects |-> TableNames, mode |-> "delete", tables |-> t]

FileKinds == {"absent", "empty", "current", "populated", "broad",
              "unrelated", "negative", "future", "incomplete", "altered", "wal"}

FaultKinds == {"error", "cancel", "crash", "stdout", "refuse"}

ASSUME ConstantsAssumption ==
    /\ Submitters \cap Readers = {}
    /\ Wanted \in [Readers -> TaskIDs]
    /\ Offers \in [Submitters -> SUBSET Draft]
    /\ Seeds \subseteq Draft
    /\ InitialFiles \subseteq FileKinds
    /\ Faults \in [Procs -> SUBSET FaultKinds]
    /\ NoFile \notin Files
    /\ NoProc \notin Procs
    /\ NoJournal \notin Content
    /\ NoTask \notin TaskRow
    /\ NoDraft \notin Draft

-----------------------------------------------------------------------------
(* CreateTask's statements, as operators on the tables.                     *)

Named(t, d) == {r \in t.resources : r.name = d.name}

Owners(t, d) == {r \in t.resources : /\ r.connector = d.connector
                                     /\ r.identity = d.identity}

(* Seeded fault: a known name is not compared with its stored identity.     *)
ConflictOfNewNames(t, d) == Named(t, d) = {} /\ Owners(t, d) # {}

(* A known name must be bound to the draft's upstream identity, and an      *)
(* unknown name must not take an identity another name owns.                *)
Conflict(t, d) ==
    IF Named(t, d) = {}
    THEN Owners(t, d) # {}
    ELSE \E r \in Named(t, d) : \/ r.connector # d.connector
                                \/ r.identity # d.identity

InsertedResource(d) ==
    [id |-> d.candidate, name |-> d.name, connector |-> d.connector,
     identity |-> d.identity, material |-> d.material,
     onboardedAt |-> d.createdAt, updatedAt |-> d.createdAt]

(* Seeded fault: the UPDATE writes every time column.                       *)
UpdatedResourceAnew(r, d) ==
    [r EXCEPT !.material = d.material, !.onboardedAt = d.createdAt,
              !.updatedAt = d.createdAt]

UpdatedResource(r, d) ==
    [r EXCEPT !.material = d.material, !.updatedAt = d.createdAt]

(* The row the transaction leaves in resources: inserted or updated.        *)
ResourceFor(t, d) ==
    IF Named(t, d) = {}
    THEN {InsertedResource(d)}
    ELSE {UpdatedResource(r, d) : r \in Named(t, d)}

(* Seeded fault: task ids are assumed never to collide.                     *)
ConstraintFailsOnResources(t, d) ==
    Named(t, d) = {} /\ (Owners(t, d) # {} \/ \E r \in t.resources : r.id = d.candidate)

(* PRIMARY KEY and UNIQUE constraints that fail one of the INSERTs.         *)
ConstraintFails(t, d) ==
    \/ /\ Named(t, d) = {}
       /\ Owners(t, d) # {} \/ \E r \in t.resources : r.id = d.candidate
    \/ \E k \in t.tasks : k.id = d.id
    \/ \E h \in t.history : h.task = d.id /\ h.sequence = 1

Accepts(t, d) == ~Conflict(t, d) /\ ~ConstraintFails(t, d)

(* Seeded fault: the task refers to the candidate id, not the stored one.   *)
StoredTaskOfCandidate(d, r) ==
    [id |-> d.id, resource |-> d.candidate, name |-> d.name,
     connector |-> d.connector, material |-> d.material,
     payload |-> d.payload, createdAt |-> d.createdAt]

StoredTask(d, r) ==
    [id |-> d.id, resource |-> r.id, name |-> d.name,
     connector |-> d.connector, material |-> d.material,
     payload |-> d.payload, createdAt |-> d.createdAt]

(* Seeded fault: history is counted from zero.                              *)
InitialHistoryFromZero(d) ==
    [task |-> d.id, sequence |-> 0, occurredAt |-> d.createdAt]

InitialHistory(d) ==
    [task |-> d.id, sequence |-> 1, occurredAt |-> d.createdAt]

(* INSERT or UPDATE resources, INSERT tasks, INSERT task_history.           *)
WithTask(t, d, r) ==
    [resources |-> {x \in t.resources : x.id # r.id} \cup {r},
     tasks     |-> t.tasks \cup {StoredTask(d, r)},
     history   |-> t.history \cup {InitialHistory(d)}]

-----------------------------------------------------------------------------
VARIABLES
    path,       \* the file the configured path names, or NoFile
    disk,       \* the database pages of each file
    journal,    \* the rollback journal of each file: the pages to restore
    perm,       \* the mode of each file
    lock,       \* the holder of each file's RESERVED lock
    pc,         \* the next step of each process
    handle,     \* the file each process has open
    made,       \* the file prepareDatabaseFile created for each process
    cancelled,  \* the processes whose context is done
    draft,      \* the draft each submitter built
    work,       \* the pages of each process's transaction
    answer      \* the task each process is to print

fileVars == <<path, disk, journal, perm, lock>>
procVars == <<pc, handle, made, cancelled, draft, work, answer>>
vars == <<fileVars, procVars>>

(* What a reader that respects the journal finds in a file.                 *)
Committed(f) == IF journal[f] = NoJournal THEN disk[f] ELSE journal[f]

(* A live process is between its first page write and its commit point.     *)
Committing(f) == journal[f] # NoJournal /\ lock[f] # NoProc

Fresh == {f \in Files : perm[f] = "unallocated"}

Final == {"done", "unprinted", "failed", "crashed"}

OpenSteps == {"connect", "version", "count", "migrateBegin", "migrateExec",
              "migrateCommit", "migrateFinish", "validate"}

TaskSteps == {"ready", "taskBegin", "taskExec", "taskCommit", "taskFinish"}

ShowSteps == {"showConnect", "showValidate", "showQuery"}

PCs == {"start", "create", "closeFile", "abort", "cleanup", "fail", "close",
        "report"}
       \cup OpenSteps \cup TaskSteps \cup ShowSteps \cup Final

TypeOK ==
    /\ path \in Files \cup {NoFile}
    /\ disk \in [Files -> Content]
    /\ journal \in [Files -> Content \cup {NoJournal}]
    /\ perm \in [Files -> {"unallocated", "owner", "broad"}]
    /\ lock \in [Files -> Procs \cup {NoProc}]
    /\ pc \in [Procs -> PCs]
    /\ handle \in [Procs -> Files \cup {NoFile}]
    /\ made \in [Procs -> Files \cup {NoFile}]
    /\ cancelled \in SUBSET Procs
    /\ draft \in [Procs -> Draft \cup {NoDraft}]
    /\ work \in [Procs -> Content]
    /\ answer \in [Procs -> TaskRow \cup {NoTask}]

-----------------------------------------------------------------------------
(* The state file before the first command of a behaviour.                  *)
InitialContents(kind) ==
    CASE kind = "empty"      -> {EmptyContent}
      [] kind = "current"    -> {CurrentContent(EmptyTables)}
      [] kind = "populated"  -> {CurrentContent(WithTask(EmptyTables, s,
                                     InsertedResource(s))) : s \in Seeds}
      [] kind = "broad"      -> {CurrentContent(EmptyTables)}
      [] kind = "unrelated"  -> {[EmptyContent EXCEPT !.objects = {"other"}]}
      [] kind = "negative"   -> {[EmptyContent EXCEPT !.version = -1]}
      [] kind = "future"     -> {[CurrentContent(EmptyTables) EXCEPT !.version = 2]}
      [] kind = "incomplete" -> {[CurrentContent(EmptyTables) EXCEPT
                                     !.objects = {"resources"}]}
      [] kind = "altered"    -> {[CurrentContent(EmptyTables) EXCEPT
                                     !.objects = TableNames \cup {"other"}]}
      [] kind = "wal"        -> {[CurrentContent(EmptyTables) EXCEPT !.mode = "wal"]}
      [] OTHER               -> {}

InitAbsent ==
    /\ "absent" \in InitialFiles
    /\ path = NoFile
    /\ disk = [f \in Files |-> EmptyContent]
    /\ perm = [f \in Files |-> "unallocated"]

InitPresent ==
    \E kind \in InitialFiles, g \in Files :
      \E c \in InitialContents(kind) :
        /\ path = g
        /\ disk = [f \in Files |-> IF f = g THEN c ELSE EmptyContent]
        /\ perm = [f \in Files |->
                     IF f # g THEN "unallocated"
                     ELSE IF kind = "broad" THEN "broad" ELSE "owner"]

Init ==
    /\ InitAbsent \/ InitPresent
    /\ journal = [f \in Files |-> NoJournal]
    /\ lock = [f \in Files |-> NoProc]
    /\ pc = [p \in Procs |-> "start"]
    /\ handle = [p \in Procs |-> NoFile]
    /\ made = [p \in Procs |-> NoFile]
    /\ cancelled = {}
    /\ draft = [p \in Procs |-> NoDraft]
    /\ work = [p \in Procs |-> EmptyContent]
    /\ answer = [p \in Procs |-> NoTask]

-----------------------------------------------------------------------------
Goto(p, l) == pc' = [pc EXCEPT ![p] = l]

(* The locks once process p has given up its own.                           *)
Released(p) == [f \in Files |-> IF lock[f] = p THEN NoProc ELSE lock[f]]

(* A context-aware database call of p that reaches the database: p's        *)
(* context is not done and no other process is inside a commit.  A call     *)
(* that meets another's lock waits for it, or fails (Busy).                 *)
CanCall(p) == p \notin cancelled /\ ~Committing(handle[p])

(* SQLite on a writable connection first restores a journal that a crashed  *)
(* process left behind.                                                     *)
Recover(f) ==
    /\ disk' = [disk EXCEPT ![f] = Committed(f)]
    /\ journal' = [journal EXCEPT ![f] = NoJournal]

(* prepareDatabaseFile: os.Stat of the configured path.                     *)
PrepareStat(p) ==
    /\ p \in Submitters
    /\ pc[p] = "start"
    /\ \/ path = NoFile /\ Goto(p, "create")
       \/ path # NoFile /\ perm[path] = "broad" /\ Goto(p, "failed")
       \/ path # NoFile /\ perm[path] # "broad" /\ Goto(p, "connect")
    /\ UNCHANGED <<fileVars, handle, made, cancelled, draft, work, answer>>

(* prepareDatabaseFile: O_CREATE|O_EXCL with mode 0600; it fails when       *)
(* another process has created the file since the Stat (any other error of  *)
(* the call is FileCallFails).                                              *)
PrepareCreate(p) ==
    /\ pc[p] = "create"
    /\ \/ /\ path # NoFile
          /\ Goto(p, "failed")
          /\ UNCHANGED <<path, disk, perm, made>>
       \/ /\ path = NoFile
          /\ \E f \in Fresh :
               /\ path' = f
               /\ disk' = [disk EXCEPT ![f] = EmptyContent]
               /\ perm' = [perm EXCEPT ![f] = "owner"]
               /\ made' = [made EXCEPT ![p] = f]
          /\ Goto(p, "closeFile")
    /\ UNCHANGED <<journal, lock, handle, cancelled, draft, work, answer>>

(* prepareDatabaseFile: file.Close.                                         *)
PrepareClose(p) ==
    /\ pc[p] = "closeFile"
    /\ Goto(p, "connect")
    /\ UNCHANGED <<fileVars, handle, made, cancelled, draft, work, answer>>

(* sql.Open and PingContext with mode=rwc: SQLite opens whatever the path   *)
(* names now, and creates it, with the mode the umask leaves, if the file   *)
(* seen by PrepareStat is gone.                                             *)
Connect(p) ==
    /\ pc[p] = "connect"
    /\ p \notin cancelled
    /\ \/ /\ path # NoFile
          /\ handle' = [handle EXCEPT ![p] = path]
          /\ UNCHANGED <<path, disk, perm>>
       \/ /\ path = NoFile
          /\ \E f \in Fresh, m \in {"owner", "broad"} :
               /\ path' = f
               /\ disk' = [disk EXCEPT ![f] = EmptyContent]
               /\ perm' = [perm EXCEPT ![f] = m]
               /\ handle' = [handle EXCEPT ![p] = f]
    /\ Goto(p, "version")
    /\ UNCHANGED <<journal, lock, made, cancelled, draft, work, answer>>

(* requireDeleteJournal: PRAGMA journal_mode must answer "delete".          *)
DeleteJournal(c) == c.mode = "delete"

(* Seeded fault: a journal beside the file is taken for another's, so the   *)
(* file is refused.                                                         *)
ReadVersionWithoutJournal(p) ==
    LET f == handle[p]
        c == disk[f]
        refused == \/ journal[f] # NoJournal
                   \/ ~DeleteJournal(c)
                   \/ c.version \notin {0, 1}
    IN  /\ pc[p] = "version"
        /\ CanCall(p)
        /\ Goto(p, IF refused THEN "abort"
                   ELSE IF c.version = 0 THEN "count" ELSE "validate")
        /\ UNCHANGED <<fileVars, handle, made, cancelled, draft, work, answer>>

(* requireDeleteJournal, and migrate's PRAGMA user_version.                 *)
ReadVersion(p) ==
    LET f == handle[p]
        c == Committed(f)
    IN  /\ pc[p] = "version"
        /\ CanCall(p)
        /\ Recover(f)
        /\ \/ /\ ~DeleteJournal(c) \/ c.version \notin {0, 1}
              /\ Goto(p, "abort")
           \/ DeleteJournal(c) /\ c.version = 0 /\ Goto(p, "count")
           \/ DeleteJournal(c) /\ c.version = 1 /\ Goto(p, "validate")
        /\ UNCHANGED <<path, perm, lock, handle, made, cancelled, draft, work, answer>>

(* Seeded fault: a version-zero database is taken to be empty.              *)
CountNothing(p) ==
    /\ pc[p] = "count"
    /\ CanCall(p)
    /\ Recover(handle[p])
    /\ Goto(p, "migrateBegin")
    /\ UNCHANGED <<path, perm, lock, handle, made, cancelled, draft, work, answer>>

(* migrate's COUNT of the schema objects, outside its transaction.          *)
CountObjects(p) ==
    LET f == handle[p]
    IN  /\ pc[p] = "count"
        /\ CanCall(p)
        /\ Recover(f)
        /\ Goto(p, IF Committed(f).objects = {} THEN "migrateBegin" ELSE "abort")
        /\ UNCHANGED <<path, perm, lock, handle, made, cancelled, draft, work, answer>>

(* BeginTx with _txlock=immediate takes the RESERVED lock.  Where another   *)
(* process holds it the call waits, and Busy ends the wait.                 *)
BeginTx(p, from, to) ==
    LET f == handle[p]
    IN  /\ pc[p] = from
        /\ CanCall(p)
        /\ lock[f] = NoProc
        /\ Recover(f)
        /\ lock' = [lock EXCEPT ![f] = p]
        /\ work' = [work EXCEPT ![p] = Committed(f)]
        /\ Goto(p, to)
        /\ UNCHANGED <<path, perm, handle, made, cancelled, draft, answer>>

MigrateBegin(p) == BeginTx(p, "migrateBegin", "migrateExec")

(* The pages of a database whose schema migrate has just created.           *)
Migrated(c) ==
    [version |-> 1, objects |-> c.objects \cup TableNames,
     mode |-> c.mode, tables |-> EmptyTables]

(* Seeded fault: the statements are preceded by DROP TABLE IF EXISTS.       *)
MigrateExecDrops(p) ==
    /\ pc[p] = "migrateExec"
    /\ p \notin cancelled
    /\ work' = [work EXCEPT ![p] = Migrated(@)]
    /\ Goto(p, "migrateCommit")
    /\ UNCHANGED <<fileVars, handle, made, cancelled, draft, answer>>

(* Seeded fault: a migration that fails is tried again, without reading the *)
(* version again.                                                           *)
MigrateExecRetries(p) ==
    LET failed == work[p].objects \cap TableNames # {}
    IN  /\ pc[p] = "migrateExec"
        /\ p \notin cancelled
        /\ work' = [work EXCEPT ![p] = IF failed THEN @ ELSE Migrated(@)]
        /\ lock' = IF failed THEN Released(p) ELSE lock
        /\ Goto(p, IF failed THEN "migrateBegin" ELSE "migrateCommit")
        /\ UNCHANGED <<path, disk, journal, perm, handle, made, cancelled, draft,
                       answer>>

(* The CREATE TABLE statements and PRAGMA user_version = 1; a table that    *)
(* has appeared since CountObjects fails the first of them.                 *)
MigrateExec(p) ==
    /\ pc[p] = "migrateExec"
    /\ p \notin cancelled
    /\ IF work[p].objects \cap TableNames = {}
       THEN /\ work' = [work EXCEPT ![p] = Migrated(work[p])]
            /\ Goto(p, "migrateCommit")
            /\ UNCHANGED lock
       ELSE /\ lock' = Released(p)
            /\ Goto(p, "abort")
            /\ UNCHANGED work
    /\ UNCHANGED <<path, disk, journal, perm, handle, made, cancelled, draft, answer>>

(* Commit: the old pages are in the journal, the new ones go to the file.   *)
(* database/sql refuses to start it when the context is done.               *)
CommitWrite(p, from, to) ==
    LET f == handle[p]
    IN  /\ pc[p] = from
        /\ p \notin cancelled
        /\ journal' = [journal EXCEPT ![f] = disk[f]]
        /\ disk' = [disk EXCEPT ![f] = work[p]]
        /\ Goto(p, to)
        /\ UNCHANGED <<path, perm, lock, handle, made, cancelled, draft, work, answer>>

MigrateCommit(p) == CommitWrite(p, "migrateCommit", "migrateFinish")

(* Commit: removing the journal is the commit point; then the lock goes.    *)
CommitFinish(p, from, to) ==
    /\ pc[p] = from
    /\ journal' = [journal EXCEPT ![handle[p]] = NoJournal]
    /\ lock' = Released(p)
    /\ Goto(p, to)
    /\ UNCHANGED <<path, disk, perm, handle, made, cancelled, draft, work, answer>>

MigrateFinish(p) == CommitFinish(p, "migrateFinish", "validate")

(* validateSchema accepts exactly the three expected tables at version 1.   *)
ValidSchema(c) == c.version = 1 /\ c.objects = TableNames

ValidateSchema(p) ==
    LET f == handle[p]
    IN  /\ pc[p] = "validate"
        /\ CanCall(p)
        /\ Recover(f)
        /\ Goto(p, IF ValidSchema(Committed(f)) THEN "ready" ELSE "abort")
        /\ UNCHANGED <<path, perm, lock, handle, made, cancelled, draft, work, answer>>

(* Seeded fault: cleanup does not ask who created the file.                 *)
AbortOpenAlwaysRemoves(p) ==
    /\ pc[p] = "abort"
    /\ lock' = Released(p)
    /\ handle' = [handle EXCEPT ![p] = NoFile]
    /\ Goto(p, "cleanup")
    /\ UNCHANGED <<path, disk, journal, perm, made, cancelled, draft, work, answer>>

(* Open's error paths: the connection is closed ...                         *)
AbortOpen(p) ==
    /\ pc[p] = "abort"
    /\ lock' = Released(p)
    /\ handle' = [handle EXCEPT ![p] = NoFile]
    /\ Goto(p, IF made[p] # NoFile THEN "cleanup" ELSE "failed")
    /\ UNCHANGED <<path, disk, journal, perm, made, cancelled, draft, work, answer>>

(* ... and, if this call created the file, whatever the path names is       *)
(* removed; so it is when file.Close has failed.                            *)
Cleanup(p) ==
    /\ pc[p] = "cleanup"
    /\ path' = NoFile
    /\ Goto(p, "failed")
    /\ UNCHANGED <<disk, journal, perm, lock, handle, made, cancelled, draft, work, answer>>

-----------------------------------------------------------------------------
(* SubmitManualRepository: snapshot the source, build the draft.            *)
BuildDraft(p) ==
    /\ pc[p] = "ready"
    /\ p \notin cancelled
    /\ \E d \in Offers[p] : draft' = [draft EXCEPT ![p] = d]
    /\ Goto(p, "taskBegin")
    /\ UNCHANGED <<fileVars, handle, made, cancelled, work, answer>>

TaskBegin(p) == BeginTx(p, "taskBegin", "taskExec")

(* CreateTask between BeginTx and Commit.                                   *)
TaskExec(p) ==
    LET t == work[p].tables
        d == draft[p]
    IN  /\ pc[p] = "taskExec"
        /\ p \notin cancelled
        /\ \/ /\ Accepts(t, d)
              /\ \E r \in ResourceFor(t, d) :
                   /\ work' = [work EXCEPT ![p] = [@ EXCEPT !.tables = WithTask(t, d, r)]]
                   /\ answer' = [answer EXCEPT ![p] = StoredTask(d, r)]
              /\ Goto(p, "taskCommit")
              /\ UNCHANGED lock
           \/ /\ ~Accepts(t, d)
              /\ lock' = Released(p)
              /\ Goto(p, "fail")
              /\ UNCHANGED <<work, answer>>
        /\ UNCHANGED <<path, disk, journal, perm, handle, made, cancelled, draft>>

TaskCommit(p) == CommitWrite(p, "taskCommit", "taskFinish")

TaskFinish(p) == CommitFinish(p, "taskFinish", "close")

-----------------------------------------------------------------------------
(* OpenReadOnly: os.Stat.                                                   *)
ShowStat(p) ==
    /\ p \in Readers
    /\ pc[p] = "start"
    /\ Goto(p, IF path = NoFile \/ (path # NoFile /\ perm[path] = "broad")
               THEN "failed" ELSE "showConnect")
    /\ UNCHANGED <<fileVars, handle, made, cancelled, draft, work, answer>>

(* OpenReadOnly: PingContext with mode=ro creates nothing.                  *)
ShowConnect(p) ==
    /\ pc[p] = "showConnect"
    /\ p \notin cancelled
    /\ handle' = [handle EXCEPT ![p] = path]
    /\ Goto(p, IF path = NoFile THEN "fail" ELSE "showValidate")
    /\ UNCHANGED <<fileVars, made, cancelled, draft, work, answer>>

(* OpenReadOnly: requireDeleteJournal and validateSchema.  A read-only      *)
(* connection cannot restore a journal, so SQLite refuses to read at all.   *)
ShowValidate(p) ==
    LET f == handle[p]
    IN  /\ pc[p] = "showValidate"
        /\ CanCall(p)
        /\ Goto(p, IF /\ journal[f] = NoJournal
                      /\ DeleteJournal(disk[f])
                      /\ ValidSchema(disk[f])
                   THEN "showQuery" ELSE "fail")
        /\ UNCHANGED <<fileVars, handle, made, cancelled, draft, work, answer>>

(* Seeded fault: the task is joined with the revision its resource has now. *)
ShowQueryOfCurrent(p) ==
    LET f == handle[p]
        rows == {k \in disk[f].tables.tasks :
                   /\ k.id = Wanted[p]
                   /\ \E r \in disk[f].tables.resources :
                         r.id = k.resource /\ r.material = k.material}
    IN  /\ pc[p] = "showQuery"
        /\ CanCall(p)
        /\ \/ /\ journal[f] = NoJournal
              /\ \E k \in rows : answer' = [answer EXCEPT ![p] = k]
              /\ Goto(p, "close")
           \/ /\ journal[f] # NoJournal \/ rows = {}
              /\ Goto(p, "fail")
              /\ UNCHANGED answer
        /\ UNCHANGED <<fileVars, handle, made, cancelled, draft, work>>

(* Task: SELECT ... FROM tasks WHERE id = ?                                 *)
ShowQuery(p) ==
    LET f == handle[p]
        rows == {k \in disk[f].tables.tasks : k.id = Wanted[p]}
    IN  /\ pc[p] = "showQuery"
        /\ CanCall(p)
        /\ \/ /\ journal[f] = NoJournal
              /\ \E k \in rows : answer' = [answer EXCEPT ![p] = k]
              /\ Goto(p, "close")
           \/ /\ journal[f] # NoJournal \/ rows = {}
              /\ Goto(p, "fail")
              /\ UNCHANGED answer
        /\ UNCHANGED <<fileVars, handle, made, cancelled, draft, work>>

-----------------------------------------------------------------------------
(* The deferred store.Close, which also ends a transaction that a failed    *)
(* Commit left open.                                                        *)
CloseStore(p) ==
    /\ pc[p] \in {"close", "fail"}
    /\ lock' = Released(p)
    /\ handle' = [handle EXCEPT ![p] = NoFile]
    /\ Goto(p, IF pc[p] = "close" THEN "report" ELSE "failed")
    /\ UNCHANGED <<path, disk, journal, perm, made, cancelled, draft, work, answer>>

(* writeJSON to stdout and exit 0.                                          *)
Report(p) ==
    /\ pc[p] = "report"
    /\ Goto(p, "done")
    /\ UNCHANGED <<fileVars, handle, made, cancelled, draft, work, answer>>

-----------------------------------------------------------------------------
(* Seeded fault: an error of Commit is reported after the commit point.     *)
StepFailsAfterCommit(p) ==
    /\ pc[p] \in OpenSteps \cup TaskSteps \cup ShowSteps
    /\ Goto(p, IF pc[p] \in OpenSteps THEN "abort" ELSE "fail")
    /\ IF pc[p] \in {"migrateFinish", "taskFinish"}
       THEN /\ journal' = [journal EXCEPT ![handle[p]] = NoJournal]
            /\ UNCHANGED disk
       ELSE UNCHANGED <<disk, journal>>
    /\ lock' = IF pc[p] \in {"migrateExec", "taskExec"} THEN Released(p) ELSE lock
    /\ UNCHANGED <<path, perm, handle, made, cancelled, draft, work, answer>>

(* A step of p returns an error.  An error before the commit point of a     *)
(* Commit restores the pages; the lock stays with the connection then,      *)
(* while an error of an earlier statement is followed by Rollback.          *)
StepFails(p) ==
    /\ pc[p] \in OpenSteps \cup TaskSteps \cup ShowSteps
    /\ Goto(p, IF pc[p] \in OpenSteps THEN "abort" ELSE "fail")
    /\ IF pc[p] \in {"migrateFinish", "taskFinish"}
       THEN Recover(handle[p])
       ELSE UNCHANGED <<disk, journal>>
    /\ lock' = IF pc[p] \in {"migrateExec", "taskExec"} THEN Released(p) ELSE lock
    /\ UNCHANGED <<path, perm, handle, made, cancelled, draft, work, answer>>

(* An I/O error, a source that cannot be snapshotted.                       *)
Error(p) == "error" \in Faults[p] /\ StepFails(p)

(* An I/O error of os.Stat, OpenFile, file.Close or os.Remove, the calls of *)
(* Open that know no context.  A created file whose Close fails is removed; *)
(* the error of that removal, or of Open's cleanup, is dropped.             *)
FileCallFails(p) ==
    /\ "error" \in Faults[p]
    /\ pc[p] \in {"start", "create", "closeFile", "cleanup"}
    /\ Goto(p, IF pc[p] = "closeFile" THEN "cleanup" ELSE "failed")
    /\ UNCHANGED <<fileVars, handle, made, cancelled, draft, work, answer>>

(* The calls that begin a transaction, read outside one, and commit one.    *)
BeginSteps == {"migrateBegin", "taskBegin"}

ReadSteps == {"version", "count", "validate", "showValidate", "showQuery"}

CommitSteps == {"migrateCommit", "taskCommit"}

(* Another process has a lock on the file that the call p is about to make  *)
(* cannot share: RESERVED when p begins a transaction, PENDING or EXCLUSIVE *)
(* when p reads, SHARED when p commits, and any where a journal is restored.*)
MeetsLock(p) ==
    \E q \in Procs \ {p} :
        LET f == handle[p]
            holds == lock[f] = q
            accesses == handle[q] = f /\ pc[q] \in ReadSteps \cup BeginSteps
        IN  \/ pc[p] \in BeginSteps /\ holds
            \/ pc[p] \in ReadSteps /\ holds /\ pc[q] \notin {"migrateExec", "taskExec"}
            \/ pc[p] \in CommitSteps /\ accesses
            \/ /\ pc[p] \in ReadSteps \cup BeginSteps
               /\ journal[f] # NoJournal
               /\ accesses

(* SQLITE_BUSY: at once where the connection has no busy timeout (that of   *)
(* `task show` sets none, and the driver may not know the key _busy_timeout *)
(* of the other), after up to five seconds of waiting where it has one.     *)
Busy(p) == MeetsLock(p) /\ StepFails(p)

(* Once the context is done every context-aware call fails; a Commit that   *)
(* has started runs to its end.                                             *)
CancelledFails(p) ==
    /\ p \in cancelled
    /\ pc[p] \notin {"migrateFinish", "taskFinish"}
    /\ StepFails(p)

(* SIGINT or SIGTERM.                                                       *)
Cancel(p) ==
    /\ "cancel" \in Faults[p]
    /\ pc[p] \notin Final
    /\ p \notin cancelled
    /\ cancelled' = cancelled \cup {p}
    /\ UNCHANGED <<fileVars, pc, handle, made, draft, work, answer>>

(* The process dies; the kernel drops its lock, its journal stays.          *)
Crash(p) ==
    /\ "crash" \in Faults[p]
    /\ pc[p] \notin Final
    /\ lock' = Released(p)
    /\ handle' = [handle EXCEPT ![p] = NoFile]
    /\ Goto(p, "crashed")
    /\ UNCHANGED <<path, disk, journal, perm, made, cancelled, draft, work, answer>>

(* Writing to stdout fails: exit 1 although the task is stored.             *)
ReportFails(p) ==
    /\ "stdout" \in Faults[p]
    /\ pc[p] = "report"
    /\ Goto(p, "unprinted")
    /\ UNCHANGED <<fileVars, handle, made, cancelled, draft, work, answer>>

(* The command ends before it opens the store: input, configuration.        *)
Refuse(p) ==
    /\ "refuse" \in Faults[p]
    /\ pc[p] = "start"
    /\ Goto(p, "failed")
    /\ UNCHANGED <<fileVars, handle, made, cancelled, draft, work, answer>>

-----------------------------------------------------------------------------
Open(p) ==
    \/ PrepareStat(p) \/ PrepareCreate(p) \/ PrepareClose(p) \/ Connect(p)
    \/ ReadVersion(p) \/ CountObjects(p) \/ MigrateBegin(p) \/ MigrateExec(p) \/ MigrateCommit(p)
    \/ MigrateFinish(p) \/ ValidateSchema(p) \/ AbortOpen(p) \/ Cleanup(p)

CreateTask(p) ==
    BuildDraft(p) \/ TaskBegin(p) \/ TaskExec(p) \/ TaskCommit(p) \/ TaskFinish(p)

Show(p) == ShowStat(p) \/ ShowConnect(p) \/ ShowValidate(p) \/ ShowQuery(p)

(* What p does by itself, and keeps doing while it lives.                   *)
Step(p) ==
    Open(p) \/ CreateTask(p) \/ Show(p) \/ CloseStore(p) \/ Report(p)
    \/ CancelledFails(p)

Fault(p) ==
    \/ Error(p) \/ FileCallFails(p) \/ Busy(p) \/ Cancel(p) \/ Crash(p)
    \/ ReportFails(p) \/ Refuse(p)

Terminated == (\A p \in Procs : pc[p] \in Final) /\ UNCHANGED vars

Next == (\E p \in Procs : Step(p) \/ Fault(p)) \/ Terminated

Fairness == \A p \in Procs : WF_vars(Step(p))

Spec == Init /\ [][Next]_vars

FairSpec == Spec /\ Fairness

-----------------------------------------------------------------------------
(* Safety.                                                                  *)

(* The key constraints, checked by CreateTask's queries and by the schema.  *)
KeysUnique(t) ==
    /\ \A a, b \in t.resources :
         (\/ a.id = b.id
          \/ a.name = b.name
          \/ a.connector = b.connector /\ a.identity = b.identity) => a = b
    /\ \A j, k \in t.tasks : j.id = k.id => j = k

(* Every task's resource snapshot names an onboarded resource.              *)
TasksResolve(t) ==
    \A k \in t.tasks : \E r \in t.resources :
        r.id = k.resource /\ r.name = k.name /\ r.connector = k.connector

(* Every task has exactly its initial history entry.                        *)
HistoryMatches(t) ==
    t.history = {[task |-> k.id, sequence |-> 1, occurredAt |-> k.createdAt] :
                   k \in t.tasks}

(* A resource row holds the material and the time of one task of its own.   *)
RowsFromTasks(t) ==
    \A r \in t.resources : \E k \in t.tasks :
        k.resource = r.id /\ k.material = r.material /\ k.createdAt = r.updatedAt

Consistent(t) ==
    KeysUnique(t) /\ TasksResolve(t) /\ HistoryMatches(t) /\ RowsFromTasks(t)

(* CreateTask "creates the repository/task/history records atomically": in  *)
(* every file, whichever processes failed, were cancelled or crashed while  *)
(* writing it, the committed rows of the three tables fit together.         *)
TablesConsistent == \A f \in Files : Consistent(Committed(f).tables)

(* The tasks that commands have printed before they exited with 0.          *)
Reported == {answer[p] : p \in {q \in Procs : pc[q] = "done"}}

(* The tables behind the configured path.                                   *)
Stored == IF path = NoFile THEN EmptyTables ELSE Committed(path).tables

(* A task that `task submit` or `task show` has printed is in the state     *)
(* file for good: the file is never replaced by one without it, and nothing *)
(* uncommitted is ever printed.                                             *)
ReportedDurable == Reported \subseteq Stored.tasks

(* The repository a submission has read is the one its task's resource is   *)
(* bound to, although the row may have been written by another process      *)
(* between its Snapshot and its transaction.                                *)
TaskOfReadRepository ==
    \A p \in Submitters : pc[p] \in {"close", "report", "done", "unprinted"} =>
        \E r \in Stored.resources :
            /\ r.id = answer[p].resource
            /\ r.connector = draft[p].connector
            /\ r.identity = draft[p].identity

(* No step of any process removes or rewrites a task a file has committed   *)
(* (a crash between CommitWrite and CommitFinish does not either).          *)
CommittedTasksPermanent ==
    [][\A f \in Files :
         Committed(f).tables.tasks \subseteq Committed(f)'.tables.tasks]_vars

(* What CreateTask's UPDATE must leave alone.                               *)
BindingOf(r) == [id |-> r.id, name |-> r.name,
                 connector |-> r.connector, identity |-> r.identity]

(* Once onboarded, a resource keeps its id, name, upstream identity and     *)
(* onboarding time whatever later submissions say.                          *)
ResourceBindingPermanent ==
    [][\A f \in Files : \A r \in Committed(f).tables.resources :
         \E s \in Committed(f)'.tables.resources :
            BindingOf(s) = BindingOf(r) /\ s.onboardedAt = r.onboardedAt]_vars

(* The task k was written from the draft d.                                 *)
From(k, d) == k.id = d.id /\ k.payload = d.payload /\ k.createdAt = d.createdAt

(* Submissions are told apart by their payload.                             *)
PayloadsDistinct ==
    /\ \A p, q \in Submitters : \A d \in Offers[p], e \in Offers[q] :
         d.payload = e.payload => p = q
    /\ \A p \in Submitters, s \in Seeds : \A d \in Offers[p] : d.payload # s.payload

(* A submission that reports failure, by conflict, error or cancellation at *)
(* any step, has left no task in any file.                                  *)
FailedLeavesNothing ==
    PayloadsDistinct =>
      \A p \in Submitters, f \in Files :
        pc[p] \in {"fail", "failed"} /\ draft[p] # NoDraft =>
          \A k \in Committed(f).tables.tasks : ~From(k, draft[p])

(* Open "refuses unsupported or unrelated existing schemas rather than      *)
(* adopting them": it neither rewrites nor removes such a file.             *)
Supported(c) ==
    /\ c.mode = "delete"
    /\ \/ c.version = 0 /\ c.objects = {}
       \/ c.version = 1 /\ c.objects = TableNames

ForeignUntouched ==
    [][\A f \in Files : path = f /\ ~Supported(Committed(f)) =>
         path' = f /\ Committed(f)' = Committed(f) /\ perm'[f] = perm[f]]_vars

(* Open removes the path's file by name in two places, where closing the    *)
(* file it has created fails and in its cleanup; each time it is the file   *)
(* the same process created, never one that replaced it.                    *)
OnlyCreatorRemoves ==
    [][path # NoFile /\ path' = NoFile =>
         \E p \in Submitters : pc[p] = "cleanup" /\ made[p] = path]_vars

(* "the state file is created with owner-only permissions": no submission   *)
(* leaves a state file others can read.                                     *)
StateFilePrivate == path # NoFile => perm[path] # "broad"

(* A `task show` that answers that there is no such task is never wrong     *)
(* about a task some command has already printed.                           *)
ShowFindsReported ==
    [][\A p \in Readers : ShowQuery(p) /\ journal[handle[p]] = NoJournal
                            /\ pc'[p] = "fail" =>
         \A k \in Reported : k.id # Wanted[p]]_vars

(* The draft cannot be stored next to the rows of t, now or later.          *)
Clashes(t, d) ==
    \/ Conflict(t, d)
    \/ \E r \in t.resources : r.id = d.candidate
    \/ \E k \in t.tasks : k.id = d.id

Failing == {"abort", "cleanup", "fail", "failed"}

(* Whatever goes wrong in the others, a dead process or a failed command    *)
(* leaves nothing behind that refuses the next one: a submission without    *)
(* I/O errors of its own fails only because a live process has the file     *)
(* locked at that moment, because another one has migrated the empty file   *)
(* first, or because its draft clashes with what is stored.                 *)
NoSpuriousFailure ==
    [][\A p \in Submitters :
         Faults[p] \subseteq {"crash"} /\ pc[p] \notin Failing /\ pc'[p] \in Failing =>
           \/ MeetsLock(p)
           \/ pc[p] \in {"count", "migrateExec"} /\ ValidSchema(Committed(handle[p]))
           \/ draft[p] # NoDraft /\ Clashes(Stored, draft[p])]_vars

-----------------------------------------------------------------------------
(* Liveness.  Every command exits, whoever else fails, is cancelled or dies *)
(* holding the lock or inside a commit.                                     *)
Terminates == <>(\A p \in Procs : pc[p] \in Final)

-----------------------------------------------------------------------------
(* On a state file that exists, the commands implement the promises of      *)
(* TaskStore: a submission takes effect at CommitFinish.                    *)
Binding == [id : ResourceIDs, name : Names,
            connector : Connectors, identity : Identities]

TS == INSTANCE TaskStore WITH
        Task     <- TaskRow,
        tasks    <- Stored.tasks,
        bindings <- {BindingOf(r) : r \in Stored.resources},
        printed  <- Reported

TaskStoreSpec == TS!Spec
=============================================================================
