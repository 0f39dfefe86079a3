------------------------- MODULE SqliteStoreProofs -------------------------
(***************************************************************************)
(* Theorems about SqliteStore for every set of processes, files and drafts, *)
(* every kind of initial state file and every combination of faults: types, *)
(* and then the invariant by which the tables of every state file stay      *)
(* consistent and nothing committed is lost.                                *)
(***************************************************************************)
EXTENDS SqliteStore, TLAPS

(* The steps at which a process has the state file open ...                 *)
Connected == {"version", "count", "migrateBegin", "migrateExec",
              "migrateCommit", "migrateFinish", "validate", "ready",
              "taskBegin", "taskExec", "taskCommit", "taskFinish",
              "showValidate", "showQuery"}

(* ... those only a submitter takes ...                                     *)
Submitting == {"create", "closeFile", "abort", "cleanup"} \cup OpenSteps \cup TaskSteps

(* ... those after it has built its draft ...                               *)
Drafted == {"taskBegin", "taskExec", "taskCommit", "taskFinish"}

(* ... and those at which it has a task to print.                           *)
Answered == {"taskCommit", "taskFinish", "close", "report", "done"}

WiredAt(p) ==
    /\ pc[p] \in Connected => handle[p] \in Files
    /\ pc[p] \in Submitting => p \in Submitters
    /\ pc[p] \in Drafted => draft[p] \in Draft
    /\ pc[p] \in Answered => answer[p] \in TaskRow

Wired == \A p \in Procs : WiredAt(p)

-----------------------------------------------------------------------------
(* CreateTask's statements keep the tables' types.                          *)
LEMMA CreatesTyped ==
    ASSUME NEW t \in Tables, NEW d \in Draft, NEW r \in ResourceFor(t, d)
    PROVE  /\ r \in ResourceRow
           /\ StoredTask(d, r) \in TaskRow
           /\ WithTask(t, d, r) \in Tables
<1>1. r \in ResourceRow
  <2>1. CASE Named(t, d) = {}
    BY <2>1 DEF ResourceFor, Draft, InsertedResource, ResourceRow
  <2>2. CASE Named(t, d) # {}
    <3>1. PICK old \in t.resources : r = UpdatedResource(old, d)
      BY <2>2 DEF ResourceFor, Named
    <3>2. old \in ResourceRow
      BY DEF Tables
    <3> QED BY <3>1, <3>2 DEF UpdatedResource, ResourceRow, Draft
  <2> QED BY <2>1, <2>2
<1>2. StoredTask(d, r) \in TaskRow
  BY <1>1 DEF StoredTask, Draft, ResourceRow, TaskRow
<1>3. InitialHistory(d) \in HistoryRow
  BY DEF InitialHistory, Draft, HistoryRow
<1>4. WithTask(t, d, r) \in Tables
  BY <1>1, <1>2, <1>3 DEF WithTask, Tables
<1> QED BY <1>1, <1>2, <1>4

(* An empty and a migrated database are databases.                          *)
LEMMA ContentsTyped ==
    /\ EmptyTables \in Tables
    /\ EmptyContent \in Content
    /\ \A t \in Tables : CurrentContent(t) \in Content
<1>1. EmptyTables \in Tables
  BY DEF EmptyTables, Tables
<1> QED BY <1>1 DEF EmptyContent, CurrentContent, Content, Objects, TableNames

(* So is whatever may be at the configured path at the start.               *)
LEMMA InitialContentsTyped ==
    ASSUME NEW kind, NEW c \in InitialContents(kind)
    PROVE  c \in Content
<1>1. CASE kind = "populated"
  <2>1. PICK s \in Seeds :
          c = CurrentContent(WithTask(EmptyTables, s, InsertedResource(s)))
    BY <1>1 DEF InitialContents
  <2>2. s \in Draft
    BY ConstantsAssumption
  <2>3. InsertedResource(s) \in ResourceFor(EmptyTables, s)
    BY DEF ResourceFor, Named, EmptyTables
  <2> QED BY <2>1, <2>2, <2>3, CreatesTyped, ContentsTyped
<1>2. CASE kind # "populated"
  BY <1>2, ContentsTyped
     DEF InitialContents, Content, EmptyContent, CurrentContent, Objects, TableNames
<1> QED BY <1>1, <1>2

(* The type invariant holds before the first command.                       *)
LEMMA InitTyped == Init => TypeOK /\ Wired
<1> SUFFICES ASSUME Init PROVE TypeOK /\ Wired
  OBVIOUS
<1>1. /\ path \in Files \cup {NoFile}
      /\ disk \in [Files -> Content]
      /\ perm \in [Files -> {"unallocated", "owner", "broad"}]
  <2>1. CASE InitAbsent
    BY <2>1, ContentsTyped DEF InitAbsent
  <2>2. CASE InitPresent
    BY <2>2, ContentsTyped, InitialContentsTyped DEF InitPresent
  <2> QED BY <2>1, <2>2 DEF Init
<1>2. TypeOK
  BY <1>1, ContentsTyped DEF Init, TypeOK, PCs
<1>3. Wired
  BY
     DEF Init, Wired, WiredAt, Connected, Submitting, Drafted, Answered, OpenSteps,
         TaskSteps
<1> QED BY <1>2, <1>3

(* What a reader finds in a file is a database.                             *)
LEMMA CommittedTyped ==
    ASSUME TypeOK, NEW f \in Files
    PROVE  Committed(f) \in Content
BY DEF TypeOK, Committed

(* Restoring a journal leaves a database.                                   *)
LEMMA RecoverTyped ==
    ASSUME TypeOK, NEW f \in Files, Recover(f)
    PROVE  disk' \in [Files -> Content] /\ journal' \in [Files -> Content \cup {NoJournal}]
BY CommittedTyped DEF TypeOK, Recover

(* Giving up locks leaves every lock with a process or nobody.              *)
LEMMA ReleasedTyped ==
    ASSUME TypeOK, NEW p \in Procs
    PROVE  Released(p) \in [Files -> Procs \cup {NoProc}]
BY DEF TypeOK, Released

(* A step of one process leaves the state of the others alone.              *)
Alone(p) ==
    \A q \in Procs \ {p} :
        /\ pc'[q] = pc[q]
        /\ handle'[q] = handle[q]
        /\ made'[q] = made[q]
        /\ draft'[q] = draft[q]
        /\ work'[q] = work[q]
        /\ answer'[q] = answer[q]

(* One case per action: the other processes keep their state.               *)
LEMMA StepAlone ==
    ASSUME TypeOK, NEW p \in Procs, Step(p) \/ Fault(p)
    PROVE  Alone(p)
<1>1. CASE PrepareStat(p)
  BY <1>1 DEF PrepareStat, TypeOK, Alone, Goto
<1>2. CASE PrepareCreate(p)
  BY <1>2 DEF PrepareCreate, TypeOK, Alone, Goto
<1>3. CASE Connect(p)
  BY <1>3 DEF Connect, TypeOK, Alone, Goto
<1>4. CASE ReadVersion(p)
  BY <1>4 DEF ReadVersion, TypeOK, Alone, Goto
<1>5. CASE CountObjects(p)
  BY <1>5 DEF CountObjects, TypeOK, Alone, Goto
<1>6. CASE MigrateBegin(p)
  BY <1>6 DEF MigrateBegin, BeginTx, TypeOK, Alone, Goto
<1>7. CASE MigrateExec(p)
  BY <1>7 DEF MigrateExec, Migrated, TypeOK, Alone, Goto
<1>8. CASE MigrateCommit(p)
  BY <1>8 DEF MigrateCommit, CommitWrite, TypeOK, Alone, Goto
<1>9. CASE MigrateFinish(p)
  BY <1>9 DEF MigrateFinish, CommitFinish, TypeOK, Alone, Goto
<1>10. CASE ValidateSchema(p)
  BY <1>10 DEF ValidateSchema, TypeOK, Alone, Goto
<1>11. CASE AbortOpen(p)
  BY <1>11 DEF AbortOpen, TypeOK, Alone, Goto
<1>12. CASE Cleanup(p)
  BY <1>12 DEF Cleanup, TypeOK, Alone, Goto
<1>13. CASE BuildDraft(p)
  BY <1>13 DEF BuildDraft, TypeOK, Alone, Goto
<1>14. CASE TaskBegin(p)
  BY <1>14 DEF TaskBegin, BeginTx, TypeOK, Alone, Goto
<1>15. CASE TaskExec(p)
  BY <1>15 DEF TaskExec, TypeOK, Alone, Goto
<1>16. CASE TaskCommit(p)
  BY <1>16 DEF TaskCommit, CommitWrite, TypeOK, Alone, Goto
<1>17. CASE TaskFinish(p)
  BY <1>17 DEF TaskFinish, CommitFinish, TypeOK, Alone, Goto
<1>18. CASE ShowStat(p)
  BY <1>18 DEF ShowStat, TypeOK, Alone, Goto
<1>19. CASE ShowConnect(p)
  BY <1>19 DEF ShowConnect, TypeOK, Alone, Goto
<1>20. CASE ShowValidate(p)
  BY <1>20 DEF ShowValidate, TypeOK, Alone, Goto
<1>21. CASE ShowQuery(p)
  BY <1>21 DEF ShowQuery, TypeOK, Alone, Goto
<1>22. CASE CloseStore(p)
  BY <1>22 DEF CloseStore, TypeOK, Alone, Goto
<1>23. CASE Report(p)
  BY <1>23 DEF Report, TypeOK, Alone, Goto
<1>24. CASE CancelledFails(p)
  BY <1>24 DEF CancelledFails, StepFails, TypeOK, Alone, Goto
<1>25. CASE Error(p)
  BY <1>25 DEF Error, StepFails, TypeOK, Alone, Goto
<1>26. CASE Cancel(p)
  BY <1>26 DEF Cancel, TypeOK, Alone, Goto
<1>27. CASE Crash(p)
  BY <1>27 DEF Crash, TypeOK, Alone, Goto
<1>28. CASE ReportFails(p)
  BY <1>28 DEF ReportFails, TypeOK, Alone, Goto
<1>29. CASE Refuse(p)
  BY <1>29 DEF Refuse, TypeOK, Alone, Goto
<1>30. CASE PrepareClose(p)
  BY <1>30 DEF PrepareClose, TypeOK, Alone, Goto
<1>31. CASE FileCallFails(p)
  BY <1>31 DEF FileCallFails, TypeOK, Alone, Goto
<1>32. CASE Busy(p)
  BY <1>32 DEF Busy, StepFails, TypeOK, Alone, Goto
<1> QED
  BY <1>1, <1>2, <1>3, <1>4, <1>5, <1>6, <1>7, <1>8, <1>9, <1>10, <1>11, <1>12, <1>13,
     <1>14, <1>15, <1>16, <1>17, <1>18, <1>19, <1>20, <1>21, <1>22, <1>23, <1>24,
     <1>25, <1>26, <1>27, <1>28, <1>29, <1>30, <1>31, <1>32
     DEF Step, Fault, Open, CreateTask, Show

(* The type invariant and the wiring of handles are inductive.              *)
LEMMA NextTyped == TypeOK /\ Wired /\ [Next]_vars => TypeOK' /\ Wired'
<1> SUFFICES ASSUME TypeOK, Wired, [Next]_vars PROVE TypeOK' /\ Wired'
  OBVIOUS
<1>1. ASSUME NEW p \in Procs, Step(p) \/ Fault(p) PROVE TypeOK' /\ Wired'
  <2> USE DEF Goto, fileVars
  <2>0. WiredAt(p)
    BY DEF Wired
  <2>1. ASSUME PrepareStat(p) PROVE TypeOK' /\ WiredAt(p)'
    <3>1. TypeOK'
      BY <2>1 DEF PrepareStat, TypeOK, PCs, OpenSteps, TaskSteps, ShowSteps, Final
    <3>2. WiredAt(p)'
      BY <2>1, <2>0, <3>1
         DEF PrepareStat, TypeOK, WiredAt, Connected, Submitting, Drafted,
         Answered, OpenSteps, TaskSteps, ShowSteps
    <3> QED BY <3>1, <3>2
  <2>2. ASSUME PrepareCreate(p) PROVE TypeOK' /\ WiredAt(p)'
    <3>1. TypeOK'
      <4>1. CASE path # NoFile
        BY <2>2, <4>1 DEF PrepareCreate, TypeOK, PCs, OpenSteps, Final
      <4>2. CASE path = NoFile
        <5>1. PICK f \in Files :
                /\ path' = f
                /\ disk' = [disk EXCEPT ![f] = EmptyContent]
                /\ perm' = [perm EXCEPT ![f] = "owner"]
                /\ made' = [made EXCEPT ![p] = f]
          BY <2>2, <4>2 DEF PrepareCreate, Fresh
        <5>2. EmptyContent \in Content
          BY ContentsTyped
        <5> QED BY <2>2, <4>2, <5>1, <5>2 DEF PrepareCreate, TypeOK, PCs, OpenSteps
      <4> QED BY <4>1, <4>2
    <3>2. WiredAt(p)'
      BY <2>2, <2>0, <3>1
         DEF PrepareCreate, TypeOK, WiredAt, Connected, Submitting, Drafted,
         Answered, OpenSteps, TaskSteps, ShowSteps
    <3> QED BY <3>1, <3>2
  <2>3. ASSUME Connect(p) PROVE TypeOK' /\ WiredAt(p)'
    <3>1. TypeOK'
      <4>1. CASE path # NoFile
        BY <2>3, <4>1 DEF Connect, TypeOK, PCs, OpenSteps, Final
      <4>2. CASE path = NoFile
        <5>1. PICK f \in Files, m \in {"owner", "broad"} :
                /\ path' = f
                /\ disk' = [disk EXCEPT ![f] = EmptyContent]
                /\ perm' = [perm EXCEPT ![f] = m]
                /\ handle' = [handle EXCEPT ![p] = f]
          BY <2>3, <4>2 DEF Connect, Fresh
        <5>2. EmptyContent \in Content
          BY ContentsTyped
        <5> QED BY <2>3, <4>2, <5>1, <5>2 DEF Connect, TypeOK, PCs, OpenSteps
      <4> QED BY <4>1, <4>2
    <3>2. WiredAt(p)'
      <4>1. pc'[p] = "version" /\ handle'[p] \in Files
        BY <2>3 DEF Connect, TypeOK, Fresh
      <4>2. p \in Submitters
        BY <2>3, <2>0 DEF Connect, WiredAt, Submitting, OpenSteps
      <4> QED
        BY <4>1, <4>2
           DEF WiredAt, Connected, Submitting, Drafted, Answered, OpenSteps, TaskSteps
    <3> QED BY <3>1, <3>2
  <2>4. ASSUME ReadVersion(p) PROVE TypeOK' /\ WiredAt(p)'
    <3>1. TypeOK'
      <4>1. handle[p] \in Files
        BY <2>4, <2>0 DEF ReadVersion, WiredAt, Connected
      <4>2. Committed(handle[p]) \in Content
        BY <4>1, CommittedTyped
      <4>3. Recover(handle[p])
        BY <2>4 DEF ReadVersion
      <4>4. disk' \in [Files -> Content] /\ journal' \in [Files -> Content \cup {NoJournal}]
        BY <4>1, <4>3, RecoverTyped
      <4> QED
        BY <2>4, <4>1, <4>2, <4>4
           DEF ReadVersion, TypeOK, PCs, OpenSteps, TaskSteps, ShowSteps, Final
    <3>2. WiredAt(p)'
      BY <2>4, <2>0, <3>1
         DEF ReadVersion, TypeOK, WiredAt, Connected, Submitting, Drafted,
         Answered, OpenSteps, TaskSteps, ShowSteps
    <3> QED BY <3>1, <3>2
  <2>5. ASSUME CountObjects(p) PROVE TypeOK' /\ WiredAt(p)'
    <3>1. TypeOK'
      <4>1. handle[p] \in Files
        BY <2>5, <2>0 DEF CountObjects, WiredAt, Connected
      <4>2. Committed(handle[p]) \in Content
        BY <4>1, CommittedTyped
      <4>3. Recover(handle[p])
        BY <2>5 DEF CountObjects
      <4>4. disk' \in [Files -> Content] /\ journal' \in [Files -> Content \cup {NoJournal}]
        BY <4>1, <4>3, RecoverTyped
      <4> QED
        BY <2>5, <4>1, <4>2, <4>4
           DEF CountObjects, TypeOK, PCs, OpenSteps, TaskSteps, ShowSteps, Final
    <3>2. WiredAt(p)'
      BY <2>5, <2>0, <3>1
         DEF CountObjects, TypeOK, WiredAt, Connected, Submitting, Drafted,
         Answered, OpenSteps, TaskSteps, ShowSteps
    <3> QED BY <3>1, <3>2
  <2>6. ASSUME MigrateBegin(p) PROVE TypeOK' /\ WiredAt(p)'
    <3>1. TypeOK'
      <4>1. handle[p] \in Files
        BY <2>6, <2>0 DEF MigrateBegin, BeginTx, WiredAt, Connected
      <4>2. Committed(handle[p]) \in Content
        BY <4>1, CommittedTyped
      <4>3. Recover(handle[p])
        BY <2>6 DEF MigrateBegin, BeginTx
      <4>4. disk' \in [Files -> Content] /\ journal' \in [Files -> Content \cup {NoJournal}]
        BY <4>1, <4>3, RecoverTyped
      <4> QED
        BY <2>6, <4>1, <4>2, <4>4
           DEF MigrateBegin, BeginTx, TypeOK, PCs, OpenSteps, TaskSteps, ShowSteps,
               Final
    <3>2. WiredAt(p)'
      BY <2>6, <2>0, <3>1
         DEF MigrateBegin, BeginTx, TypeOK, WiredAt, Connected, Submitting, Drafted,
         Answered, OpenSteps, TaskSteps, ShowSteps
    <3> QED BY <3>1, <3>2
  <2>7. ASSUME MigrateExec(p) PROVE TypeOK' /\ WiredAt(p)'
    <3>1. TypeOK'
      <4>1. CASE work[p].objects \cap TableNames = {}
        <5>1. [version |-> 1, objects |-> work[p].objects \cup TableNames,
               mode |-> work[p].mode, tables |-> EmptyTables] \in Content
          BY ContentsTyped DEF TypeOK, Content, Objects
        <5> QED BY <2>7, <4>1, <5>1 DEF MigrateExec, Migrated, TypeOK, PCs, OpenSteps
      <4>2. CASE work[p].objects \cap TableNames # {}
        BY <2>7, <4>2, ReleasedTyped DEF MigrateExec, Migrated, TypeOK, PCs
      <4> QED BY <4>1, <4>2
    <3>2. WiredAt(p)'
      BY <2>7, <2>0, <3>1
         DEF MigrateExec, Migrated, TypeOK, WiredAt, Connected, Submitting, Drafted,
         Answered, OpenSteps, TaskSteps, ShowSteps
    <3> QED BY <3>1, <3>2
  <2>8. ASSUME MigrateCommit(p) PROVE TypeOK' /\ WiredAt(p)'
    <3>1. TypeOK'
      BY <2>8
         DEF MigrateCommit, CommitWrite, TypeOK, PCs, OpenSteps, TaskSteps, ShowSteps,
             Final
    <3>2. WiredAt(p)'
      BY <2>8, <2>0, <3>1
         DEF MigrateCommit, CommitWrite, TypeOK, WiredAt, Connected, Submitting,
             Drafted,
         Answered, OpenSteps, TaskSteps, ShowSteps
    <3> QED BY <3>1, <3>2
  <2>9. ASSUME MigrateFinish(p) PROVE TypeOK' /\ WiredAt(p)'
    <3>1. TypeOK'
      BY <2>9, ReleasedTyped
         DEF MigrateFinish, CommitFinish, TypeOK, PCs, OpenSteps, TaskSteps,
             ShowSteps, Final
    <3>2. WiredAt(p)'
      BY <2>9, <2>0, <3>1
         DEF MigrateFinish, CommitFinish, TypeOK, WiredAt, Connected, Submitting,
             Drafted,
         Answered, OpenSteps, TaskSteps, ShowSteps
    <3> QED BY <3>1, <3>2
  <2>10. ASSUME ValidateSchema(p) PROVE TypeOK' /\ WiredAt(p)'
    <3>1. TypeOK'
      <4>1. handle[p] \in Files
        BY <2>10, <2>0 DEF ValidateSchema, WiredAt, Connected
      <4>2. Committed(handle[p]) \in Content
        BY <4>1, CommittedTyped
      <4>3. Recover(handle[p])
        BY <2>10 DEF ValidateSchema
      <4>4. disk' \in [Files -> Content] /\ journal' \in [Files -> Content \cup {NoJournal}]
        BY <4>1, <4>3, RecoverTyped
      <4> QED
        BY <2>10, <4>1, <4>2, <4>4
           DEF ValidateSchema, TypeOK, PCs, OpenSteps, TaskSteps, ShowSteps, Final
    <3>2. WiredAt(p)'
      BY <2>10, <2>0, <3>1
         DEF ValidateSchema, TypeOK, WiredAt, Connected, Submitting, Drafted,
         Answered, OpenSteps, TaskSteps, ShowSteps
    <3> QED BY <3>1, <3>2
  <2>11. ASSUME AbortOpen(p) PROVE TypeOK' /\ WiredAt(p)'
    <3>1. TypeOK'
      BY <2>11, ReleasedTyped
         DEF AbortOpen, TypeOK, PCs, OpenSteps, TaskSteps, ShowSteps, Final
    <3>2. WiredAt(p)'
      BY <2>11, <2>0, <3>1
         DEF AbortOpen, TypeOK, WiredAt, Connected, Submitting, Drafted,
         Answered, OpenSteps, TaskSteps, ShowSteps
    <3> QED BY <3>1, <3>2
  <2>12. ASSUME Cleanup(p) PROVE TypeOK' /\ WiredAt(p)'
    <3>1. TypeOK'
      BY <2>12 DEF Cleanup, TypeOK, PCs, OpenSteps, TaskSteps, ShowSteps, Final
    <3>2. WiredAt(p)'
      BY <2>12, <2>0, <3>1 DEF Cleanup, TypeOK, WiredAt, Connected, Submitting, Drafted,
         Answered, OpenSteps, TaskSteps, ShowSteps
    <3> QED BY <3>1, <3>2
  <2>13. ASSUME BuildDraft(p) PROVE TypeOK' /\ WiredAt(p)'
    <3>1. TypeOK'
      <4>1. PICK e \in Offers[p] : draft' = [draft EXCEPT ![p] = e]
        BY <2>13 DEF BuildDraft
      <4>2. e \in Draft
        BY <2>13, <2>0, ConstantsAssumption
           DEF BuildDraft, WiredAt, Submitting, TaskSteps
      <4> QED BY <2>13, <4>1, <4>2 DEF BuildDraft, TypeOK, PCs, TaskSteps
    <3>2. WiredAt(p)'
      <4>1. pc'[p] = "taskBegin" /\ handle' = handle
        BY <2>13 DEF BuildDraft, TypeOK
      <4>2. p \in Submitters /\ handle[p] \in Files
        BY <2>13, <2>0 DEF BuildDraft, WiredAt, Submitting, TaskSteps, Connected
      <4>3. draft'[p] \in Offers[p]
        BY <2>13 DEF BuildDraft, TypeOK
      <4>4. draft'[p] \in Draft
        BY <4>2, <4>3, ConstantsAssumption
      <4> QED
        BY <4>1, <4>2, <4>4
           DEF WiredAt, Connected, Submitting, Drafted, Answered, OpenSteps, TaskSteps
    <3> QED BY <3>1, <3>2
  <2>14. ASSUME TaskBegin(p) PROVE TypeOK' /\ WiredAt(p)'
    <3>1. TypeOK'
      <4>1. handle[p] \in Files
        BY <2>14, <2>0 DEF TaskBegin, BeginTx, WiredAt, Connected
      <4>2. Committed(handle[p]) \in Content
        BY <4>1, CommittedTyped
      <4>3. Recover(handle[p])
        BY <2>14 DEF TaskBegin, BeginTx
      <4>4. disk' \in [Files -> Content] /\ journal' \in [Files -> Content \cup {NoJournal}]
        BY <4>1, <4>3, RecoverTyped
      <4> QED
        BY <2>14, <4>1, <4>2, <4>4
           DEF TaskBegin, BeginTx, TypeOK, PCs, OpenSteps, TaskSteps, ShowSteps, Final
    <3>2. WiredAt(p)'
      BY <2>14, <2>0, <3>1
         DEF TaskBegin, BeginTx, TypeOK, WiredAt, Connected, Submitting, Drafted,
         Answered, OpenSteps, TaskSteps, ShowSteps
    <3> QED BY <3>1, <3>2
  <2>15. ASSUME TaskExec(p) PROVE TypeOK' /\ WiredAt(p)'
    <3>1. TypeOK'
      <4>1. work[p].tables \in Tables /\ draft[p] \in Draft
        BY <2>15, <2>0 DEF TaskExec, TypeOK, Content, WiredAt, Drafted
      <4>2. CASE Accepts(work[p].tables, draft[p])
        <5>1. PICK r \in ResourceFor(work[p].tables, draft[p]) :
                /\ work' = [work EXCEPT ![p] =
                     [work[p] EXCEPT !.tables = WithTask(work[p].tables, draft[p], r)]]
                /\ answer' = [answer EXCEPT ![p] = StoredTask(draft[p], r)]
          BY <2>15, <4>2 DEF TaskExec
        <5>2. /\ WithTask(work[p].tables, draft[p], r) \in Tables
              /\ StoredTask(draft[p], r) \in TaskRow
          BY <4>1, CreatesTyped
        <5>3. [work[p] EXCEPT !.tables = WithTask(work[p].tables, draft[p], r)] \in Content
          <6>1. work[p] \in Content
            BY DEF TypeOK
          <6> QED BY <5>2, <6>1 DEF Content
        <5> QED BY <2>15, <4>2, <5>1, <5>2, <5>3 DEF TaskExec, TypeOK, PCs, TaskSteps
      <4>3. CASE ~Accepts(work[p].tables, draft[p])
        BY <2>15, <4>3, ReleasedTyped DEF TaskExec, TypeOK, PCs
      <4> QED BY <4>2, <4>3
    <3>2. WiredAt(p)'
      <4>1. /\ pc[p] = "taskExec" /\ pc'[p] \in {"taskCommit", "fail"}
            /\ handle' = handle /\ draft' = draft
        BY <2>15 DEF TaskExec, TypeOK
      <4>2. p \in Submitters /\ handle[p] \in Files /\ draft[p] \in Draft
        BY <4>1, <2>0 DEF WiredAt, Submitting, TaskSteps, Connected, Drafted
      <4>3. pc'[p] = "taskCommit" => answer'[p] \in TaskRow
        <5> SUFFICES ASSUME pc'[p] = "taskCommit" PROVE answer'[p] \in TaskRow
          OBVIOUS
        <5>1. PICK r \in ResourceFor(work[p].tables, draft[p]) :
                answer' = [answer EXCEPT ![p] = StoredTask(draft[p], r)]
          BY <2>15 DEF TaskExec, TypeOK
        <5>2. work[p].tables \in Tables
          BY DEF TypeOK, Content
        <5> QED BY <5>1, <5>2, <4>2, CreatesTyped DEF TypeOK
      <4> QED
        BY <4>1, <4>2, <4>3
           DEF WiredAt, Connected, Submitting, Drafted, Answered, OpenSteps, TaskSteps
    <3> QED BY <3>1, <3>2
  <2>16. ASSUME TaskCommit(p) PROVE TypeOK' /\ WiredAt(p)'
    <3>1. TypeOK'
      BY <2>16
         DEF TaskCommit, CommitWrite, TypeOK, PCs, OpenSteps, TaskSteps, ShowSteps,
             Final
    <3>2. WiredAt(p)'
      BY <2>16, <2>0, <3>1
         DEF TaskCommit, CommitWrite, TypeOK, WiredAt, Connected, Submitting, Drafted,
         Answered, OpenSteps, TaskSteps, ShowSteps
    <3> QED BY <3>1, <3>2
  <2>17. ASSUME TaskFinish(p) PROVE TypeOK' /\ WiredAt(p)'
    <3>1. TypeOK'
      BY <2>17, ReleasedTyped
         DEF TaskFinish, CommitFinish, TypeOK, PCs, OpenSteps, TaskSteps, ShowSteps,
             Final
    <3>2. WiredAt(p)'
      BY <2>17, <2>0, <3>1
         DEF TaskFinish, CommitFinish, TypeOK, WiredAt, Connected, Submitting,
             Drafted,
         Answered, OpenSteps, TaskSteps, ShowSteps
    <3> QED BY <3>1, <3>2
  <2>18. ASSUME ShowStat(p) PROVE TypeOK' /\ WiredAt(p)'
    <3>1. TypeOK'
      BY <2>18 DEF ShowStat, TypeOK, PCs, OpenSteps, TaskSteps, ShowSteps, Final
    <3>2. WiredAt(p)'
      BY <2>18, <2>0, <3>1
         DEF ShowStat, TypeOK, WiredAt, Connected, Submitting, Drafted,
         Answered, OpenSteps, TaskSteps, ShowSteps
    <3> QED BY <3>1, <3>2
  <2>19. ASSUME ShowConnect(p) PROVE TypeOK' /\ WiredAt(p)'
    <3>1. TypeOK'
      BY <2>19 DEF ShowConnect, TypeOK, PCs, OpenSteps, TaskSteps, ShowSteps, Final
    <3>2. WiredAt(p)'
      BY <2>19, <2>0, <3>1
         DEF ShowConnect, TypeOK, WiredAt, Connected, Submitting, Drafted,
         Answered, OpenSteps, TaskSteps, ShowSteps
    <3> QED BY <3>1, <3>2
  <2>20. ASSUME ShowValidate(p) PROVE TypeOK' /\ WiredAt(p)'
    <3>1. TypeOK'
      BY <2>20 DEF ShowValidate, TypeOK, PCs, OpenSteps, TaskSteps, ShowSteps, Final
    <3>2. WiredAt(p)'
      BY <2>20, <2>0, <3>1
         DEF ShowValidate, TypeOK, WiredAt, Connected, Submitting, Drafted,
         Answered, OpenSteps, TaskSteps, ShowSteps
    <3> QED BY <3>1, <3>2
  <2>21. ASSUME ShowQuery(p) PROVE TypeOK' /\ WiredAt(p)'
    <3>0. disk[handle[p]].tables.tasks \subseteq TaskRow
      <4>1. handle[p] \in Files
        BY <2>21, <2>0 DEF ShowQuery, WiredAt, Connected
      <4>2. disk[handle[p]].tables \in Tables
        BY <4>1 DEF TypeOK, Content
      <4> QED BY <4>2 DEF Tables
    <3>1. TypeOK'
      BY <2>21, <3>0 DEF ShowQuery, TypeOK, PCs
    <3>2. WiredAt(p)'
      <4>1. \/ pc'[p] = "close" /\ answer'[p] \in TaskRow
            \/ pc'[p] = "fail"
        BY <2>21, <3>0 DEF ShowQuery, TypeOK
      <4> QED
        BY <4>1
           DEF WiredAt, Connected, Submitting, Drafted, Answered, OpenSteps, TaskSteps
    <3> QED BY <3>1, <3>2
  <2>22. ASSUME CloseStore(p) PROVE TypeOK' /\ WiredAt(p)'
    <3>1. TypeOK'
      BY <2>22, ReleasedTyped
         DEF CloseStore, TypeOK, PCs, OpenSteps, TaskSteps, ShowSteps, Final
    <3>2. WiredAt(p)'
      BY <2>22, <2>0, <3>1
         DEF CloseStore, TypeOK, WiredAt, Connected, Submitting, Drafted,
         Answered, OpenSteps, TaskSteps, ShowSteps
    <3> QED BY <3>1, <3>2
  <2>23. ASSUME Report(p) PROVE TypeOK' /\ WiredAt(p)'
    <3>1. TypeOK'
      BY <2>23 DEF Report, TypeOK, PCs, OpenSteps, TaskSteps, ShowSteps, Final
    <3>2. WiredAt(p)'
      BY <2>23, <2>0, <3>1 DEF Report, TypeOK, WiredAt, Connected, Submitting, Drafted,
         Answered, OpenSteps, TaskSteps, ShowSteps
    <3> QED BY <3>1, <3>2
  <2>24. ASSUME CancelledFails(p) PROVE TypeOK' /\ WiredAt(p)'
    <3>1. TypeOK'
      <4>1. disk' \in [Files -> Content] /\ journal' \in [Files -> Content \cup {NoJournal}]
        <5>1. CASE pc[p] \in {"migrateFinish", "taskFinish"}
          BY <2>24, <2>0, <5>1, RecoverTyped
             DEF CancelledFails, StepFails, WiredAt, Connected
        <5>2. CASE pc[p] \notin {"migrateFinish", "taskFinish"}
          BY <2>24, <5>2 DEF CancelledFails, StepFails, TypeOK
        <5> QED BY <5>1, <5>2
      <4>2. lock' \in [Files -> Procs \cup {NoProc}]
        BY <2>24, ReleasedTyped DEF CancelledFails, StepFails, TypeOK
      <4> QED
        BY <2>24, <4>1, <4>2
           DEF CancelledFails, StepFails, TypeOK, PCs, OpenSteps, TaskSteps,
               ShowSteps, Final
    <3>2. WiredAt(p)'
      BY <2>24, <2>0, <3>1
         DEF CancelledFails, StepFails, TypeOK, WiredAt, Connected, Submitting,
             Drafted,
         Answered, OpenSteps, TaskSteps, ShowSteps
    <3> QED BY <3>1, <3>2
  <2>25. ASSUME Error(p) PROVE TypeOK' /\ WiredAt(p)'
    <3>1. TypeOK'
      <4>1. disk' \in [Files -> Content] /\ journal' \in [Files -> Content \cup {NoJournal}]
        <5>1. CASE pc[p] \in {"migrateFinish", "taskFinish"}
          BY <2>25, <2>0, <5>1, RecoverTyped DEF Error, StepFails, WiredAt, Connected
        <5>2. CASE pc[p] \notin {"migrateFinish", "taskFinish"}
          BY <2>25, <5>2 DEF Error, StepFails, TypeOK
        <5> QED BY <5>1, <5>2
      <4>2. lock' \in [Files -> Procs \cup {NoProc}]
        BY <2>25, ReleasedTyped DEF Error, StepFails, TypeOK
      <4> QED
        BY <2>25, <4>1, <4>2
           DEF Error, StepFails, TypeOK, PCs, OpenSteps, TaskSteps, ShowSteps, Final
    <3>2. WiredAt(p)'
      BY <2>25, <2>0, <3>1
         DEF Error, StepFails, TypeOK, WiredAt, Connected, Submitting, Drafted,
         Answered, OpenSteps, TaskSteps, ShowSteps
    <3> QED BY <3>1, <3>2
  <2>26. ASSUME Cancel(p) PROVE TypeOK' /\ WiredAt(p)'
    <3>1. TypeOK'
      BY <2>26 DEF Cancel, TypeOK, PCs, OpenSteps, TaskSteps, ShowSteps, Final
    <3>2. WiredAt(p)'
      BY <2>26, <2>0, <3>1 DEF Cancel, TypeOK, WiredAt, Connected, Submitting, Drafted,
         Answered, OpenSteps, TaskSteps, ShowSteps
    <3> QED BY <3>1, <3>2
  <2>27. ASSUME Crash(p) PROVE TypeOK' /\ WiredAt(p)'
    <3>1. TypeOK'
      BY <2>27, ReleasedTyped
         DEF Crash, TypeOK, PCs, OpenSteps, TaskSteps, ShowSteps, Final
    <3>2. WiredAt(p)'
      BY <2>27, <2>0, <3>1 DEF Crash, TypeOK, WiredAt, Connected, Submitting, Drafted,
         Answered, OpenSteps, TaskSteps, ShowSteps
    <3> QED BY <3>1, <3>2
  <2>28. ASSUME ReportFails(p) PROVE TypeOK' /\ WiredAt(p)'
    <3>1. TypeOK'
      BY <2>28 DEF ReportFails, TypeOK, PCs, OpenSteps, TaskSteps, ShowSteps, Final
    <3>2. WiredAt(p)'
      BY <2>28, <2>0, <3>1
         DEF ReportFails, TypeOK, WiredAt, Connected, Submitting, Drafted,
         Answered, OpenSteps, TaskSteps, ShowSteps
    <3> QED BY <3>1, <3>2
  <2>29. ASSUME Refuse(p) PROVE TypeOK' /\ WiredAt(p)'
    <3>1. TypeOK'
      BY <2>29 DEF Refuse, TypeOK, PCs, OpenSteps, TaskSteps, ShowSteps, Final
    <3>2. WiredAt(p)'
      BY <2>29, <2>0, <3>1 DEF Refuse, TypeOK, WiredAt, Connected, Submitting, Drafted,
         Answered, OpenSteps, TaskSteps, ShowSteps
    <3> QED BY <3>1, <3>2
  <2>30. ASSUME PrepareClose(p) PROVE TypeOK' /\ WiredAt(p)'
    <3>1. TypeOK'
      BY <2>30 DEF PrepareClose, TypeOK, PCs, OpenSteps, TaskSteps, ShowSteps, Final
    <3>2. WiredAt(p)'
      BY <2>30, <2>0, <3>1
         DEF PrepareClose, TypeOK, WiredAt, Connected, Submitting, Drafted,
         Answered, OpenSteps, TaskSteps, ShowSteps
    <3> QED BY <3>1, <3>2
  <2>31. ASSUME FileCallFails(p) PROVE TypeOK' /\ WiredAt(p)'
    <3>1. TypeOK'
      BY <2>31 DEF FileCallFails, TypeOK, PCs, OpenSteps, TaskSteps, ShowSteps, Final
    <3>2. WiredAt(p)'
      BY <2>31, <2>0, <3>1
         DEF FileCallFails, TypeOK, WiredAt, Connected, Submitting, Drafted,
         Answered, OpenSteps, TaskSteps, ShowSteps
    <3> QED BY <3>1, <3>2
  <2>32. ASSUME Busy(p) PROVE TypeOK' /\ WiredAt(p)'
    <3>1. TypeOK'
      <4>1. disk' \in [Files -> Content] /\ journal' \in [Files -> Content \cup {NoJournal}]
        <5>1. CASE pc[p] \in {"migrateFinish", "taskFinish"}
          BY <2>32, <2>0, <5>1, RecoverTyped DEF Busy, StepFails, WiredAt, Connected
        <5>2. CASE pc[p] \notin {"migrateFinish", "taskFinish"}
          BY <2>32, <5>2 DEF Busy, StepFails, TypeOK
        <5> QED BY <5>1, <5>2
      <4>2. lock' \in [Files -> Procs \cup {NoProc}]
        BY <2>32, ReleasedTyped DEF Busy, StepFails, TypeOK
      <4> QED
        BY <2>32, <4>1, <4>2
           DEF Busy, StepFails, TypeOK, PCs, OpenSteps, TaskSteps, ShowSteps, Final
    <3>2. WiredAt(p)'
      BY <2>32, <2>0, <3>1
         DEF Busy, StepFails, TypeOK, WiredAt, Connected, Submitting, Drafted,
         Answered, OpenSteps, TaskSteps, ShowSteps
    <3> QED BY <3>1, <3>2
  <2>33. TypeOK' /\ WiredAt(p)'
    BY <1>1, <2>1, <2>2, <2>3, <2>4, <2>5, <2>6, <2>7, <2>8, <2>9, <2>10, <2>11,
       <2>12, <2>13, <2>14, <2>15, <2>16, <2>17, <2>18, <2>19, <2>20, <2>21, <2>22,
       <2>23, <2>24, <2>25, <2>26, <2>27, <2>28, <2>29, <2>30, <2>31, <2>32
       DEF Step, Fault, Open, CreateTask, Show
  <2>34. Wired'
    BY <1>1, <2>33, StepAlone DEF Alone, Wired, WiredAt
  <2> QED BY <2>33, <2>34
<1>2. CASE UNCHANGED vars
  BY <1>2 DEF vars, fileVars, procVars, TypeOK, Wired, WiredAt
<1> QED BY <1>1, <1>2 DEF Next, Terminated

(* Every variable keeps its type, whatever fails: no command ever goes on   *)
(* with a file it has not opened, a draft it has not built or a task it has *)
(* not stored or read.                                                      *)
THEOREM TypeCorrect == Spec => []TypeOK
<1>1. TypeOK /\ Wired /\ [Next]_vars => TypeOK' /\ Wired'
  BY NextTyped
<1> QED BY InitTyped, <1>1, PTL DEF Spec

-----------------------------------------------------------------------------
(* CreateTask on consistent tables.                                         *)

(* What a transaction may do to the tables it began with.                   *)
KeepsTasks(t, u) == t.tasks \subseteq u.tasks

KeepsBindings(t, u) ==
    \A r \in t.resources : \E s \in u.resources :
        BindingOf(s) = BindingOf(r) /\ s.onboardedAt = r.onboardedAt

(* The row CreateTask leaves is new in every key, or the new form of the    *)
(* only row with one of its keys.                                           *)
LEMMA ResourceForFits ==
    ASSUME NEW t \in Tables, NEW d \in Draft, KeysUnique(t), Accepts(t, d),
           NEW r \in ResourceFor(t, d)
    PROVE  /\ r.name = d.name /\ r.connector = d.connector /\ r.identity = d.identity
           /\ r.material = d.material /\ r.updatedAt = d.createdAt
           /\ \/ /\ \A x \in t.resources :
                      /\ x.id # r.id
                      /\ x.name # r.name
                      /\ ~(x.connector = r.connector /\ x.identity = r.identity)
              \/ \E old \in t.resources :
                    BindingOf(old) = BindingOf(r) /\ old.onboardedAt = r.onboardedAt
<1>1. CASE Named(t, d) = {}
  <2>1. r = InsertedResource(d)
    BY <1>1 DEF ResourceFor
  <2>2. \A x \in t.resources : x.id # d.candidate /\ x.name # d.name
                               /\ ~(x.connector = d.connector /\ x.identity = d.identity)
    BY <1>1 DEF Accepts, Conflict, ConstraintFails, Named, Owners
  <2> QED BY <2>1, <2>2 DEF InsertedResource
<1>2. CASE Named(t, d) # {}
  <2>1. PICK old \in Named(t, d) : r = UpdatedResource(old, d)
    BY <1>2 DEF ResourceFor
  <2>2. old \in t.resources /\ old.name = d.name /\ old \in ResourceRow
    BY <2>1 DEF Named, Tables
  <2>3. old.connector = d.connector /\ old.identity = d.identity
    BY <1>2, <2>1 DEF Accepts, Conflict
  <2>4. /\ r.id = old.id /\ r.name = old.name /\ r.connector = old.connector
        /\ r.identity = old.identity /\ r.onboardedAt = old.onboardedAt
        /\ r.material = d.material /\ r.updatedAt = d.createdAt
    BY <2>1, <2>2 DEF UpdatedResource, ResourceRow
  <2> QED BY <2>2, <2>3, <2>4 DEF BindingOf
<1> QED BY <1>1, <1>2

(* The statements of CreateTask, run on consistent tables they accept,      *)
(* leave consistent tables with every older task and binding.               *)
LEMMA CreateConsistent ==
    ASSUME NEW t \in Tables, NEW d \in Draft, Consistent(t), Accepts(t, d),
           NEW r \in ResourceFor(t, d)
    PROVE  LET u == WithTask(t, d, r) IN
           Consistent(u) /\ KeepsTasks(t, u) /\ KeepsBindings(t, u)
<1> DEFINE u == WithTask(t, d, r)
           k == StoredTask(d, r)
<1>1. /\ u.resources = {x \in t.resources : x.id # r.id} \cup {r}
      /\ u.tasks = t.tasks \cup {k}
      /\ u.history = t.history \cup {InitialHistory(d)}
  BY DEF WithTask
<1>2. /\ k.id = d.id /\ k.resource = r.id /\ k.name = d.name /\ k.connector = d.connector
      /\ k.material = d.material /\ k.createdAt = d.createdAt
  BY DEF StoredTask
<1>3. /\ r.name = d.name /\ r.connector = d.connector
      /\ r.material = d.material /\ r.updatedAt = d.createdAt
      /\ \/ /\ \A x \in t.resources :
                 /\ x.id # r.id
                 /\ x.name # r.name
                 /\ ~(x.connector = r.connector /\ x.identity = r.identity)
         \/ \E old \in t.resources :
               BindingOf(old) = BindingOf(r) /\ old.onboardedAt = r.onboardedAt
  BY ResourceForFits DEF Consistent
<1>4. KeysUnique(t) /\ TasksResolve(t) /\ HistoryMatches(t) /\ RowsFromTasks(t)
  BY DEF Consistent
<1>5. \A j \in t.tasks : j.id # d.id
  BY DEF Accepts, ConstraintFails
<1>6. \A x \in t.resources :
        (\/ x.id = r.id
         \/ x.name = r.name
         \/ x.connector = r.connector /\ x.identity = r.identity)
        => /\ x.id = r.id /\ x.name = r.name /\ x.connector = r.connector
           /\ x.identity = r.identity /\ x.onboardedAt = r.onboardedAt
  <2>1. CASE \A x \in t.resources :
               /\ x.id # r.id
               /\ x.name # r.name
               /\ ~(x.connector = r.connector /\ x.identity = r.identity)
    BY <2>1
  <2>2. CASE \E old \in t.resources :
               BindingOf(old) = BindingOf(r) /\ old.onboardedAt = r.onboardedAt
    <3>1. PICK old \in t.resources : /\ old.id = r.id /\ old.name = r.name
                                     /\ old.connector = r.connector
                                     /\ old.identity = r.identity
                                     /\ old.onboardedAt = r.onboardedAt
      BY <2>2 DEF BindingOf
    <3> QED BY <3>1, <1>4 DEF KeysUnique
  <2> QED BY <1>3, <2>1, <2>2
<1>7. KeysUnique(u)
  <2>1. \A j, l \in u.tasks : j.id = l.id => j = l
    BY <1>1, <1>2, <1>4, <1>5 DEF KeysUnique
  <2>2. \A a, b \in u.resources :
          (\/ a.id = b.id
           \/ a.name = b.name
           \/ a.connector = b.connector /\ a.identity = b.identity) => a = b
    BY <1>1, <1>4, <1>6 DEF KeysUnique
  <2> QED BY <2>1, <2>2 DEF KeysUnique
<1>8. TasksResolve(u)
  <2> SUFFICES ASSUME NEW j \in u.tasks
               PROVE  \E s \in u.resources :
                         s.id = j.resource /\ s.name = j.name /\ s.connector = j.connector
    BY DEF TasksResolve
  <2>1. CASE j = k
    BY <2>1, <1>1, <1>2, <1>3
  <2>2. CASE j \in t.tasks
    <3>1. PICK s \in t.resources :
            s.id = j.resource /\ s.name = j.name /\ s.connector = j.connector
      BY <2>2, <1>4 DEF TasksResolve
    <3>2. CASE s.id = r.id
      BY <3>1, <3>2, <1>1, <1>6
    <3>3. CASE s.id # r.id
      BY <3>1, <3>3, <1>1
    <3> QED BY <3>2, <3>3
  <2> QED BY <1>1, <2>1, <2>2
<1>9. HistoryMatches(u)
  <2>1. InitialHistory(d) = [task |-> k.id, sequence |-> 1, occurredAt |-> k.createdAt]
    BY <1>2 DEF InitialHistory
  <2> QED BY <1>1, <1>4, <2>1 DEF HistoryMatches
<1>10. RowsFromTasks(u)
  BY <1>1, <1>2, <1>3, <1>4 DEF RowsFromTasks
<1>11. KeepsTasks(t, u)
  BY <1>1 DEF KeepsTasks
<1>12. KeepsBindings(t, u)
  <2> SUFFICES ASSUME NEW x \in t.resources
               PROVE  \E s \in u.resources :
                         BindingOf(s) = BindingOf(x) /\ s.onboardedAt = x.onboardedAt
    BY DEF KeepsBindings
  <2>1. CASE x.id = r.id
    BY <2>1, <1>1, <1>6 DEF BindingOf
  <2>2. CASE x.id # r.id
    BY <2>2, <1>1
  <2> QED BY <2>1, <2>2
<1> QED BY <1>7, <1>8, <1>9, <1>10, <1>11, <1>12 DEF Consistent

(* Empty tables fit together.                                               *)
LEMMA EmptyConsistent == Consistent(EmptyTables)
BY DEF Consistent, KeysUnique, TasksResolve, HistoryMatches, RowsFromTasks, EmptyTables

-----------------------------------------------------------------------------
(* The inductive invariant.                                                 *)

InTx == {"migrateExec", "migrateCommit", "migrateFinish",
         "taskExec", "taskCommit", "taskFinish"}

Finishing == {"migrateFinish", "taskFinish"}

(* An inode nobody has created yet is empty, unlocked, not open and not at  *)
(* the configured path.                                                     *)
Allocation ==
    /\ \A f \in Files : perm[f] = "unallocated" =>
         disk[f] = EmptyContent /\ journal[f] = NoJournal /\ lock[f] = NoProc
    /\ \A p \in Procs : handle[p] \in Files => perm[handle[p]] # "unallocated"
    /\ path \in Files => perm[path] # "unallocated"

(* A process inside a transaction holds its file's lock.                    *)
Holds(p) == pc[p] \in InTx => lock[handle[p]] = p

(* Whoever holds a lock has that file open, in a transaction or after an    *)
(* error of Commit; a journal next to a held lock is the holder's own.      *)
HeldBy(f, p) ==
    lock[f] = p =>
        /\ handle[p] = f
        /\ pc[p] \in InTx \cup {"abort", "fail"}
        /\ journal[f] # NoJournal => pc[p] \in Finishing

(* Tables that are not in the schema hold nothing.                          *)
Sound(c) ==
    /\ Consistent(c.tables)
    /\ c.objects \cap TableNames = {} => c.tables = EmptyTables

(* The pages w may replace the pages c.                                     *)
Replaces(c, w) ==
    /\ Sound(w)
    /\ ValidSchema(c) => ValidSchema(w)
    /\ KeepsTasks(c.tables, w.tables)
    /\ KeepsBindings(c.tables, w.tables)

(* What the transaction of p has read and what it is about to write.        *)
Transaction(p) ==
    /\ pc[p] \in {"migrateExec", "taskExec"} => work[p] = disk[handle[p]]
    /\ pc[p] \in {"migrateCommit", "taskCommit"} => Replaces(disk[handle[p]], work[p])
    /\ pc[p] \in Finishing =>
         /\ journal[handle[p]] # NoJournal
         /\ disk[handle[p]] = work[p]
         /\ Replaces(journal[handle[p]], work[p])

(* A submission goes on to CreateTask only with a schema that is valid and  *)
(* stays valid.                                                             *)
Validated(p) == pc[p] \in TaskSteps => ValidSchema(Committed(handle[p]))

Inv ==
    /\ TypeOK
    /\ Wired
    /\ Allocation
    /\ \A p \in Procs : Holds(p) /\ Transaction(p) /\ Validated(p)
    /\ \A f \in Files, p \in Procs : HeldBy(f, p)
    /\ \A f \in Files : Sound(Committed(f))

-----------------------------------------------------------------------------
(* A step of p writes only files whose lock p holds or nobody holds, and    *)
(* moves a lock only to p or from p.                                        *)
Frame(p) ==
    \A f \in Files :
        /\ lock'[f] \in {lock[f], p, NoProc}
        /\ lock[f] \notin {p, NoProc} =>
             disk'[f] = disk[f] /\ journal'[f] = journal[f] /\ lock'[f] = lock[f]

(* One case per action: the lock of a file that another process holds, its  *)
(* pages and its journal stay as they are.                                  *)
LEMMA StepFrame ==
    ASSUME Inv, NEW p \in Procs, Step(p) \/ Fault(p)
    PROVE  Frame(p)
<1> USE DEF Goto, fileVars
<1>0. TypeOK /\ WiredAt(p) /\ Holds(p) /\ Allocation /\ p # NoProc
  BY ConstantsAssumption DEF Inv, Wired
<1>1. CASE PrepareStat(p)
  BY <1>0, <1>1 DEF PrepareStat, Frame, TypeOK
<1>2. CASE PrepareCreate(p)
  BY <1>0, <1>2 DEF PrepareCreate, Frame, TypeOK, Fresh, Allocation
<1>3. CASE Connect(p)
  BY <1>0, <1>3 DEF Connect, Frame, TypeOK, Fresh, Allocation
<1>4. CASE ReadVersion(p)
  BY <1>0, <1>4 DEF ReadVersion, Frame, TypeOK, Recover, Committed, CanCall, Committing
<1>5. CASE CountObjects(p)
  BY <1>0, <1>5 DEF CountObjects, Frame, TypeOK, Recover, Committed, CanCall, Committing
<1>6. CASE MigrateBegin(p)
  BY <1>0, <1>6
     DEF MigrateBegin, BeginTx, Frame, TypeOK, Recover, Committed, CanCall, Committing
<1>7. CASE MigrateExec(p)
  BY <1>0, <1>7 DEF MigrateExec, Migrated, Frame, TypeOK, Released
<1>8. CASE MigrateCommit(p)
  BY <1>0, <1>8
     DEF MigrateCommit, CommitWrite, Frame, TypeOK, Holds, InTx, Released, WiredAt,
         Connected
<1>9. CASE MigrateFinish(p)
  BY <1>0, <1>9
     DEF MigrateFinish, CommitFinish, Frame, TypeOK, Holds, InTx, Released, WiredAt,
         Connected
<1>10. CASE ValidateSchema(p)
  BY <1>0, <1>10
     DEF ValidateSchema, Frame, TypeOK, Recover, Committed, CanCall, Committing
<1>11. CASE AbortOpen(p)
  BY <1>0, <1>11 DEF AbortOpen, Frame, TypeOK, Released
<1>12. CASE Cleanup(p)
  BY <1>0, <1>12 DEF Cleanup, Frame, TypeOK
<1>13. CASE BuildDraft(p)
  BY <1>0, <1>13 DEF BuildDraft, Frame, TypeOK
<1>14. CASE TaskBegin(p)
  BY <1>0, <1>14
     DEF TaskBegin, BeginTx, Frame, TypeOK, Recover, Committed, CanCall, Committing
<1>15. CASE TaskExec(p)
  BY <1>0, <1>15 DEF TaskExec, Frame, TypeOK, Released
<1>16. CASE TaskCommit(p)
  BY <1>0, <1>16
     DEF TaskCommit, CommitWrite, Frame, TypeOK, Holds, InTx, Released, WiredAt,
         Connected
<1>17. CASE TaskFinish(p)
  BY <1>0, <1>17
     DEF TaskFinish, CommitFinish, Frame, TypeOK, Holds, InTx, Released, WiredAt,
         Connected
<1>18. CASE ShowStat(p)
  BY <1>0, <1>18 DEF ShowStat, Frame, TypeOK
<1>19. CASE ShowConnect(p)
  BY <1>0, <1>19 DEF ShowConnect, Frame, TypeOK
<1>20. CASE ShowValidate(p)
  BY <1>0, <1>20 DEF ShowValidate, Frame, TypeOK
<1>21. CASE ShowQuery(p)
  BY <1>0, <1>21 DEF ShowQuery, Frame, TypeOK
<1>22. CASE CloseStore(p)
  BY <1>0, <1>22 DEF CloseStore, Frame, TypeOK, Released
<1>23. CASE Report(p)
  BY <1>0, <1>23 DEF Report, Frame, TypeOK
<1>24. CASE CancelledFails(p)
  BY <1>0, <1>24
     DEF CancelledFails, StepFails, Frame, TypeOK, Holds, InTx, Released, Recover,
         Committed, WiredAt, Connected
<1>25. CASE Error(p)
  BY <1>0, <1>25
     DEF Error, StepFails, Frame, TypeOK, Holds, InTx, Released, Recover, Committed,
         WiredAt, Connected
<1>26. CASE Cancel(p)
  BY <1>0, <1>26 DEF Cancel, Frame, TypeOK
<1>27. CASE Crash(p)
  BY <1>0, <1>27 DEF Crash, Frame, TypeOK, Released
<1>28. CASE ReportFails(p)
  BY <1>0, <1>28 DEF ReportFails, Frame, TypeOK
<1>29. CASE Refuse(p)
  BY <1>0, <1>29 DEF Refuse, Frame, TypeOK
<1>30. CASE PrepareClose(p)
  BY <1>0, <1>30 DEF PrepareClose, Frame, TypeOK
<1>31. CASE FileCallFails(p)
  BY <1>0, <1>31 DEF FileCallFails, Frame, TypeOK
<1>32. CASE Busy(p)
  BY <1>0, <1>32
     DEF Busy, StepFails, Frame, TypeOK, Holds, InTx, Released, Recover, Committed,
         WiredAt, Connected
<1> QED
  BY <1>1, <1>2, <1>3, <1>4, <1>5, <1>6, <1>7, <1>8, <1>9, <1>10, <1>11, <1>12, <1>13,
     <1>14, <1>15, <1>16, <1>17, <1>18, <1>19, <1>20, <1>21, <1>22, <1>23, <1>24,
     <1>25, <1>26, <1>27, <1>28, <1>29, <1>30, <1>31, <1>32
     DEF Step, Fault, Open, CreateTask, Show

(* A step changes what a file has committed only at CommitFinish, which     *)
(* makes it the pages of that process's transaction.                        *)
CommitsAt(p, f) ==
    /\ pc[p] \in Finishing
    /\ f = handle[p]
    /\ Committed(f)' = work[p]

(* One case per action: the committed content of a file changes only when   *)
(* the lock holder reaches its commit point.                                *)
LEMMA StepCommits ==
    ASSUME Inv, NEW p \in Procs, Step(p) \/ Fault(p), NEW f \in Files
    PROVE  Committed(f)' = Committed(f) \/ CommitsAt(p, f)
<1> USE DEF Goto, fileVars, Committed
<1>0. /\ TypeOK /\ WiredAt(p) /\ Holds(p) /\ Transaction(p) /\ Allocation
      /\ \A g \in Files : HeldBy(g, p)
      /\ NoJournal \notin Content
  BY ConstantsAssumption DEF Inv, Wired
<1>1. CASE PrepareStat(p)
  BY <1>0, <1>1 DEF PrepareStat, TypeOK
<1>2. CASE PrepareCreate(p)
  BY <1>0, <1>2 DEF PrepareCreate, TypeOK, Fresh, Allocation
<1>3. CASE Connect(p)
  BY <1>0, <1>3 DEF Connect, TypeOK, Fresh, Allocation
<1>4. CASE ReadVersion(p)
  BY <1>0, <1>4 DEF ReadVersion, TypeOK, Recover
<1>5. CASE CountObjects(p)
  BY <1>0, <1>5 DEF CountObjects, TypeOK, Recover
<1>6. CASE MigrateBegin(p)
  BY <1>0, <1>6 DEF MigrateBegin, BeginTx, TypeOK, Recover
<1>7. CASE MigrateExec(p)
  BY <1>0, <1>7 DEF MigrateExec, Migrated, TypeOK
<1>8. CASE MigrateCommit(p)
  BY <1>0, <1>8
     DEF MigrateCommit, CommitWrite, TypeOK, Holds, HeldBy, InTx, Finishing, WiredAt,
         Connected
<1>9. CASE MigrateFinish(p)
  BY <1>0, <1>9
     DEF MigrateFinish, CommitFinish, TypeOK, CommitsAt, Transaction, Finishing,
         WiredAt, Connected
<1>10. CASE ValidateSchema(p)
  BY <1>0, <1>10 DEF ValidateSchema, TypeOK, Recover
<1>11. CASE AbortOpen(p)
  BY <1>0, <1>11 DEF AbortOpen, TypeOK
<1>12. CASE Cleanup(p)
  BY <1>0, <1>12 DEF Cleanup, TypeOK
<1>13. CASE BuildDraft(p)
  BY <1>0, <1>13 DEF BuildDraft, TypeOK
<1>14. CASE TaskBegin(p)
  BY <1>0, <1>14 DEF TaskBegin, BeginTx, TypeOK, Recover
<1>15. CASE TaskExec(p)
  BY <1>0, <1>15 DEF TaskExec, TypeOK
<1>16. CASE TaskCommit(p)
  BY <1>0, <1>16
     DEF TaskCommit, CommitWrite, TypeOK, Holds, HeldBy, InTx, Finishing, WiredAt,
         Connected
<1>17. CASE TaskFinish(p)
  BY <1>0, <1>17
     DEF TaskFinish, CommitFinish, TypeOK, CommitsAt, Transaction, Finishing, WiredAt,
         Connected
<1>18. CASE ShowStat(p)
  BY <1>0, <1>18 DEF ShowStat, TypeOK
<1>19. CASE ShowConnect(p)
  BY <1>0, <1>19 DEF ShowConnect, TypeOK
<1>20. CASE ShowValidate(p)
  BY <1>0, <1>20 DEF ShowValidate, TypeOK
<1>21. CASE ShowQuery(p)
  BY <1>0, <1>21 DEF ShowQuery, TypeOK
<1>22. CASE CloseStore(p)
  BY <1>0, <1>22 DEF CloseStore, TypeOK
<1>23. CASE Report(p)
  BY <1>0, <1>23 DEF Report, TypeOK
<1>24. CASE CancelledFails(p)
  BY <1>0, <1>24 DEF CancelledFails, StepFails, TypeOK, Recover, WiredAt, Connected
<1>25. CASE Error(p)
  BY <1>0, <1>25 DEF Error, StepFails, TypeOK, Recover, WiredAt, Connected
<1>26. CASE Cancel(p)
  BY <1>0, <1>26 DEF Cancel, TypeOK
<1>27. CASE Crash(p)
  BY <1>0, <1>27 DEF Crash, TypeOK
<1>28. CASE ReportFails(p)
  BY <1>0, <1>28 DEF ReportFails, TypeOK
<1>29. CASE Refuse(p)
  BY <1>0, <1>29 DEF Refuse, TypeOK
<1>30. CASE PrepareClose(p)
  BY <1>0, <1>30 DEF PrepareClose, TypeOK
<1>31. CASE FileCallFails(p)
  BY <1>0, <1>31 DEF FileCallFails, TypeOK
<1>32. CASE Busy(p)
  BY <1>0, <1>32 DEF Busy, StepFails, TypeOK, Recover, WiredAt, Connected
<1> QED
  BY <1>1, <1>2, <1>3, <1>4, <1>5, <1>6, <1>7, <1>8, <1>9, <1>10, <1>11, <1>12, <1>13,
     <1>14, <1>15, <1>16, <1>17, <1>18, <1>19, <1>20, <1>21, <1>22, <1>23, <1>24,
     <1>25, <1>26, <1>27, <1>28, <1>29, <1>30, <1>31, <1>32
     DEF Step, Fault, Open, CreateTask, Show

(* What a step leaves true of its own process and of the files it touches.  *)
LEMMA StepOwn ==
    ASSUME Inv, NEW p \in Procs, Step(p) \/ Fault(p)
    PROVE  Holds(p)' /\ \A f \in Files : HeldBy(f, p)'
<1> USE DEF Goto, fileVars
<1>0. /\ TypeOK /\ WiredAt(p) /\ Holds(p) /\ Allocation /\ Transaction(p)
      /\ \A g \in Files : HeldBy(g, p)
      /\ NoJournal \notin Content /\ NoProc \notin Procs /\ NoFile \notin Files
  BY ConstantsAssumption DEF Inv, Wired
<1>1. CASE PrepareStat(p)
  BY <1>0, <1>1 DEF PrepareStat, Holds, HeldBy, InTx, Finishing, TypeOK
<1>2. CASE PrepareCreate(p)
  BY <1>0, <1>2
     DEF PrepareCreate, Holds, HeldBy, InTx, Finishing, TypeOK, Fresh, Allocation
<1>3. CASE Connect(p)
  BY <1>0, <1>3 DEF Connect, Holds, HeldBy, InTx, Finishing, TypeOK, Fresh, Allocation
<1>4. CASE ReadVersion(p)
  BY <1>0, <1>4
     DEF ReadVersion, Holds, HeldBy, InTx, Finishing, TypeOK, Recover, WiredAt,
         Connected
<1>5. CASE CountObjects(p)
  BY <1>0, <1>5
     DEF CountObjects, Holds, HeldBy, InTx, Finishing, TypeOK, Recover, WiredAt,
         Connected
<1>6. CASE MigrateBegin(p)
  BY <1>0, <1>6
     DEF MigrateBegin, BeginTx, Holds, HeldBy, InTx, Finishing, TypeOK, Recover,
         WiredAt, Connected
<1>7. CASE MigrateExec(p)
  BY <1>0, <1>7
     DEF MigrateExec, Migrated, Holds, HeldBy, InTx, Finishing, TypeOK, WiredAt, Connected,
         Released
<1>8. CASE MigrateCommit(p)
  BY <1>0, <1>8
     DEF MigrateCommit, CommitWrite, Holds, HeldBy, InTx, Finishing, TypeOK, WiredAt,
         Connected, Released
<1>9. CASE MigrateFinish(p)
  BY <1>0, <1>9
     DEF MigrateFinish, CommitFinish, Holds, HeldBy, InTx, Finishing, TypeOK, Released
<1>10. CASE ValidateSchema(p)
  BY <1>0, <1>10
     DEF ValidateSchema, Holds, HeldBy, InTx, Finishing, TypeOK, Recover, WiredAt,
         Connected
<1>11. CASE AbortOpen(p)
  BY <1>0, <1>11 DEF AbortOpen, Holds, HeldBy, InTx, Finishing, TypeOK, Released
<1>12. CASE Cleanup(p)
  BY <1>0, <1>12 DEF Cleanup, Holds, HeldBy, InTx, Finishing, TypeOK
<1>13. CASE BuildDraft(p)
  BY <1>0, <1>13 DEF BuildDraft, Holds, HeldBy, InTx, Finishing, TypeOK, Final
<1>14. CASE TaskBegin(p)
  BY <1>0, <1>14
     DEF TaskBegin, BeginTx, Holds, HeldBy, InTx, Finishing, TypeOK, Recover, WiredAt,
         Connected
<1>15. CASE TaskExec(p)
  BY <1>0, <1>15
     DEF TaskExec, Holds, HeldBy, InTx, Finishing, TypeOK, WiredAt, Connected,
         Released
<1>16. CASE TaskCommit(p)
  BY <1>0, <1>16
     DEF TaskCommit, CommitWrite, Holds, HeldBy, InTx, Finishing, TypeOK, WiredAt,
         Connected, Released
<1>17. CASE TaskFinish(p)
  BY <1>0, <1>17
     DEF TaskFinish, CommitFinish, Holds, HeldBy, InTx, Finishing, TypeOK, Released
<1>18. CASE ShowStat(p)
  BY <1>0, <1>18 DEF ShowStat, Holds, HeldBy, InTx, Finishing, TypeOK
<1>19. CASE ShowConnect(p)
  BY <1>0, <1>19 DEF ShowConnect, Holds, HeldBy, InTx, Finishing, TypeOK, Final
<1>20. CASE ShowValidate(p)
  BY <1>0, <1>20 DEF ShowValidate, Holds, HeldBy, InTx, Finishing, TypeOK, Final
<1>21. CASE ShowQuery(p)
  BY <1>0, <1>21 DEF ShowQuery, Holds, HeldBy, InTx, Finishing, TypeOK, Final
<1>22. CASE CloseStore(p)
  BY <1>0, <1>22 DEF CloseStore, Holds, HeldBy, InTx, Finishing, TypeOK, Released
<1>23. CASE Report(p)
  BY <1>0, <1>23 DEF Report, Holds, HeldBy, InTx, Finishing, TypeOK
<1>24. CASE CancelledFails(p)
  BY <1>0, <1>24
     DEF CancelledFails, StepFails, Holds, HeldBy, InTx, Finishing, TypeOK, Recover,
         WiredAt, Connected, Released, OpenSteps, TaskSteps, ShowSteps
<1>25. CASE Error(p)
  BY <1>0, <1>25
     DEF Error, StepFails, Holds, HeldBy, InTx, Finishing, TypeOK, Recover, WiredAt,
         Connected, Released, OpenSteps, TaskSteps, ShowSteps
<1>26. CASE Cancel(p)
  BY <1>0, <1>26 DEF Cancel, Holds, HeldBy, InTx, Finishing, TypeOK, Final
<1>27. CASE Crash(p)
  BY <1>0, <1>27 DEF Crash, Holds, HeldBy, InTx, Finishing, TypeOK, Released
<1>28. CASE ReportFails(p)
  BY <1>0, <1>28 DEF ReportFails, Holds, HeldBy, InTx, Finishing, TypeOK
<1>29. CASE Refuse(p)
  BY <1>0, <1>29 DEF Refuse, Holds, HeldBy, InTx, Finishing, TypeOK
<1>30. CASE PrepareClose(p)
  BY <1>0, <1>30 DEF PrepareClose, Holds, HeldBy, InTx, Finishing, TypeOK
<1>31. CASE FileCallFails(p)
  BY <1>0, <1>31 DEF FileCallFails, Holds, HeldBy, InTx, Finishing, TypeOK
<1>32. CASE Busy(p)
  BY <1>0, <1>32
     DEF Busy, StepFails, Holds, HeldBy, InTx, Finishing, TypeOK, Recover, WiredAt,
         Connected, Released, OpenSteps, TaskSteps, ShowSteps
<1> QED
  BY <1>1, <1>2, <1>3, <1>4, <1>5, <1>6, <1>7, <1>8, <1>9, <1>10, <1>11, <1>12, <1>13,
     <1>14, <1>15, <1>16, <1>17, <1>18, <1>19, <1>20, <1>21, <1>22, <1>23, <1>24,
     <1>25, <1>26, <1>27, <1>28, <1>29, <1>30, <1>31, <1>32
     DEF Step, Fault, Open, CreateTask, Show

(* While p is in a transaction and not yet writing, what its file has       *)
(* committed is what is on disk.                                            *)
LEMMA DiskCommitted ==
    ASSUME Inv, NEW p \in Procs, pc[p] \in InTx, pc[p] \notin Finishing
    PROVE  /\ handle[p] \in Files
           /\ journal[handle[p]] = NoJournal
           /\ Committed(handle[p]) = disk[handle[p]]
           /\ Sound(disk[handle[p]])
<1>1. handle[p] \in Files
  BY DEF Inv, Wired, WiredAt, Connected, InTx
<1>2. journal[handle[p]] = NoJournal
  BY <1>1 DEF Inv, Holds, HeldBy
<1> QED BY <1>1, <1>2 DEF Inv, Committed

(* One case per action: the pages of a transaction stay those of a          *)
(* consistent successor of what the file holds.                             *)
LEMMA StepTransaction ==
    ASSUME Inv, NEW p \in Procs, Step(p) \/ Fault(p)
    PROVE  Transaction(p)'
<1> USE DEF Goto, fileVars
<1>0. /\ TypeOK /\ WiredAt(p) /\ Holds(p) /\ Transaction(p) /\ Validated(p)
      /\ NoJournal \notin Content
  BY ConstantsAssumption DEF Inv, Wired
<1>1. CASE PrepareStat(p)
  BY <1>0, <1>1 DEF PrepareStat, Transaction, Finishing, TypeOK
<1>2. CASE PrepareCreate(p)
  BY <1>0, <1>2 DEF PrepareCreate, Transaction, Finishing, TypeOK
<1>3. CASE Connect(p)
  BY <1>0, <1>3 DEF Connect, Transaction, Finishing, TypeOK
<1>4. CASE ReadVersion(p)
  BY <1>0, <1>4 DEF ReadVersion, Transaction, Finishing, TypeOK
<1>5. CASE CountObjects(p)
  BY <1>0, <1>5 DEF CountObjects, Transaction, Finishing, TypeOK
<1>6. CASE MigrateBegin(p)
  BY <1>0, <1>6
     DEF MigrateBegin, BeginTx, Recover, Transaction, Finishing, TypeOK, WiredAt,
         Connected
<1>7. CASE MigrateExec(p)
  <2>1. CASE work[p].objects \cap TableNames = {}
    <3> DEFINE w == [version |-> 1, objects |-> work[p].objects \cup TableNames,
                     mode |-> work[p].mode, tables |-> EmptyTables]
               c == disk[handle[p]]
    <3>1. work[p] = c /\ Sound(c) /\ handle[p] \in Files
      BY <1>0, <1>7, DiskCommitted DEF MigrateExec, Migrated, Transaction, InTx, Finishing
    <3>2. c.tables = EmptyTables /\ ~ValidSchema(c)
      BY <2>1, <3>1 DEF Sound, ValidSchema, TableNames
    <3>3. Sound(w)
      BY EmptyConsistent DEF Sound
    <3>4. Replaces(c, w)
      BY <3>2, <3>3 DEF Replaces, KeepsTasks, KeepsBindings, EmptyTables
    <3>5. pc'[p] = "migrateCommit" /\ work'[p] = w /\ disk' = disk /\ handle' = handle
      BY <1>0, <1>7, <2>1 DEF MigrateExec, Migrated, TypeOK
    <3> QED BY <3>4, <3>5 DEF Transaction, Finishing
  <2>2. CASE work[p].objects \cap TableNames # {}
    BY <1>0, <1>7, <2>2 DEF MigrateExec, Migrated, TypeOK, Transaction, Finishing
  <2> QED BY <2>1, <2>2
<1>8. CASE MigrateCommit(p)
  BY <1>0, <1>8
     DEF MigrateCommit, CommitWrite, Transaction, Finishing, TypeOK, WiredAt,
         Connected
<1>9. CASE MigrateFinish(p)
  BY <1>0, <1>9 DEF MigrateFinish, CommitFinish, Transaction, Finishing, TypeOK
<1>10. CASE ValidateSchema(p)
  BY <1>0, <1>10 DEF ValidateSchema, Transaction, Finishing, TypeOK
<1>11. CASE AbortOpen(p)
  BY <1>0, <1>11 DEF AbortOpen, Transaction, Finishing, TypeOK
<1>12. CASE Cleanup(p)
  BY <1>0, <1>12 DEF Cleanup, Transaction, Finishing, TypeOK
<1>13. CASE BuildDraft(p)
  BY <1>0, <1>13 DEF BuildDraft, Transaction, Finishing, TypeOK
<1>14. CASE TaskBegin(p)
  BY <1>0, <1>14
     DEF TaskBegin, BeginTx, Recover, Transaction, Finishing, TypeOK, WiredAt,
         Connected
<1>15. CASE TaskExec(p)
  <2> DEFINE t == work[p].tables
             c == disk[handle[p]]
  <2>1. CASE Accepts(t, draft[p])
    <3>1. PICK r \in ResourceFor(t, draft[p]) :
            work' = [work EXCEPT ![p] = [work[p] EXCEPT !.tables = WithTask(t, draft[p], r)]]
      BY <1>15, <2>1 DEF TaskExec
    <3> DEFINE w == [work[p] EXCEPT !.tables = WithTask(t, draft[p], r)]
    <3>2. work[p] = c /\ Sound(c) /\ handle[p] \in Files /\ Committed(handle[p]) = c
      BY <1>0, <1>15, DiskCommitted DEF TaskExec, Transaction, InTx, Finishing
    <3>3. ValidSchema(c) /\ draft[p] \in Draft /\ work[p] \in Content
      BY <1>0, <1>15, <3>2 DEF TaskExec, Validated, TaskSteps, WiredAt, Drafted, TypeOK
    <3>4. /\ w.tables = WithTask(t, draft[p], r)
          /\ w.version = work[p].version /\ w.objects = work[p].objects
          /\ t \in Tables
      BY <3>3 DEF Content
    <3>5. /\ Consistent(w.tables) /\ KeepsTasks(t, w.tables) /\ KeepsBindings(t, w.tables)
      BY <2>1, <3>2, <3>3, <3>4, CreateConsistent DEF Sound
    <3>6. ValidSchema(w) /\ Sound(w)
      BY <3>2, <3>3, <3>4, <3>5 DEF ValidSchema, Sound, TableNames
    <3>7. Replaces(c, w)
      BY <3>2, <3>5, <3>6 DEF Replaces
    <3>8. pc'[p] = "taskCommit" /\ work'[p] = w /\ disk' = disk /\ handle' = handle
      BY <1>0, <1>15, <2>1, <3>1 DEF TaskExec, TypeOK
    <3> QED BY <3>7, <3>8 DEF Transaction, Finishing
  <2>2. CASE ~Accepts(t, draft[p])
    BY <1>0, <1>15, <2>2 DEF TaskExec, TypeOK, Transaction, Finishing
  <2> QED BY <2>1, <2>2
<1>16. CASE TaskCommit(p)
  BY <1>0, <1>16
     DEF TaskCommit, CommitWrite, Transaction, Finishing, TypeOK, WiredAt, Connected
<1>17. CASE TaskFinish(p)
  BY <1>0, <1>17 DEF TaskFinish, CommitFinish, Transaction, Finishing, TypeOK
<1>18. CASE ShowStat(p)
  BY <1>0, <1>18 DEF ShowStat, Transaction, Finishing, TypeOK
<1>19. CASE ShowConnect(p)
  BY <1>0, <1>19 DEF ShowConnect, Transaction, Finishing, TypeOK
<1>20. CASE ShowValidate(p)
  BY <1>0, <1>20 DEF ShowValidate, Transaction, Finishing, TypeOK
<1>21. CASE ShowQuery(p)
  BY <1>0, <1>21 DEF ShowQuery, Transaction, Finishing, TypeOK
<1>22. CASE CloseStore(p)
  BY <1>0, <1>22 DEF CloseStore, Transaction, Finishing, TypeOK
<1>23. CASE Report(p)
  BY <1>0, <1>23 DEF Report, Transaction, Finishing, TypeOK
<1>24. CASE CancelledFails(p)
  BY <1>0, <1>24 DEF CancelledFails, StepFails, Transaction, Finishing, TypeOK
<1>25. CASE Error(p)
  BY <1>0, <1>25 DEF Error, StepFails, Transaction, Finishing, TypeOK
<1>26. CASE Cancel(p)
  BY <1>0, <1>26 DEF Cancel, Transaction, Finishing, TypeOK, Final
<1>27. CASE Crash(p)
  BY <1>0, <1>27 DEF Crash, Transaction, Finishing, TypeOK
<1>28. CASE ReportFails(p)
  BY <1>0, <1>28 DEF ReportFails, Transaction, Finishing, TypeOK
<1>29. CASE Refuse(p)
  BY <1>0, <1>29 DEF Refuse, Transaction, Finishing, TypeOK
<1>30. CASE PrepareClose(p)
  BY <1>0, <1>30 DEF PrepareClose, Transaction, Finishing, TypeOK
<1>31. CASE FileCallFails(p)
  BY <1>0, <1>31 DEF FileCallFails, Transaction, Finishing, TypeOK
<1>32. CASE Busy(p)
  BY <1>0, <1>32 DEF Busy, StepFails, Transaction, Finishing, TypeOK
<1> QED
  BY <1>1, <1>2, <1>3, <1>4, <1>5, <1>6, <1>7, <1>8, <1>9, <1>10, <1>11, <1>12, <1>13,
     <1>14, <1>15, <1>16, <1>17, <1>18, <1>19, <1>20, <1>21, <1>22, <1>23, <1>24,
     <1>25, <1>26, <1>27, <1>28, <1>29, <1>30, <1>31, <1>32
     DEF Step, Fault, Open, CreateTask, Show

(* One case per action: who got past Open works on a supported file.        *)
LEMMA StepValidated ==
    ASSUME Inv, NEW p \in Procs, Step(p) \/ Fault(p)
    PROVE  Validated(p)'
<1> USE DEF Goto, fileVars
<1>0. /\ TypeOK /\ WiredAt(p) /\ Holds(p) /\ Transaction(p) /\ Validated(p)
      /\ NoJournal \notin Content
  BY ConstantsAssumption DEF Inv, Wired
<1>a. CASE pc[p] = "validate" /\ pc'[p] = "ready"
  <2>1. ValidateSchema(p)
    BY <1>0, <1>a
       DEF Step, Fault, Open, CreateTask, Show, TypeOK, OpenSteps, TaskSteps,
           ShowSteps, Final, PrepareStat, PrepareCreate, PrepareClose, Connect,
           ReadVersion, CountObjects, MigrateBegin, MigrateExec, Migrated,
           MigrateCommit, MigrateFinish, ValidateSchema, AbortOpen, Cleanup,
           BuildDraft, TaskBegin, TaskExec, TaskCommit, TaskFinish, ShowStat,
           ShowConnect, ShowValidate, ShowQuery, CloseStore, Report, CancelledFails,
           Error, FileCallFails, Busy, Cancel, Crash, ReportFails, Refuse, BeginTx,
           CommitFinish, CommitWrite, StepFails
  <2>2. handle[p] \in Files
    BY <1>0, <1>a DEF WiredAt, Connected
  <2> QED
    BY <1>0, <1>a, <2>1, <2>2
       DEF ValidateSchema, Recover, Committed, Validated, TypeOK
<1>b. CASE pc'[p] \notin TaskSteps
  BY <1>b DEF Validated
<1>c. CASE pc'[p] \in TaskSteps /\ ~(pc[p] = "validate" /\ pc'[p] = "ready")
  <2>1. pc[p] \in TaskSteps /\ handle'[p] = handle[p]
    BY <1>0, <1>c, Step(p) \/ Fault(p)
       DEF Step, Fault, Open, CreateTask, Show, TypeOK, OpenSteps, TaskSteps,
           ShowSteps, Final, PrepareStat, PrepareCreate, PrepareClose, Connect,
           ReadVersion, CountObjects, MigrateBegin, MigrateExec, Migrated,
           MigrateCommit, MigrateFinish, ValidateSchema, AbortOpen, Cleanup,
           BuildDraft, TaskBegin, TaskExec, TaskCommit, TaskFinish, ShowStat,
           ShowConnect, ShowValidate, ShowQuery, CloseStore, Report, CancelledFails,
           Error, FileCallFails, Busy, Cancel, Crash, ReportFails, Refuse, BeginTx,
           CommitFinish, CommitWrite, StepFails
  <2>2. handle[p] \in Files
    BY <1>0, <2>1 DEF WiredAt, Connected, TaskSteps
  <2>3. ValidSchema(Committed(handle[p]))
    BY <1>0, <2>1 DEF Validated
  <2>4. PICK f \in Files : f = handle[p]
    BY <2>2
  <2>5. CASE Committed(f)' = Committed(f)
    BY <2>1, <2>3, <2>4, <2>5 DEF Validated
  <2>6. CASE CommitsAt(p, f)
    BY <1>0, <2>1, <2>3, <2>4, <2>6
       DEF CommitsAt, Validated, Transaction, Replaces, Committed
  <2> QED BY <2>5, <2>6, StepCommits
<1> QED BY <1>a, <1>b, <1>c

(* One case per action: a new file is never one in use.                     *)
LEMMA StepAllocation ==
    ASSUME Inv, NEW p \in Procs, Step(p) \/ Fault(p)
    PROVE  Allocation'
<1> USE DEF Goto, fileVars, Allocation
<1>0. TypeOK /\ WiredAt(p) /\ Allocation /\ NoFile \notin Files
  BY ConstantsAssumption DEF Inv, Wired
<1>1. CASE PrepareStat(p)
  BY <1>0, <1>1 DEF PrepareStat, TypeOK
<1>2. CASE PrepareCreate(p)
  BY <1>0, <1>2 DEF PrepareCreate, TypeOK, Fresh
<1>3. CASE Connect(p)
  BY <1>0, <1>3 DEF Connect, TypeOK, Fresh
<1>4. CASE ReadVersion(p)
  BY <1>0, <1>4 DEF ReadVersion, TypeOK, Recover, Committed, WiredAt, Connected
<1>5. CASE CountObjects(p)
  BY <1>0, <1>5 DEF CountObjects, TypeOK, Recover, Committed, WiredAt, Connected
<1>6. CASE MigrateBegin(p)
  BY <1>0, <1>6
     DEF MigrateBegin, BeginTx, TypeOK, Recover, Committed, WiredAt, Connected
<1>7. CASE MigrateExec(p)
  BY <1>0, <1>7 DEF MigrateExec, Migrated, TypeOK, Released
<1>8. CASE MigrateCommit(p)
  BY <1>0, <1>8 DEF MigrateCommit, CommitWrite, TypeOK, WiredAt, Connected
<1>9. CASE MigrateFinish(p)
  BY <1>0, <1>9 DEF MigrateFinish, CommitFinish, TypeOK, Released
<1>10. CASE ValidateSchema(p)
  BY <1>0, <1>10 DEF ValidateSchema, TypeOK, Recover, Committed, WiredAt, Connected
<1>11. CASE AbortOpen(p)
  BY <1>0, <1>11 DEF AbortOpen, TypeOK, Released
<1>12. CASE Cleanup(p)
  BY <1>0, <1>12 DEF Cleanup, TypeOK
<1>13. CASE BuildDraft(p)
  BY <1>0, <1>13 DEF BuildDraft, TypeOK
<1>14. CASE TaskBegin(p)
  BY <1>0, <1>14 DEF TaskBegin, BeginTx, TypeOK, Recover, Committed, WiredAt, Connected
<1>15. CASE TaskExec(p)
  BY <1>0, <1>15 DEF TaskExec, TypeOK, Released
<1>16. CASE TaskCommit(p)
  BY <1>0, <1>16 DEF TaskCommit, CommitWrite, TypeOK, WiredAt, Connected
<1>17. CASE TaskFinish(p)
  BY <1>0, <1>17 DEF TaskFinish, CommitFinish, TypeOK, Released
<1>18. CASE ShowStat(p)
  BY <1>0, <1>18 DEF ShowStat, TypeOK
<1>19. CASE ShowConnect(p)
  BY <1>0, <1>19 DEF ShowConnect, TypeOK
<1>20. CASE ShowValidate(p)
  BY <1>0, <1>20 DEF ShowValidate, TypeOK
<1>21. CASE ShowQuery(p)
  BY <1>0, <1>21 DEF ShowQuery, TypeOK
<1>22. CASE CloseStore(p)
  BY <1>0, <1>22 DEF CloseStore, TypeOK, Released
<1>23. CASE Report(p)
  BY <1>0, <1>23 DEF Report, TypeOK
<1>24. CASE CancelledFails(p)
  BY <1>0, <1>24
     DEF CancelledFails, StepFails, TypeOK, Recover, Committed, Released, WiredAt,
         Connected
<1>25. CASE Error(p)
  BY <1>0, <1>25
     DEF Error, StepFails, TypeOK, Recover, Committed, Released, WiredAt, Connected
<1>26. CASE Cancel(p)
  BY <1>0, <1>26 DEF Cancel, TypeOK
<1>27. CASE Crash(p)
  BY <1>0, <1>27 DEF Crash, TypeOK, Released
<1>28. CASE ReportFails(p)
  BY <1>0, <1>28 DEF ReportFails, TypeOK
<1>29. CASE Refuse(p)
  BY <1>0, <1>29 DEF Refuse, TypeOK
<1>30. CASE PrepareClose(p)
  BY <1>0, <1>30 DEF PrepareClose, TypeOK
<1>31. CASE FileCallFails(p)
  BY <1>0, <1>31 DEF FileCallFails, TypeOK
<1>32. CASE Busy(p)
  BY <1>0, <1>32
     DEF Busy, StepFails, TypeOK, Recover, Committed, Released, WiredAt, Connected
<1> QED
  BY <1>1, <1>2, <1>3, <1>4, <1>5, <1>6, <1>7, <1>8, <1>9, <1>10, <1>11, <1>12, <1>13,
     <1>14, <1>15, <1>16, <1>17, <1>18, <1>19, <1>20, <1>21, <1>22, <1>23, <1>24,
     <1>25, <1>26, <1>27, <1>28, <1>29, <1>30, <1>31, <1>32
     DEF Step, Fault, Open, CreateTask, Show

(* Whatever may be at the configured path at the start is consistent.       *)
LEMMA InitialContentsSound ==
    ASSUME NEW kind, NEW c \in InitialContents(kind)
    PROVE  Sound(c)
<1>1. CASE kind = "populated"
  <2>1. PICK e \in Seeds :
          c = CurrentContent(WithTask(EmptyTables, e, InsertedResource(e)))
    BY <1>1 DEF InitialContents
  <2>2. e \in Draft
    BY ConstantsAssumption
  <2>3. InsertedResource(e) \in ResourceFor(EmptyTables, e)
    BY DEF ResourceFor, Named, EmptyTables
  <2>4. Accepts(EmptyTables, e)
    BY DEF Accepts, Conflict, ConstraintFails, Named, Owners, EmptyTables
  <2>5. Consistent(WithTask(EmptyTables, e, InsertedResource(e)))
    BY <2>2, <2>3, <2>4, CreateConsistent, EmptyConsistent, ContentsTyped
  <2> QED BY <2>1, <2>5 DEF Sound, CurrentContent, TableNames
<1>2. CASE kind # "populated"
  <2>1. c.tables = EmptyTables
    BY <1>2 DEF InitialContents, EmptyContent, CurrentContent
  <2> QED BY <2>1, EmptyConsistent DEF Sound
<1> QED BY <1>1, <1>2

(* The inductive invariant holds before the first command.                  *)
LEMMA InitInv == Init => Inv
<1> SUFFICES ASSUME Init PROVE Inv
  OBVIOUS
<1>0. NoFile \notin Files /\ NoProc \notin Procs
  BY ConstantsAssumption
<1>1. TypeOK /\ Wired
  BY InitTyped
<1>2. \A p \in Procs : Holds(p) /\ Transaction(p) /\ Validated(p)
  BY DEF Init, Holds, Transaction, Validated, InTx, Finishing, TaskSteps
<1>3. \A f \in Files, p \in Procs : HeldBy(f, p)
  BY <1>0 DEF Init, HeldBy
<1>4. Allocation /\ \A f \in Files : Sound(Committed(f))
  <2>0. Sound(EmptyContent)
    BY EmptyConsistent DEF Sound, EmptyContent
  <2>1. CASE InitAbsent
    BY <2>0, <2>1, <1>0 DEF Init, InitAbsent, Allocation, Committed
  <2>2. CASE InitPresent
    BY <2>0, <2>2, <1>0, InitialContentsSound
       DEF Init, InitPresent, Allocation, Committed
  <2> QED BY <2>1, <2>2 DEF Init
<1> QED BY <1>1, <1>2, <1>3, <1>4 DEF Inv

(* The inductive invariant is kept by every step.                           *)
LEMMA NextInv == Inv /\ [Next]_vars => Inv'
<1> SUFFICES ASSUME Inv, [Next]_vars PROVE Inv'
  OBVIOUS
<1>1. ASSUME NEW p \in Procs, Step(p) \/ Fault(p) PROVE Inv'
  <2>0. Alone(p) /\ Frame(p) /\ NoProc \notin Procs
    BY <1>1, StepAlone, StepFrame, ConstantsAssumption DEF Inv
  <2>1. TypeOK' /\ Wired'
    BY <1>1, NextTyped DEF Inv, Next
  <2>2. Allocation'
    BY <1>1, StepAllocation
  <2>3. \A f \in Files : Sound(Committed(f))'
    <3> SUFFICES ASSUME NEW f \in Files PROVE Sound(Committed(f))'
      OBVIOUS
    <3>1. CASE Committed(f)' = Committed(f)
      BY <3>1 DEF Inv, Sound
    <3>2. CASE CommitsAt(p, f)
      BY <3>2 DEF Inv, CommitsAt, Transaction, Replaces, Sound
    <3> QED BY <1>1, <3>1, <3>2, StepCommits
  <2>4. \A q \in Procs : Holds(q)' /\ Transaction(q)' /\ Validated(q)'
    <3> SUFFICES ASSUME NEW q \in Procs
                 PROVE  Holds(q)' /\ Transaction(q)' /\ Validated(q)'
      OBVIOUS
    <3>1. CASE q = p
      BY <1>1, <3>1, StepOwn, StepTransaction, StepValidated
    <3>2. CASE q # p
      <4>1. pc'[q] = pc[q] /\ handle'[q] = handle[q] /\ work'[q] = work[q]
        BY <2>0, <3>2 DEF Alone
      <4>2. /\ Holds(q) /\ Transaction(q) /\ Validated(q) /\ WiredAt(q)
        BY DEF Inv, Wired
      <4>3. CASE pc[q] \in InTx
        <5>1. lock[handle[q]] = q /\ handle[q] \in Files
          BY <4>2, <4>3 DEF Holds, WiredAt, Connected, InTx
        <5>2. /\ disk'[handle[q]] = disk[handle[q]]
              /\ journal'[handle[q]] = journal[handle[q]]
              /\ lock'[handle[q]] = q
          BY <5>1, <2>0, <3>2 DEF Frame
        <5> QED BY <4>1, <4>2, <5>1, <5>2
                DEF Holds, Transaction, Validated, Committed
      <4>4. CASE pc[q] \notin InTx
        <5>1. Holds(q)' /\ Transaction(q)'
          BY <4>1, <4>4 DEF Holds, Transaction, InTx, Finishing
        <5>2. Validated(q)'
          <6> SUFFICES ASSUME pc[q] \in TaskSteps PROVE ValidSchema(Committed(handle[q])')
            BY <4>1 DEF Validated
          <6>1. PICK f \in Files : f = handle[q]
            BY <4>2 DEF WiredAt, Connected, TaskSteps
          <6>2. ValidSchema(Committed(f))
            BY <4>2, <6>1 DEF Validated
          <6>3. CASE Committed(f)' = Committed(f)
            BY <4>1, <6>1, <6>2, <6>3
          <6>4. CASE CommitsAt(p, f)
            <7>1. f = handle[p] /\ pc[p] \in Finishing
              BY <6>4 DEF CommitsAt
            <7>2. journal[f] # NoJournal /\ Replaces(journal[f], work[p])
              BY <7>1 DEF Inv, Transaction
            <7>3. ValidSchema(work[p])
              BY <6>2, <7>2 DEF Committed, Replaces
            <7> QED BY <4>1, <6>1, <6>4, <7>3 DEF CommitsAt
          <6> QED BY <1>1, <6>3, <6>4, StepCommits
        <5> QED BY <5>1, <5>2
      <4> QED BY <4>3, <4>4
    <3> QED BY <3>1, <3>2
  <2>5. \A f \in Files, q \in Procs : HeldBy(f, q)'
    <3> SUFFICES ASSUME NEW f \in Files, NEW q \in Procs PROVE HeldBy(f, q)'
      OBVIOUS
    <3>1. CASE q = p
      BY <1>1, <3>1, StepOwn
    <3>2. CASE q # p
      BY <2>0, <3>2 DEF Frame, Alone, Inv, HeldBy
    <3> QED BY <3>1, <3>2
  <2> QED BY <2>1, <2>2, <2>3, <2>4, <2>5 DEF Inv
<1>2. CASE UNCHANGED vars
  BY <1>2 DEF vars, fileVars, procVars, Inv, TypeOK, Wired, WiredAt, Allocation,
              Holds, HeldBy, Transaction, Validated, Committed
<1> QED BY <1>1, <1>2 DEF Next, Terminated

-----------------------------------------------------------------------------
(* The inductive invariant holds throughout.                                *)
LEMMA SpecInv == Spec => []Inv
BY InitInv, NextInv, PTL DEF Spec

(* The committed rows of the three tables fit together in every file: two   *)
(* submissions that interleave, fail, are cancelled or crash anywhere never *)
(* leave a task without its resource or history, or two rows with one key.  *)
THEOREM ConsistentAlways == Spec => []TablesConsistent
<1>1. Inv => TablesConsistent
  BY DEF Inv, TablesConsistent, Sound
<1> QED BY SpecInv, <1>1, PTL

(* A step keeps what every file has committed or replaces it by an          *)
(* extension of it.                                                         *)
LEMMA StepExtends ==
    ASSUME Inv, [Next]_vars, NEW f \in Files
    PROVE  Committed(f)' = Committed(f) \/ Replaces(Committed(f), Committed(f)')
<1>1. ASSUME NEW p \in Procs, Step(p) \/ Fault(p)
      PROVE  Committed(f)' = Committed(f) \/ Replaces(Committed(f), Committed(f)')
  <2>1. CASE Committed(f)' = Committed(f)
    BY <2>1
  <2>2. CASE CommitsAt(p, f)
    BY <2>2 DEF CommitsAt, Inv, Transaction, Committed
  <2> QED BY <1>1, <2>1, <2>2, StepCommits
<1>2. CASE UNCHANGED vars
  BY <1>2 DEF vars, fileVars, Committed
<1> QED BY <1>1, <1>2 DEF Next, Terminated

(* No interleaving, error, cancellation or crash ever removes or rewrites a *)
(* task that a state file has committed.                                    *)
THEOREM TasksPermanent == Spec => CommittedTasksPermanent
<1>1. Inv /\ [Next]_vars =>
        [\A f \in Files :
           Committed(f).tables.tasks \subseteq Committed(f)'.tables.tasks]_vars
  BY StepExtends DEF Replaces, KeepsTasks
<1> QED BY SpecInv, <1>1, PTL DEF Spec, CommittedTasksPermanent

(* A resource, once onboarded, keeps its id, name, connector, upstream      *)
(* identity and onboarding time in every later version of the file.         *)
THEOREM BindingsPermanent == Spec => ResourceBindingPermanent
<1>1. Inv /\ [Next]_vars =>
        [\A f \in Files : \A r \in Committed(f).tables.resources :
           \E s \in Committed(f)'.tables.resources :
              BindingOf(s) = BindingOf(r) /\ s.onboardedAt = r.onboardedAt]_vars
  <2> SUFFICES ASSUME Inv, [Next]_vars, NEW f \in Files,
                      NEW r \in Committed(f).tables.resources
               PROVE  \E s \in Committed(f)'.tables.resources :
                         BindingOf(s) = BindingOf(r) /\ s.onboardedAt = r.onboardedAt
    OBVIOUS
  <2> QED BY StepExtends DEF Replaces, KeepsBindings
<1> QED BY SpecInv, <1>1, PTL DEF Spec, ResourceBindingPermanent

-----------------------------------------------------------------------------
(* From here on the state file exists before the first command: then no     *)
(* process creates it, so none removes it.                                  *)
FileExists == "absent" \notin InitialFiles

PathFixed ==
    /\ path \in Files
    /\ \A p \in Procs :
         /\ pc[p] \notin {"create", "closeFile", "cleanup"}
         /\ made[p] = NoFile
         /\ handle[p] \in {path, NoFile}

(* What a command is about to print is in the file or in its transaction.   *)
AnswerAt(p) ==
    /\ pc[p] \in {"taskCommit", "taskFinish"} => answer[p] \in work[p].tables.tasks
    /\ pc[p] \in {"close", "report", "done"} => answer[p] \in Committed(path).tables.tasks

Answers == \A p \in Procs : AnswerAt(p)

(* With a state file present, nobody has to create one.                     *)
LEMMA InitPathFixed == FileExists /\ Init => PathFixed /\ Answers
BY DEF FileExists, Init, InitAbsent, InitPresent, PathFixed, Answers, AnswerAt

(* One case per action: with a state file present nobody creates one, so    *)
(* nobody removes one.                                                      *)
LEMMA StepPathFixed ==
    ASSUME Inv, PathFixed, NEW p \in Procs, Step(p) \/ Fault(p)
    PROVE  path' = path /\ PathFixed'
<1> USE DEF Goto, fileVars
<1>0. TypeOK /\ Alone(p) /\ NoFile \notin Files
  BY StepAlone, ConstantsAssumption DEF Inv
<1> DEFINE Own == /\ path' = path
                  /\ pc'[p] \notin {"create", "closeFile", "cleanup"}
                  /\ made'[p] = NoFile
                  /\ handle'[p] \in {path, NoFile}
<1>1. ASSUME PrepareStat(p) PROVE Own
  BY <1>0, <1>1 DEF PrepareStat, TypeOK, PathFixed
<1>2. ASSUME PrepareCreate(p) PROVE Own
  BY <1>0, <1>2 DEF PrepareCreate, TypeOK, PathFixed
<1>3. ASSUME Connect(p) PROVE Own
  BY <1>0, <1>3 DEF Connect, TypeOK, PathFixed
<1>4. ASSUME ReadVersion(p) PROVE Own
  BY <1>0, <1>4 DEF ReadVersion, TypeOK, PathFixed
<1>5. ASSUME CountObjects(p) PROVE Own
  BY <1>0, <1>5 DEF CountObjects, TypeOK, PathFixed
<1>6. ASSUME MigrateBegin(p) PROVE Own
  BY <1>0, <1>6 DEF MigrateBegin, BeginTx, TypeOK, PathFixed
<1>7. ASSUME MigrateExec(p) PROVE Own
  BY <1>0, <1>7 DEF MigrateExec, Migrated, TypeOK, PathFixed
<1>8. ASSUME MigrateCommit(p) PROVE Own
  BY <1>0, <1>8 DEF MigrateCommit, CommitWrite, TypeOK, PathFixed
<1>9. ASSUME MigrateFinish(p) PROVE Own
  BY <1>0, <1>9 DEF MigrateFinish, CommitFinish, TypeOK, PathFixed
<1>10. ASSUME ValidateSchema(p) PROVE Own
  BY <1>0, <1>10 DEF ValidateSchema, TypeOK, PathFixed
<1>11. ASSUME AbortOpen(p) PROVE Own
  BY <1>0, <1>11 DEF AbortOpen, TypeOK, PathFixed
<1>12. ASSUME Cleanup(p) PROVE Own
  BY <1>0, <1>12 DEF Cleanup, TypeOK, PathFixed
<1>13. ASSUME BuildDraft(p) PROVE Own
  BY <1>0, <1>13 DEF BuildDraft, TypeOK, PathFixed
<1>14. ASSUME TaskBegin(p) PROVE Own
  BY <1>0, <1>14 DEF TaskBegin, BeginTx, TypeOK, PathFixed
<1>15. ASSUME TaskExec(p) PROVE Own
  BY <1>0, <1>15 DEF TaskExec, TypeOK, PathFixed
<1>16. ASSUME TaskCommit(p) PROVE Own
  BY <1>0, <1>16 DEF TaskCommit, CommitWrite, TypeOK, PathFixed
<1>17. ASSUME TaskFinish(p) PROVE Own
  BY <1>0, <1>17 DEF TaskFinish, CommitFinish, TypeOK, PathFixed
<1>18. ASSUME ShowStat(p) PROVE Own
  BY <1>0, <1>18 DEF ShowStat, TypeOK, PathFixed
<1>19. ASSUME ShowConnect(p) PROVE Own
  BY <1>0, <1>19 DEF ShowConnect, TypeOK, PathFixed
<1>20. ASSUME ShowValidate(p) PROVE Own
  BY <1>0, <1>20 DEF ShowValidate, TypeOK, PathFixed
<1>21. ASSUME ShowQuery(p) PROVE Own
  BY <1>0, <1>21 DEF ShowQuery, TypeOK, PathFixed
<1>22. ASSUME CloseStore(p) PROVE Own
  BY <1>0, <1>22 DEF CloseStore, TypeOK, PathFixed
<1>23. ASSUME Report(p) PROVE Own
  BY <1>0, <1>23 DEF Report, TypeOK, PathFixed
<1>24. ASSUME CancelledFails(p) PROVE Own
  BY <1>0, <1>24 DEF CancelledFails, StepFails, TypeOK, PathFixed
<1>25. ASSUME Error(p) PROVE Own
  BY <1>0, <1>25 DEF Error, StepFails, TypeOK, PathFixed
<1>26. ASSUME Cancel(p) PROVE Own
  BY <1>0, <1>26 DEF Cancel, TypeOK, PathFixed
<1>27. ASSUME Crash(p) PROVE Own
  BY <1>0, <1>27 DEF Crash, TypeOK, PathFixed
<1>28. ASSUME ReportFails(p) PROVE Own
  BY <1>0, <1>28 DEF ReportFails, TypeOK, PathFixed
<1>29. ASSUME Refuse(p) PROVE Own
  BY <1>0, <1>29 DEF Refuse, TypeOK, PathFixed
<1>30. ASSUME PrepareClose(p) PROVE Own
  BY <1>0, <1>30 DEF PrepareClose, TypeOK, PathFixed
<1>31. ASSUME FileCallFails(p) PROVE Own
  BY <1>0, <1>31 DEF FileCallFails, TypeOK, PathFixed
<1>32. ASSUME Busy(p) PROVE Own
  BY <1>0, <1>32 DEF Busy, StepFails, TypeOK, PathFixed
<1>33. Own
  BY <1>1, <1>2, <1>3, <1>4, <1>5, <1>6, <1>7, <1>8, <1>9, <1>10, <1>11, <1>12, <1>13,
     <1>14, <1>15, <1>16, <1>17, <1>18, <1>19, <1>20, <1>21, <1>22, <1>23, <1>24,
     <1>25, <1>26, <1>27, <1>28, <1>29, <1>30, <1>31, <1>32
     DEF Step, Fault, Open, CreateTask, Show
<1> QED BY <1>0, <1>33 DEF Alone, PathFixed

(* One case per action: an answer a process is about to print is committed. *)
LEMMA StepAnswers ==
    ASSUME Inv, PathFixed, Answers, NEW p \in Procs, Step(p) \/ Fault(p)
    PROVE  Answers'
<1> USE DEF Goto, fileVars
<1>0. /\ TypeOK /\ WiredAt(p) /\ AnswerAt(p) /\ Alone(p) /\ Transaction(p)
      /\ path' = path /\ path \in Files
      /\ NoFile \notin Files
  BY StepAlone, StepPathFixed, ConstantsAssumption DEF Inv, Wired, Answers, PathFixed
<1>a. PICK g \in Files : g = path
  BY <1>0
<1>b. Committed(path)' = Committed(g)'
  BY <1>0, <1>a DEF Committed
<1>c. Committed(g).tables.tasks \subseteq Committed(g)'.tables.tasks
  BY StepExtends DEF Next, Replaces, KeepsTasks
<1>1. ASSUME PrepareStat(p) PROVE AnswerAt(p)'
  BY <1>0, <1>a, <1>b, <1>c, <1>1 DEF PrepareStat, TypeOK, AnswerAt
<1>2. ASSUME PrepareCreate(p) PROVE AnswerAt(p)'
  BY <1>0, <1>a, <1>b, <1>c, <1>2 DEF PrepareCreate, TypeOK, AnswerAt
<1>3. ASSUME Connect(p) PROVE AnswerAt(p)'
  BY <1>0, <1>a, <1>b, <1>c, <1>3 DEF Connect, TypeOK, AnswerAt
<1>4. ASSUME ReadVersion(p) PROVE AnswerAt(p)'
  BY <1>0, <1>a, <1>b, <1>c, <1>4 DEF ReadVersion, TypeOK, AnswerAt
<1>5. ASSUME CountObjects(p) PROVE AnswerAt(p)'
  BY <1>0, <1>a, <1>b, <1>c, <1>5 DEF CountObjects, TypeOK, AnswerAt
<1>6. ASSUME MigrateBegin(p) PROVE AnswerAt(p)'
  BY <1>0, <1>a, <1>b, <1>c, <1>6 DEF MigrateBegin, BeginTx, TypeOK, AnswerAt
<1>7. ASSUME MigrateExec(p) PROVE AnswerAt(p)'
  BY <1>0, <1>a, <1>b, <1>c, <1>7 DEF MigrateExec, Migrated, TypeOK, AnswerAt
<1>8. ASSUME MigrateCommit(p) PROVE AnswerAt(p)'
  BY <1>0, <1>a, <1>b, <1>c, <1>8 DEF MigrateCommit, CommitWrite, TypeOK, AnswerAt
<1>9. ASSUME MigrateFinish(p) PROVE AnswerAt(p)'
  BY <1>0, <1>a, <1>b, <1>c, <1>9 DEF MigrateFinish, CommitFinish, TypeOK, AnswerAt
<1>10. ASSUME ValidateSchema(p) PROVE AnswerAt(p)'
  BY <1>0, <1>a, <1>b, <1>c, <1>10 DEF ValidateSchema, TypeOK, AnswerAt
<1>11. ASSUME AbortOpen(p) PROVE AnswerAt(p)'
  BY <1>0, <1>a, <1>b, <1>c, <1>11 DEF AbortOpen, TypeOK, AnswerAt
<1>12. ASSUME Cleanup(p) PROVE AnswerAt(p)'
  BY <1>0, <1>a, <1>b, <1>c, <1>12 DEF Cleanup, TypeOK, AnswerAt
<1>13. ASSUME BuildDraft(p) PROVE AnswerAt(p)'
  BY <1>0, <1>a, <1>b, <1>c, <1>13 DEF BuildDraft, TypeOK, AnswerAt
<1>14. ASSUME TaskBegin(p) PROVE AnswerAt(p)'
  BY <1>0, <1>a, <1>b, <1>c, <1>14 DEF TaskBegin, BeginTx, TypeOK, AnswerAt
<1>15. ASSUME TaskExec(p) PROVE AnswerAt(p)'
  <2>1. CASE pc'[p] = "taskCommit"
    <3>1. PICK r \in ResourceFor(work[p].tables, draft[p]) :
            /\ work' = [work EXCEPT ![p] =
                 [work[p] EXCEPT !.tables = WithTask(work[p].tables, draft[p], r)]]
            /\ answer' = [answer EXCEPT ![p] = StoredTask(draft[p], r)]
      BY <1>0, <1>15, <2>1 DEF TaskExec, TypeOK
    <3>2. work[p] \in Content
      BY <1>0 DEF TypeOK
    <3>3. work'[p].tables = WithTask(work[p].tables, draft[p], r)
      BY <1>0, <3>1, <3>2 DEF TypeOK, Content
    <3>4. answer'[p] \in work'[p].tables.tasks
      BY <1>0, <3>1, <3>3 DEF WithTask, TypeOK
    <3> QED BY <2>1, <3>4 DEF AnswerAt
  <2>2. CASE pc'[p] # "taskCommit"
    BY <1>0, <1>15, <2>2 DEF TaskExec, TypeOK, AnswerAt
  <2> QED BY <2>1, <2>2
<1>16. ASSUME TaskCommit(p) PROVE AnswerAt(p)'
  BY <1>0, <1>a, <1>b, <1>c, <1>16 DEF TaskCommit, CommitWrite, TypeOK, AnswerAt
<1>17. ASSUME TaskFinish(p) PROVE AnswerAt(p)'
  <2>1. handle[p] = g /\ disk[g] = work[p] /\ answer[p] \in work[p].tables.tasks
    BY <1>0, <1>a, <1>17 DEF TaskFinish, CommitFinish, PathFixed, WiredAt, Connected,
       Transaction, Finishing, AnswerAt
  <2>2. Committed(g)' = work[p] /\ answer' = answer /\ pc'[p] = "close"
    BY <1>0, <1>17, <2>1 DEF TaskFinish, CommitFinish, Committed, TypeOK
  <2> QED BY <1>b, <2>1, <2>2 DEF AnswerAt
<1>18. ASSUME ShowStat(p) PROVE AnswerAt(p)'
  BY <1>0, <1>a, <1>b, <1>c, <1>18 DEF ShowStat, TypeOK, AnswerAt
<1>19. ASSUME ShowConnect(p) PROVE AnswerAt(p)'
  BY <1>0, <1>a, <1>b, <1>c, <1>19 DEF ShowConnect, TypeOK, AnswerAt
<1>20. ASSUME ShowValidate(p) PROVE AnswerAt(p)'
  BY <1>0, <1>a, <1>b, <1>c, <1>20 DEF ShowValidate, TypeOK, AnswerAt
<1>21. ASSUME ShowQuery(p) PROVE AnswerAt(p)'
  <2>1. CASE pc'[p] = "close"
    <3>1. handle[p] = g
      BY <1>0, <1>a, <1>21 DEF ShowQuery, PathFixed, WiredAt, Connected
    <3>2. answer'[p] \in disk[g].tables.tasks /\ journal[g] = NoJournal
      BY <1>0, <1>21, <2>1, <3>1 DEF ShowQuery, TypeOK
    <3>3. disk' = disk /\ journal' = journal
      BY <1>21 DEF ShowQuery
    <3> QED BY <1>b, <2>1, <3>2, <3>3 DEF AnswerAt, Committed
  <2>2. CASE pc'[p] # "close"
    BY <1>0, <1>21, <2>2 DEF ShowQuery, TypeOK, AnswerAt
  <2> QED BY <2>1, <2>2
<1>22. ASSUME CloseStore(p) PROVE AnswerAt(p)'
  BY <1>0, <1>a, <1>b, <1>c, <1>22 DEF CloseStore, TypeOK, AnswerAt
<1>23. ASSUME Report(p) PROVE AnswerAt(p)'
  BY <1>0, <1>a, <1>b, <1>c, <1>23 DEF Report, TypeOK, AnswerAt
<1>24. ASSUME CancelledFails(p) PROVE AnswerAt(p)'
  BY <1>0, <1>a, <1>b, <1>c, <1>24
     DEF CancelledFails, StepFails, TypeOK, AnswerAt, OpenSteps, TaskSteps, ShowSteps
<1>25. ASSUME Error(p) PROVE AnswerAt(p)'
  BY <1>0, <1>a, <1>b, <1>c, <1>25
     DEF Error, StepFails, TypeOK, AnswerAt, OpenSteps, TaskSteps, ShowSteps
<1>26. ASSUME Cancel(p) PROVE AnswerAt(p)'
  BY <1>0, <1>a, <1>b, <1>c, <1>26 DEF Cancel, TypeOK, AnswerAt, Final
<1>27. ASSUME Crash(p) PROVE AnswerAt(p)'
  BY <1>0, <1>a, <1>b, <1>c, <1>27 DEF Crash, TypeOK, AnswerAt
<1>28. ASSUME ReportFails(p) PROVE AnswerAt(p)'
  BY <1>0, <1>a, <1>b, <1>c, <1>28 DEF ReportFails, TypeOK, AnswerAt
<1>29. ASSUME Refuse(p) PROVE AnswerAt(p)'
  BY <1>0, <1>a, <1>b, <1>c, <1>29 DEF Refuse, TypeOK, AnswerAt
<1>30. ASSUME PrepareClose(p) PROVE AnswerAt(p)'
  BY <1>0, <1>a, <1>b, <1>c, <1>30 DEF PrepareClose, TypeOK, AnswerAt
<1>31. ASSUME FileCallFails(p) PROVE AnswerAt(p)'
  BY <1>0, <1>a, <1>b, <1>c, <1>31 DEF FileCallFails, TypeOK, AnswerAt
<1>32. ASSUME Busy(p) PROVE AnswerAt(p)'
  BY <1>0, <1>a, <1>b, <1>c, <1>32
     DEF Busy, StepFails, TypeOK, AnswerAt, OpenSteps, TaskSteps, ShowSteps
<1>33. AnswerAt(p)'
  BY <1>1, <1>2, <1>3, <1>4, <1>5, <1>6, <1>7, <1>8, <1>9, <1>10, <1>11, <1>12, <1>13,
     <1>14, <1>15, <1>16, <1>17, <1>18, <1>19, <1>20, <1>21, <1>22, <1>23, <1>24,
     <1>25, <1>26, <1>27, <1>28, <1>29, <1>30, <1>31, <1>32
     DEF Step, Fault, Open, CreateTask, Show
<1>34. ASSUME NEW q \in Procs, q # p PROVE AnswerAt(q)'
  <2>1. AnswerAt(q)
    BY DEF Answers
  <2> QED BY <1>0, <1>a, <1>b, <1>c, <1>34, <2>1 DEF Alone, AnswerAt
<1> QED BY <1>33, <1>34 DEF Answers

(* The path and the answers are safe in every step.                         *)
LEMMA NextDurable ==
    Inv /\ PathFixed /\ Answers /\ [Next]_vars => PathFixed' /\ Answers' /\ path' = path
<1> SUFFICES ASSUME Inv, PathFixed, Answers, [Next]_vars
             PROVE  PathFixed' /\ Answers' /\ path' = path
  OBVIOUS
<1>1. ASSUME NEW p \in Procs, Step(p) \/ Fault(p)
      PROVE  PathFixed' /\ Answers' /\ path' = path
  BY <1>1, StepPathFixed, StepAnswers
<1>2. CASE UNCHANGED vars
  BY <1>2 DEF vars, fileVars, procVars, PathFixed, Answers, AnswerAt, Committed
<1> QED BY <1>1, <1>2 DEF Next, Terminated

(* With a state file present, answers stay in it throughout.                *)
LEMMA SpecDurable ==
    ASSUME FileExists
    PROVE  Spec => [](Inv /\ PathFixed /\ Answers)
<1>1. Init => PathFixed /\ Answers
  BY InitPathFixed
<1> QED BY <1>1, InitInv, NextInv, NextDurable, PTL DEF Spec

(* Once the state file exists, a task that `task submit` or `task show` has *)
(* printed is in the file for ever, whatever other commands do, however     *)
(* they fail and whenever they crash.                                       *)
THEOREM ReportedForGood ==
    ASSUME FileExists
    PROVE  Spec => []ReportedDurable
<1>1. PathFixed /\ Answers => ReportedDurable
  BY ConstantsAssumption
     DEF PathFixed, Answers, AnswerAt, ReportedDurable, Reported, Stored
<1> QED BY SpecDurable, <1>1, PTL
=============================================================================
