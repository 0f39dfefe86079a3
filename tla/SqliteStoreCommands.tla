------------------------ MODULE SqliteStoreCommands ------------------------
(***************************************************************************)
(* What delegatd's commands promise of the state file, from the invariant   *)
(* of SqliteStoreProofs.  On a state file that exists the commands          *)
(* implement TaskStore: seen from outside, a submission happens at one      *)
(* instant, its CommitFinish, and every other step of opening, migrating,   *)
(* locking, writing, failing and recovering is invisible.  Then: who        *)
(* removes a state file and how else a task cannot get lost, who holds a    *)
(* lock, which files are written at all, what a submission leaves behind    *)
(* when it fails and when it succeeds, what `task show` may deny, who may   *)
(* read a state file, and why a submission may fail.                        *)
(***************************************************************************)
EXTENDS SqliteStoreProofs

Bindings(t) == {BindingOf(r) : r \in t.resources}

-----------------------------------------------------------------------------
(* CreateTask on consistent tables is TaskStore's Create.                   *)
LEMMA CreateIsCreate ==
    ASSUME NEW t \in Tables, NEW d \in Draft, Consistent(t), Accepts(t, d),
           NEW r \in ResourceFor(t, d)
    PROVE  LET u == WithTask(t, d, r)
               k == StoredTask(d, r)
               b == BindingOf(r)
           IN  /\ k \in TaskRow /\ b \in Binding
               /\ \A j \in t.tasks : j.id # k.id
               /\ u.tasks = t.tasks \cup {k}
               /\ TS!BelongsTo(k, b)
               /\ b \in Bindings(t) \/ \A a \in Bindings(t) : TS!Compatible(a, b)
               /\ Bindings(u) = Bindings(t) \cup {b}
<1> DEFINE u == WithTask(t, d, r)
           k == StoredTask(d, r)
           b == BindingOf(r)
<1>1. r \in ResourceRow /\ k \in TaskRow
  BY CreatesTyped
<1>2. b \in Binding
  BY <1>1 DEF BindingOf, Binding, ResourceRow
<1>3. \A j \in t.tasks : j.id # k.id
  BY DEF Accepts, ConstraintFails, StoredTask
<1>4. /\ u.tasks = t.tasks \cup {k}
      /\ u.resources = {x \in t.resources : x.id # r.id} \cup {r}
  BY DEF WithTask
<1>5. /\ r.name = d.name /\ r.connector = d.connector
      /\ \/ \A x \in t.resources :
              /\ x.id # r.id
              /\ x.name # r.name
              /\ ~(x.connector = r.connector /\ x.identity = r.identity)
         \/ \E old \in t.resources : BindingOf(old) = BindingOf(r)
  BY ResourceForFits DEF Consistent
<1>6. TS!BelongsTo(k, b)
  BY <1>5 DEF TS!BelongsTo, StoredTask, BindingOf
<1>7. b \in Bindings(t) \/ \A a \in Bindings(t) : TS!Compatible(a, b)
  BY <1>5 DEF Bindings, BindingOf, TS!Compatible
<1>8. \A x \in t.resources : x.id = r.id => BindingOf(x) = b
  <2>1. KeysUnique(t)
    BY DEF Consistent
  <2>2. CASE \E old \in t.resources : BindingOf(old) = BindingOf(r)
    <3>1. PICK old \in t.resources : BindingOf(old) = b /\ old.id = r.id
      BY <2>2 DEF BindingOf
    <3> QED BY <2>1, <3>1 DEF KeysUnique
  <2> QED BY <1>5, <2>2
<1>9. Bindings(u) = Bindings(t) \cup {b}
  <2>1. \A x \in t.resources : BindingOf(x) \in Bindings(u)
    BY <1>4, <1>8 DEF Bindings
  <2> QED BY <1>4, <2>1 DEF Bindings
<1> QED BY <1>1, <1>2, <1>3, <1>4, <1>6, <1>7, <1>9

-----------------------------------------------------------------------------
(* What exactly a transaction is about to write, next to Transaction of     *)
(* SqliteStoreProofs.                                                       *)
Creates(p, t) ==
    /\ draft[p] \in Draft
    /\ Accepts(t, draft[p])
    /\ \E r \in ResourceFor(t, draft[p]) : work[p].tables = WithTask(t, draft[p], r)

Shape(p) ==
    /\ pc[p] = "migrateCommit" => work[p].tables = disk[handle[p]].tables
    /\ pc[p] = "migrateFinish" => work[p].tables = journal[handle[p]].tables
    /\ pc[p] = "taskCommit" => Creates(p, disk[handle[p]].tables)
    /\ pc[p] = "taskFinish" => Creates(p, journal[handle[p]].tables)

Shapes == \A p \in Procs : Shape(p)

(* No transaction is open before the first command.                         *)
LEMMA InitShapes == Init => Shapes
BY DEF Init, Shapes, Shape

(* One case per action: the pages of an open transaction are the old ones   *)
(* with no row changed or with exactly one task added.                      *)
LEMMA StepShape ==
    ASSUME Inv, Shapes, NEW p \in Procs, Step(p) \/ Fault(p)
    PROVE  Shape(p)'
<1> USE DEF Goto, fileVars
<1>0. TypeOK /\ WiredAt(p) /\ Transaction(p) /\ Shape(p)
  BY DEF Inv, Wired, Shapes
<1>1. CASE PrepareStat(p)
  BY <1>0, <1>1 DEF PrepareStat, TypeOK, Shape
<1>2. CASE PrepareCreate(p)
  BY <1>0, <1>2 DEF PrepareCreate, TypeOK, Shape
<1>3. CASE Connect(p)
  BY <1>0, <1>3 DEF Connect, TypeOK, Shape
<1>4. CASE ReadVersion(p)
  BY <1>0, <1>4 DEF ReadVersion, TypeOK, Shape
<1>5. CASE CountObjects(p)
  BY <1>0, <1>5 DEF CountObjects, TypeOK, Shape
<1>6. CASE MigrateBegin(p)
  BY <1>0, <1>6 DEF MigrateBegin, BeginTx, TypeOK, Shape
<1>7. CASE MigrateExec(p)
  <2>1. CASE pc'[p] = "migrateCommit"
    <3>1. /\ work'[p].tables = EmptyTables /\ work[p].objects \cap TableNames = {}
          /\ disk' = disk /\ handle' = handle
      BY <1>0, <1>7, <2>1 DEF MigrateExec, Migrated, TypeOK
    <3>2. work[p] = disk[handle[p]] /\ Sound(disk[handle[p]])
      BY <1>0, <1>7, DiskCommitted DEF MigrateExec, Migrated, Transaction, InTx, Finishing
    <3> QED BY <2>1, <3>1, <3>2 DEF Sound, Shape
  <2>2. CASE pc'[p] # "migrateCommit"
    BY <1>0, <1>7, <2>2 DEF MigrateExec, Migrated, TypeOK, Shape
  <2> QED BY <2>1, <2>2
<1>8. CASE MigrateCommit(p)
  BY <1>0, <1>8
     DEF MigrateCommit, CommitWrite, TypeOK, Shape, Creates, WiredAt, Connected
<1>9. CASE MigrateFinish(p)
  BY <1>0, <1>9 DEF MigrateFinish, CommitFinish, TypeOK, Shape
<1>10. CASE ValidateSchema(p)
  BY <1>0, <1>10 DEF ValidateSchema, TypeOK, Shape
<1>11. CASE AbortOpen(p)
  BY <1>0, <1>11 DEF AbortOpen, TypeOK, Shape
<1>12. CASE Cleanup(p)
  BY <1>0, <1>12 DEF Cleanup, TypeOK, Shape
<1>13. CASE BuildDraft(p)
  BY <1>0, <1>13 DEF BuildDraft, TypeOK, Shape
<1>14. CASE TaskBegin(p)
  BY <1>0, <1>14 DEF TaskBegin, BeginTx, TypeOK, Shape
<1>15. CASE TaskExec(p)
  <2>1. CASE pc'[p] = "taskCommit"
    <3> DEFINE t == work[p].tables
    <3>1. Accepts(t, draft[p]) /\ disk' = disk /\ handle' = handle /\ draft' = draft
      BY <1>0, <1>15, <2>1 DEF TaskExec, TypeOK
    <3>2. PICK r \in ResourceFor(t, draft[p]) :
            work' = [work EXCEPT ![p] = [work[p] EXCEPT !.tables = WithTask(t, draft[p], r)]]
      BY <1>15, <3>1 DEF TaskExec
    <3>3. work[p] \in Content /\ draft[p] \in Draft
      BY <1>0, <1>15 DEF TaskExec, TypeOK, WiredAt, Drafted
    <3>4. work'[p].tables = WithTask(t, draft[p], r)
      BY <1>0, <3>2, <3>3 DEF TypeOK, Content
    <3>5. work[p] = disk[handle[p]]
      BY <1>0, <1>15 DEF TaskExec, Transaction
    <3> QED BY <2>1, <3>1, <3>3, <3>4, <3>5 DEF Shape, Creates
  <2>2. CASE pc'[p] # "taskCommit"
    BY <1>0, <1>15, <2>2 DEF TaskExec, TypeOK, Shape
  <2> QED BY <2>1, <2>2
<1>16. CASE TaskCommit(p)
  BY <1>0, <1>16 DEF TaskCommit, CommitWrite, TypeOK, Shape, Creates, WiredAt, Connected
<1>17. CASE TaskFinish(p)
  BY <1>0, <1>17 DEF TaskFinish, CommitFinish, TypeOK, Shape
<1>18. CASE ShowStat(p)
  BY <1>0, <1>18 DEF ShowStat, TypeOK, Shape
<1>19. CASE ShowConnect(p)
  BY <1>0, <1>19 DEF ShowConnect, TypeOK, Shape
<1>20. CASE ShowValidate(p)
  BY <1>0, <1>20 DEF ShowValidate, TypeOK, Shape
<1>21. CASE ShowQuery(p)
  BY <1>0, <1>21 DEF ShowQuery, TypeOK, Shape
<1>22. CASE CloseStore(p)
  BY <1>0, <1>22 DEF CloseStore, TypeOK, Shape
<1>23. CASE Report(p)
  BY <1>0, <1>23 DEF Report, TypeOK, Shape
<1>24. CASE CancelledFails(p)
  BY <1>0, <1>24 DEF CancelledFails, StepFails, TypeOK, Shape
<1>25. CASE Error(p)
  BY <1>0, <1>25 DEF Error, StepFails, TypeOK, Shape
<1>26. CASE Cancel(p)
  BY <1>0, <1>26 DEF Cancel, TypeOK, Shape, Creates
<1>27. CASE Crash(p)
  BY <1>0, <1>27 DEF Crash, TypeOK, Shape
<1>28. CASE ReportFails(p)
  BY <1>0, <1>28 DEF ReportFails, TypeOK, Shape
<1>29. CASE Refuse(p)
  BY <1>0, <1>29 DEF Refuse, TypeOK, Shape
<1>30. CASE PrepareClose(p)
  BY <1>0, <1>30 DEF PrepareClose, TypeOK, Shape
<1>31. CASE FileCallFails(p)
  BY <1>0, <1>31 DEF FileCallFails, TypeOK, Shape
<1>32. CASE Busy(p)
  BY <1>0, <1>32 DEF Busy, StepFails, TypeOK, Shape
<1> QED
  BY <1>1, <1>2, <1>3, <1>4, <1>5, <1>6, <1>7, <1>8, <1>9, <1>10, <1>11, <1>12, <1>13,
     <1>14, <1>15, <1>16, <1>17, <1>18, <1>19, <1>20, <1>21, <1>22, <1>23, <1>24,
     <1>25, <1>26, <1>27, <1>28, <1>29, <1>30, <1>31, <1>32
     DEF Step, Fault, Open, CreateTask, Show

(* The shape of answers is kept by every step.                              *)
LEMMA NextShapes == Inv /\ Shapes /\ [Next]_vars => Shapes'
<1> SUFFICES ASSUME Inv, Shapes, [Next]_vars PROVE Shapes'
  OBVIOUS
<1>1. ASSUME NEW p \in Procs, Step(p) \/ Fault(p) PROVE Shapes'
  <2> SUFFICES ASSUME NEW q \in Procs PROVE Shape(q)'
    BY DEF Shapes
  <2>1. CASE q = p
    BY <1>1, <2>1, StepShape
  <2>2. CASE q # p
    <3>1. /\ pc'[q] = pc[q] /\ handle'[q] = handle[q]
          /\ work'[q] = work[q] /\ draft'[q] = draft[q]
      BY <1>1, <2>2, StepAlone DEF Inv, Alone
    <3>2. Shape(q) /\ Holds(q) /\ WiredAt(q) /\ Frame(p) /\ q # NoProc
      BY <1>1, StepFrame, ConstantsAssumption DEF Inv, Wired, Shapes
    <3>3. CASE pc[q] \in InTx
      <4>1. lock[handle[q]] = q /\ handle[q] \in Files
        BY <3>2, <3>3 DEF Holds, WiredAt, Connected, InTx
      <4>2. disk'[handle[q]] = disk[handle[q]] /\ journal'[handle[q]] = journal[handle[q]]
        BY <2>2, <3>2, <4>1 DEF Frame
      <4> QED BY <3>1, <3>2, <4>2 DEF Shape, Creates
    <3>4. CASE pc[q] \notin InTx
      BY <3>1, <3>4 DEF Shape, InTx
    <3> QED BY <3>3, <3>4
  <2> QED BY <2>1, <2>2
<1>2. CASE UNCHANGED vars
  BY <1>2 DEF vars, fileVars, procVars, Shapes, Shape, Creates
<1> QED BY <1>1, <1>2 DEF Next, Terminated

-----------------------------------------------------------------------------
(* Only the last step of a command prints.                                  *)
LEMMA StepReports ==
    ASSUME Inv, NEW p \in Procs, Step(p) \/ Fault(p)
    PROVE  \/ Reported' = Reported
           \/ pc[p] = "report" /\ Reported' = Reported \cup {answer[p]} /\ UNCHANGED fileVars
<1> USE DEF Goto
<1>0. TypeOK /\ Alone(p)
  BY StepAlone DEF Inv
<1> DEFINE Prints == pc[p] = "report" /\ pc'[p] = "done" /\ answer' = answer /\ UNCHANGED fileVars
           Silent == pc[p] # "done" /\ pc'[p] # "done"
<1>1. ASSUME PrepareStat(p) PROVE Silent
  BY <1>0, <1>1 DEF PrepareStat, TypeOK
<1>2. ASSUME PrepareCreate(p) PROVE Silent
  BY <1>0, <1>2 DEF PrepareCreate, TypeOK
<1>3. ASSUME Connect(p) PROVE Silent
  BY <1>0, <1>3 DEF Connect, TypeOK
<1>4. ASSUME ReadVersion(p) PROVE Silent
  BY <1>0, <1>4 DEF ReadVersion, TypeOK
<1>5. ASSUME CountObjects(p) PROVE Silent
  BY <1>0, <1>5 DEF CountObjects, TypeOK
<1>6. ASSUME MigrateBegin(p) PROVE Silent
  BY <1>0, <1>6 DEF MigrateBegin, BeginTx, TypeOK
<1>7. ASSUME MigrateExec(p) PROVE Silent
  BY <1>0, <1>7 DEF MigrateExec, Migrated, TypeOK
<1>8. ASSUME MigrateCommit(p) PROVE Silent
  BY <1>0, <1>8 DEF MigrateCommit, CommitWrite, TypeOK
<1>9. ASSUME MigrateFinish(p) PROVE Silent
  BY <1>0, <1>9 DEF MigrateFinish, CommitFinish, TypeOK
<1>10. ASSUME ValidateSchema(p) PROVE Silent
  BY <1>0, <1>10 DEF ValidateSchema, TypeOK
<1>11. ASSUME AbortOpen(p) PROVE Silent
  BY <1>0, <1>11 DEF AbortOpen, TypeOK
<1>12. ASSUME Cleanup(p) PROVE Silent
  BY <1>0, <1>12 DEF Cleanup, TypeOK
<1>13. ASSUME BuildDraft(p) PROVE Silent
  BY <1>0, <1>13 DEF BuildDraft, TypeOK
<1>14. ASSUME TaskBegin(p) PROVE Silent
  BY <1>0, <1>14 DEF TaskBegin, BeginTx, TypeOK
<1>15. ASSUME TaskExec(p) PROVE Silent
  BY <1>0, <1>15 DEF TaskExec, TypeOK
<1>16. ASSUME TaskCommit(p) PROVE Silent
  BY <1>0, <1>16 DEF TaskCommit, CommitWrite, TypeOK
<1>17. ASSUME TaskFinish(p) PROVE Silent
  BY <1>0, <1>17 DEF TaskFinish, CommitFinish, TypeOK
<1>18. ASSUME ShowStat(p) PROVE Silent
  BY <1>0, <1>18 DEF ShowStat, TypeOK
<1>19. ASSUME ShowConnect(p) PROVE Silent
  BY <1>0, <1>19 DEF ShowConnect, TypeOK
<1>20. ASSUME ShowValidate(p) PROVE Silent
  BY <1>0, <1>20 DEF ShowValidate, TypeOK
<1>21. ASSUME ShowQuery(p) PROVE Silent
  BY <1>0, <1>21 DEF ShowQuery, TypeOK
<1>22. ASSUME CloseStore(p) PROVE Silent
  BY <1>0, <1>22 DEF CloseStore, TypeOK
<1>23. ASSUME Report(p) PROVE Prints
  BY <1>0, <1>23 DEF Report, TypeOK
<1>24. ASSUME CancelledFails(p) PROVE Silent
  BY <1>0, <1>24 DEF CancelledFails, StepFails, TypeOK, OpenSteps, TaskSteps, ShowSteps
<1>25. ASSUME Error(p) PROVE Silent
  BY <1>0, <1>25 DEF Error, StepFails, TypeOK, OpenSteps, TaskSteps, ShowSteps
<1>26. ASSUME Cancel(p) PROVE Silent
  BY <1>0, <1>26 DEF Cancel, TypeOK, Final
<1>27. ASSUME Crash(p) PROVE Silent
  BY <1>0, <1>27 DEF Crash, TypeOK, Final
<1>28. ASSUME ReportFails(p) PROVE Silent
  BY <1>0, <1>28 DEF ReportFails, TypeOK
<1>29. ASSUME Refuse(p) PROVE Silent
  BY <1>0, <1>29 DEF Refuse, TypeOK
<1>30. ASSUME PrepareClose(p) PROVE Silent
  BY <1>0, <1>30 DEF PrepareClose, TypeOK
<1>31. ASSUME FileCallFails(p) PROVE Silent
  BY <1>0, <1>31 DEF FileCallFails, TypeOK
<1>32. ASSUME Busy(p) PROVE Silent
  BY <1>0, <1>32 DEF Busy, StepFails, TypeOK, OpenSteps, TaskSteps, ShowSteps
<1>33. Prints \/ Silent
  BY <1>1, <1>2, <1>3, <1>4, <1>5, <1>6, <1>7, <1>8, <1>9, <1>10, <1>11, <1>12, <1>13,
     <1>14, <1>15, <1>16, <1>17, <1>18, <1>19, <1>20, <1>21, <1>22, <1>23, <1>24,
     <1>25, <1>26, <1>27, <1>28, <1>29, <1>30, <1>31, <1>32
     DEF Step, Fault, Open, CreateTask, Show
<1>34. CASE Silent
  <2>1. \A q \in Procs : (pc'[q] = "done") = (pc[q] = "done")
    BY <1>0, <1>34 DEF Alone
  <2>2. \A q \in Procs : pc[q] = "done" => answer'[q] = answer[q]
    BY <1>0, <1>34 DEF Alone
  <2> QED BY <2>1, <2>2 DEF Reported
<1>35. CASE Prints
  <2>1. \A q \in Procs : (pc'[q] = "done") = (pc[q] = "done" \/ q = p)
    BY <1>0, <1>35 DEF Alone
  <2> QED BY <1>35, <2>1 DEF Reported
<1> QED BY <1>33, <1>34, <1>35

(* A state file that exists is a well-formed task store.                    *)
LEMMA InitRefines == FileExists /\ Init => TS!Init
<1> SUFFICES ASSUME FileExists, Init PROVE TS!Init
  OBVIOUS
<1>1. Inv /\ PathFixed
  BY InitInv, InitPathFixed
<1>2. path \in Files /\ path # NoFile /\ Stored = Committed(path).tables
  BY <1>1, ConstantsAssumption DEF PathFixed, Stored
<1>3. Consistent(Stored) /\ Stored \in Tables
  BY <1>1, <1>2, CommittedTyped DEF Inv, Sound, Content
<1>4. /\ Stored.tasks \subseteq TaskRow
      /\ Bindings(Stored) \subseteq Binding
  BY <1>3 DEF Tables, Bindings, BindingOf, Binding, ResourceRow
<1>5. \A j, k \in Stored.tasks : j.id = k.id => j = k
  BY <1>3 DEF Consistent, KeysUnique
<1>6. \A k \in Stored.tasks : \E b \in Bindings(Stored) : TS!BelongsTo(k, b)
  <2> SUFFICES ASSUME NEW k \in Stored.tasks
               PROVE  \E b \in Bindings(Stored) : TS!BelongsTo(k, b)
    OBVIOUS
  <2>1. PICK r \in Stored.resources :
          r.id = k.resource /\ r.name = k.name /\ r.connector = k.connector
    BY <1>3 DEF Consistent, TasksResolve
  <2>2. BindingOf(r) \in Bindings(Stored) /\ TS!BelongsTo(k, BindingOf(r))
    BY <2>1 DEF Bindings, BindingOf, TS!BelongsTo
  <2> QED BY <2>2
<1>7. \A a, b \in Bindings(Stored) : a = b \/ TS!Compatible(a, b)
  <2> SUFFICES ASSUME NEW x \in Stored.resources, NEW y \in Stored.resources
               PROVE  BindingOf(x) = BindingOf(y) \/ TS!Compatible(BindingOf(x), BindingOf(y))
    BY DEF Bindings
  <2> QED BY <1>3 DEF Consistent, KeysUnique, BindingOf, TS!Compatible
<1>8. Reported = {}
  BY DEF Init, Reported
<1> QED BY <1>4, <1>5, <1>6, <1>7, <1>8 DEF TS!Init, TS!WellFormed, Bindings

(* CommitFinish of a task is Create, printing is Report, and every other    *)
(* step leaves the task store as it is.                                     *)
LEMMA NextRefines ==
    Inv /\ PathFixed /\ Answers /\ Shapes /\ [Next]_vars => [TS!Next]_(TS!vars)
<1> SUFFICES ASSUME Inv, PathFixed, Answers, Shapes, [Next]_vars
             PROVE  [TS!Next]_(TS!vars)
  OBVIOUS
<1>0. PICK g \in Files : g = path
  BY DEF PathFixed
<1>1. /\ path' = path /\ g # NoFile
      /\ Stored = Committed(g).tables /\ Stored' = Committed(g)'.tables
  <2>1. path' = path /\ g # NoFile
    BY <1>0, NextDurable, ConstantsAssumption
  <2> QED BY <1>0, <2>1 DEF Stored, Committed
<1>2. ASSUME NEW p \in Procs, Step(p) \/ Fault(p) PROVE [TS!Next]_(TS!vars)
  <2>1. CASE pc[p] = "report" /\ Reported' = Reported \cup {answer[p]} /\ UNCHANGED fileVars
    <3>1. answer[p] \in Stored.tasks
      BY <1>0, <1>1, <2>1 DEF Answers, AnswerAt
    <3>2. Stored' = Stored
      BY <1>1, <2>1 DEF fileVars, Committed
    <3>3. answer[p] \in TaskRow
      BY <2>1 DEF Inv, Wired, WiredAt, Answered
    <3>4. TS!Report(answer[p])
      BY <2>1, <3>1, <3>2 DEF TS!Report
    <3> QED BY <3>3, <3>4 DEF TS!Next
  <2>2. CASE Reported' = Reported /\ Committed(g)' = Committed(g)
    BY <1>1, <2>2 DEF TS!vars
  <2>3. CASE Reported' = Reported /\ CommitsAt(p, g)
    <3>1. /\ pc[p] \in Finishing /\ handle[p] = g /\ Committed(g)' = work[p]
          /\ Shape(p) /\ Committed(g) = journal[g]
      BY <2>3 DEF CommitsAt, Shapes, Inv, Transaction, Committed
    <3>2. CASE pc[p] = "migrateFinish"
      BY <1>1, <2>3, <3>1, <3>2 DEF Shape, TS!vars
    <3>3. CASE pc[p] = "taskFinish"
      <4> DEFINE t == Committed(g).tables
      <4>1. PICK r \in ResourceFor(t, draft[p]) : work[p].tables = WithTask(t, draft[p], r)
        BY <3>1, <3>3 DEF Shape, Creates
      <4>2. draft[p] \in Draft /\ Accepts(t, draft[p])
        BY <3>1, <3>3 DEF Shape, Creates
      <4>3. t \in Tables /\ Consistent(t)
        BY CommittedTyped DEF Inv, Sound, Content
      <4> DEFINE k == StoredTask(draft[p], r)
                 b == BindingOf(r)
      <4>4. /\ k \in TaskRow /\ b \in Binding
            /\ \A j \in t.tasks : j.id # k.id
            /\ WithTask(t, draft[p], r).tasks = t.tasks \cup {k}
            /\ TS!BelongsTo(k, b)
            /\ b \in Bindings(t) \/ \A a \in Bindings(t) : TS!Compatible(a, b)
            /\ Bindings(WithTask(t, draft[p], r)) = Bindings(t) \cup {b}
        BY <4>1, <4>2, <4>3, CreateIsCreate
      <4>5. Stored = t /\ Stored' = WithTask(t, draft[p], r)
        BY <1>1, <3>1, <4>1
      <4>6. TS!Create(k)
        BY <2>3, <4>4, <4>5 DEF TS!Create, Bindings
      <4> QED BY <4>4, <4>6 DEF TS!Next
    <3> QED BY <3>1, <3>2, <3>3 DEF Finishing
  <2> QED BY <1>2, <2>1, <2>2, <2>3, StepReports, StepCommits
<1>3. CASE UNCHANGED vars
  BY <1>3 DEF vars, fileVars, procVars, Reported, Stored, Committed, TS!vars
<1> QED BY <1>2, <1>3 DEF Next, Terminated

(* The commands implement TaskStore on every existing state file: whatever  *)
(* fails or crashes, each submission is one atomic Create or nothing, and   *)
(* each exit with 0 reports a stored task.                                  *)
THEOREM Refinement ==
    ASSUME FileExists
    PROVE  Spec => TaskStoreSpec
<1>1. Init => TS!Init
  BY InitRefines
<1>2. Spec => []Shapes
  BY SpecInv, InitShapes, NextShapes, PTL DEF Spec
<1> QED BY <1>1, <1>2, SpecDurable, NextRefines, PTL DEF Spec, TaskStoreSpec, TS!Spec

-----------------------------------------------------------------------------
(* The life of the state file.  A process that has created the file and not *)
(* yet opened the store, or is about to remove it, still finds its own file *)
(* at the path; nobody creates one inode twice.                             *)
CreatorAt(p) ==
    /\ pc[p] \in {"start", "create"} => made[p] = NoFile
    /\ pc[p] \in {"closeFile", "cleanup"} => made[p] # NoFile
    /\ made[p] # NoFile /\ pc[p] \in OpenSteps \cup {"closeFile", "abort", "cleanup"} =>
         path = made[p]
    /\ made[p] # NoFile => perm[made[p]] # "unallocated"

Creators ==
    /\ \A p \in Procs : CreatorAt(p)
    /\ \A p, q \in Procs : made[p] = made[q] /\ made[p] # NoFile => p = q

(* What a step of p does to the path and to the file p has made.            *)
PathStep(p) ==
    \/ path' = path /\ made'[p] = made[p]
    \/ /\ path = NoFile /\ path' \in Fresh
       /\ \/ pc[p] = "create" /\ made'[p] = path'
          \/ pc[p] = "connect" /\ made'[p] = made[p]
    \/ pc[p] = "cleanup" /\ path' = NoFile /\ made'[p] = made[p]

(* One case per action: the path changes only when the file is created or   *)
(* cleaned up, and the file's creator keeps finding it there.               *)
LEMMA StepPath ==
    ASSUME Inv, Creators, NEW p \in Procs, Step(p) \/ Fault(p)
    PROVE  /\ PathStep(p) /\ CreatorAt(p)'
           /\ \A f \in Files : perm[f] # "unallocated" => perm'[f] = perm[f]
<1> USE DEF Goto, fileVars
<1>0. TypeOK /\ CreatorAt(p) /\ NoFile \notin Files
  BY ConstantsAssumption DEF Inv, Creators
<1> DEFINE Own == /\ PathStep(p) /\ CreatorAt(p)'
                  /\ \A f \in Files : perm[f] # "unallocated" => perm'[f] = perm[f]
<1>1. ASSUME PrepareStat(p) PROVE Own
  BY <1>0, <1>1 DEF PrepareStat, TypeOK, PathStep, CreatorAt, OpenSteps
<1>2. ASSUME PrepareCreate(p) PROVE Own
  BY <1>0, <1>2 DEF PrepareCreate, TypeOK, PathStep, CreatorAt, OpenSteps, Fresh
<1>3. ASSUME Connect(p) PROVE Own
  BY <1>0, <1>3 DEF Connect, TypeOK, PathStep, CreatorAt, OpenSteps, Fresh
<1>4. ASSUME ReadVersion(p) PROVE Own
  BY <1>0, <1>4 DEF ReadVersion, TypeOK, PathStep, CreatorAt, OpenSteps
<1>5. ASSUME CountObjects(p) PROVE Own
  BY <1>0, <1>5 DEF CountObjects, TypeOK, PathStep, CreatorAt, OpenSteps
<1>6. ASSUME MigrateBegin(p) PROVE Own
  BY <1>0, <1>6 DEF MigrateBegin, BeginTx, TypeOK, PathStep, CreatorAt, OpenSteps
<1>7. ASSUME MigrateExec(p) PROVE Own
  BY <1>0, <1>7 DEF MigrateExec, Migrated, TypeOK, PathStep, CreatorAt, OpenSteps
<1>8. ASSUME MigrateCommit(p) PROVE Own
  BY <1>0, <1>8 DEF MigrateCommit, CommitWrite, TypeOK, PathStep, CreatorAt, OpenSteps
<1>9. ASSUME MigrateFinish(p) PROVE Own
  BY <1>0, <1>9 DEF MigrateFinish, CommitFinish, TypeOK, PathStep, CreatorAt, OpenSteps
<1>10. ASSUME ValidateSchema(p) PROVE Own
  BY <1>0, <1>10 DEF ValidateSchema, TypeOK, PathStep, CreatorAt, OpenSteps
<1>11. ASSUME AbortOpen(p) PROVE Own
  BY <1>0, <1>11 DEF AbortOpen, TypeOK, PathStep, CreatorAt, OpenSteps
<1>12. ASSUME Cleanup(p) PROVE Own
  BY <1>0, <1>12 DEF Cleanup, TypeOK, PathStep, CreatorAt, OpenSteps
<1>13. ASSUME BuildDraft(p) PROVE Own
  BY <1>0, <1>13 DEF BuildDraft, TypeOK, PathStep, CreatorAt, OpenSteps
<1>14. ASSUME TaskBegin(p) PROVE Own
  BY <1>0, <1>14 DEF TaskBegin, BeginTx, TypeOK, PathStep, CreatorAt, OpenSteps
<1>15. ASSUME TaskExec(p) PROVE Own
  BY <1>0, <1>15 DEF TaskExec, TypeOK, PathStep, CreatorAt, OpenSteps
<1>16. ASSUME TaskCommit(p) PROVE Own
  BY <1>0, <1>16 DEF TaskCommit, CommitWrite, TypeOK, PathStep, CreatorAt, OpenSteps
<1>17. ASSUME TaskFinish(p) PROVE Own
  BY <1>0, <1>17 DEF TaskFinish, CommitFinish, TypeOK, PathStep, CreatorAt, OpenSteps
<1>18. ASSUME ShowStat(p) PROVE Own
  BY <1>0, <1>18 DEF ShowStat, TypeOK, PathStep, CreatorAt, OpenSteps
<1>19. ASSUME ShowConnect(p) PROVE Own
  BY <1>0, <1>19 DEF ShowConnect, TypeOK, PathStep, CreatorAt, OpenSteps
<1>20. ASSUME ShowValidate(p) PROVE Own
  BY <1>0, <1>20 DEF ShowValidate, TypeOK, PathStep, CreatorAt, OpenSteps
<1>21. ASSUME ShowQuery(p) PROVE Own
  BY <1>0, <1>21 DEF ShowQuery, TypeOK, PathStep, CreatorAt, OpenSteps
<1>22. ASSUME CloseStore(p) PROVE Own
  BY <1>0, <1>22 DEF CloseStore, TypeOK, PathStep, CreatorAt, OpenSteps
<1>23. ASSUME Report(p) PROVE Own
  BY <1>0, <1>23 DEF Report, TypeOK, PathStep, CreatorAt, OpenSteps
<1>24. ASSUME CancelledFails(p) PROVE Own
  BY <1>0, <1>24
     DEF CancelledFails, StepFails, TypeOK, PathStep, CreatorAt, OpenSteps, TaskSteps,
         ShowSteps
<1>25. ASSUME Error(p) PROVE Own
  BY <1>0, <1>25
     DEF Error, StepFails, TypeOK, PathStep, CreatorAt, OpenSteps, TaskSteps,
         ShowSteps
<1>26. ASSUME Cancel(p) PROVE Own
  BY <1>0, <1>26 DEF Cancel, TypeOK, PathStep, CreatorAt, OpenSteps, Final
<1>27. ASSUME Crash(p) PROVE Own
  BY <1>0, <1>27 DEF Crash, TypeOK, PathStep, CreatorAt, OpenSteps, Final
<1>28. ASSUME ReportFails(p) PROVE Own
  BY <1>0, <1>28 DEF ReportFails, TypeOK, PathStep, CreatorAt, OpenSteps
<1>29. ASSUME Refuse(p) PROVE Own
  BY <1>0, <1>29 DEF Refuse, TypeOK, PathStep, CreatorAt, OpenSteps
<1>30. ASSUME PrepareClose(p) PROVE Own
  BY <1>0, <1>30 DEF PrepareClose, TypeOK, PathStep, CreatorAt, OpenSteps
<1>31. ASSUME FileCallFails(p) PROVE Own
  BY <1>0, <1>31 DEF FileCallFails, TypeOK, PathStep, CreatorAt, OpenSteps
<1>32. ASSUME Busy(p) PROVE Own
  BY <1>0, <1>32
     DEF Busy, StepFails, TypeOK, PathStep, CreatorAt, OpenSteps, TaskSteps,
         ShowSteps
<1>33. Own
  BY <1>1, <1>2, <1>3, <1>4, <1>5, <1>6, <1>7, <1>8, <1>9, <1>10, <1>11, <1>12, <1>13,
     <1>14, <1>15, <1>16, <1>17, <1>18, <1>19, <1>20, <1>21, <1>22, <1>23, <1>24,
     <1>25, <1>26, <1>27, <1>28, <1>29, <1>30, <1>31, <1>32
     DEF Step, Fault, Open, CreateTask, Show
<1> QED BY <1>33

(* Creators is inductive.                                                   *)
LEMMA NextCreators == Inv /\ Creators /\ [Next]_vars => Creators'
<1> SUFFICES ASSUME Inv, Creators, [Next]_vars PROVE Creators'
  OBVIOUS
<1>1. ASSUME NEW p \in Procs, Step(p) \/ Fault(p) PROVE Creators'
  <2>0. /\ TypeOK /\ Alone(p) /\ PathStep(p) /\ CreatorAt(p) /\ CreatorAt(p)'
        /\ \A f \in Files : perm[f] # "unallocated" => perm'[f] = perm[f]
        /\ NoFile \notin Files
    BY <1>1, StepPath, StepAlone, ConstantsAssumption DEF Inv, Creators
  <2>1. ASSUME NEW q \in Procs, q # p PROVE CreatorAt(q)'
    <3>1. pc'[q] = pc[q] /\ made'[q] = made[q] /\ CreatorAt(q)
      BY <2>0, <2>1 DEF Alone, Creators
    <3>2. made[q] # NoFile => perm'[made[q]] = perm[made[q]]
      BY <2>0, <3>1 DEF TypeOK, CreatorAt
    <3>3. CASE path' = path
      BY <3>1, <3>2, <3>3 DEF CreatorAt
    <3>4. CASE path = NoFile /\ path' \in Fresh
      BY <3>1, <3>2, <3>4 DEF CreatorAt
    <3>5. CASE pc[p] = "cleanup"
      <4>1. made[p] # NoFile /\ path = made[p]
        BY <2>0, <3>5 DEF CreatorAt
      <4>2. made[q] # NoFile => made[q] # made[p]
        BY <2>1, <4>1 DEF Creators
      <4> QED BY <3>1, <3>2, <4>1, <4>2 DEF CreatorAt
    <3> QED BY <2>0, <3>3, <3>4, <3>5 DEF PathStep
  <2>2. ASSUME NEW q \in Procs, NEW r \in Procs,
               made'[q] = made'[r], made'[q] # NoFile
        PROVE  q = r
    <3>1. \A s \in Procs : s # p => made'[s] = made[s]
      BY <2>0 DEF Alone
    <3>2. CASE made'[p] = made[p]
      BY <2>2, <3>1, <3>2 DEF Creators
    <3>3. CASE made'[p] \in Fresh
      <4>1. \A s \in Procs : s # p => made'[s] # made'[p]
        BY <2>0, <3>1, <3>3 DEF Fresh, Creators, CreatorAt
      <4> QED BY <2>2, <3>1, <4>1 DEF Creators
    <3> QED BY <2>0, <3>2, <3>3 DEF PathStep
  <2> QED BY <2>0, <2>1, <2>2 DEF Creators
<1>2. CASE UNCHANGED vars
  BY <1>2 DEF vars, fileVars, procVars, Creators, CreatorAt
<1> QED BY <1>1, <1>2 DEF Next, Terminated

(* The creators' invariant holds throughout.                                *)
LEMMA SpecCreators == Spec => [](Inv /\ Creators)
<1>1. Init => Creators
  BY DEF Init, Creators, CreatorAt, OpenSteps
<1> QED BY <1>1, InitInv, NextInv, NextCreators, PTL DEF Spec

(* A failed Open removes the path's file by name, in its cleanup or because *)
(* it could not close the file it had created, yet never one that another   *)
(* process has created or put there: from every initial file, whatever      *)
(* fails, is cancelled or crashes, only the file's own creator removes it.  *)
THEOREM CreatorRemoves == Spec => OnlyCreatorRemoves
<1>1. Inv /\ Creators /\ [Next]_vars =>
        [path # NoFile /\ path' = NoFile =>
           \E p \in Submitters : pc[p] = "cleanup" /\ made[p] = path]_vars
  <2> SUFFICES ASSUME Inv, Creators, [Next]_vars, path # NoFile, path' = NoFile
               PROVE  \E p \in Submitters : pc[p] = "cleanup" /\ made[p] = path
    OBVIOUS
  <2>1. PICK p \in Procs : Step(p) \/ Fault(p)
    BY DEF Next, Terminated, vars, fileVars
  <2>2. PathStep(p) /\ CreatorAt(p) /\ WiredAt(p)
    BY <2>1, StepPath DEF Inv, Wired, Creators
  <2>3. pc[p] = "cleanup" /\ made[p] = path
    BY <2>2 DEF PathStep, CreatorAt
  <2>4. p \in Submitters
    BY <2>2, <2>3 DEF WiredAt, Submitting
  <2> QED BY <2>3, <2>4
<1> QED BY SpecCreators, <1>1, PTL DEF Spec, OnlyCreatorRemoves

(* A task in the state file stays in what the configured path names, unless *)
(* the submission that has created that file removes it by name after its   *)
(* own Open, at file.Close or later, has failed.                            *)
StoredUnlessRemoved ==
    [][\A k \in Stored.tasks :
         \/ k \in Stored'.tasks
         \/ \E p \in Submitters : pc[p] = "cleanup" /\ made[p] = path]_vars

(* From every initial file, with any number of submissions, and whatever    *)
(* fails, is cancelled or crashes, that is the only way for a committed     *)
(* task to get lost: neither a migration, a rollback of another's journal   *)
(* nor a file created meanwhile by another process ever hides one.          *)
THEOREM LostOnlyByCleanup == Spec => StoredUnlessRemoved
<1>1. Inv /\ Creators /\ [Next]_vars =>
        [\A k \in Stored.tasks :
           \/ k \in Stored'.tasks
           \/ \E p \in Submitters : pc[p] = "cleanup" /\ made[p] = path]_vars
  <2> SUFFICES ASSUME Inv, Creators, [Next]_vars, vars' # vars,
                      NEW k \in Stored.tasks, k \notin Stored'.tasks
               PROVE  \E p \in Submitters : pc[p] = "cleanup" /\ made[p] = path
    OBVIOUS
  <2>1. PICK p \in Procs : Step(p) \/ Fault(p)
    BY DEF Next, Terminated
  <2>2. PathStep(p) /\ CreatorAt(p) /\ WiredAt(p)
    BY <2>1, StepPath DEF Inv, Wired, Creators
  <2>3. path # NoFile /\ path \in Files /\ k \in Committed(path).tables.tasks
    BY DEF Stored, EmptyTables, Inv, TypeOK
  <2>4. path' # path
    <3> SUFFICES ASSUME path' = path PROVE FALSE
      OBVIOUS
    <3>1. PICK f \in Files : f = path
      BY <2>3
    <3>2. k \in Committed(f)'.tables.tasks
      BY <2>3, <3>1, StepExtends DEF Replaces, KeepsTasks
    <3>3. Committed(path)' = Committed(f)'
      BY <3>1 DEF Committed
    <3> QED BY <2>3, <3>2, <3>3 DEF Stored
  <2>5. pc[p] = "cleanup" /\ made[p] = path
    BY <2>2, <2>3, <2>4 DEF PathStep, CreatorAt
  <2>6. p \in Submitters
    BY <2>2, <2>5 DEF WiredAt, Submitting
  <2> QED BY <2>5, <2>6
<1> QED BY SpecCreators, <1>1, PTL DEF Spec, StoredUnlessRemoved

(* Whoever holds the lock of a file has that file open and is inside a      *)
(* transaction, or about to close after an error.                           *)
HoldersNeverWait ==
    \A f \in Files, p \in Procs :
      lock[f] = p => handle[p] = f /\ pc[p] \in InTx \cup {"abort", "fail"}

(* No command that has returned, has crashed, or waits to read or to begin  *)
(* a transaction holds a lock: what it waits for is a transaction already   *)
(* under way or a connection about to close, and no lock outlives its       *)
(* command.                                                                 *)
THEOREM NobodyBlocks == Spec => []HoldersNeverWait
<1>1. Inv => HoldersNeverWait
  BY DEF Inv, HeldBy, HoldersNeverWait
<1> QED BY SpecInv, <1>1, PTL

-----------------------------------------------------------------------------
(* What p knows of the file f it has open: a file that may come to be       *)
(* written is one that Open supports, and so are the pages to be written.   *)
OpenedAs(p, f) ==
    /\ pc[p] = "count" => /\ DeleteJournal(Committed(f))
                          /\ Committed(f).version = 0 \/ Supported(Committed(f))
    /\ pc[p] = "validate" => DeleteJournal(Committed(f))
    /\ pc[p] \in {"migrateBegin"} \cup InTx \cup TaskSteps => Supported(Committed(f))
    /\ pc[p] \in InTx \ {"migrateExec", "taskExec"} => Supported(work[p])
    /\ pc[p] \in {"migrateCommit", "migrateFinish"} => ValidSchema(work[p])

AdoptsAt(p) == \A f \in Files : handle[p] = f => OpenedAs(p, f)

Adopts ==
    /\ \A p \in Procs : AdoptsAt(p)
    /\ \A p \in Procs, f \in Files : made[p] = f => Supported(Committed(f))

(* A step of p leaves the committed content of f alone, or f was supported  *)
(* before and is supported after it.                                        *)
KeepsForeign(f) ==
    \/ Committed(f)' = Committed(f)
    \/ Supported(Committed(f)) /\ Supported(Committed(f)')

(* Only supported files are written.                                        *)
LEMMA StepKeepsForeign ==
    ASSUME Inv, Adopts, NEW p \in Procs, Step(p) \/ Fault(p), NEW f \in Files
    PROVE  KeepsForeign(f)
<1>1. CASE CommitsAt(p, f)
  <2>1. pc[p] \in Finishing /\ handle[p] = f /\ Committed(f)' = work[p]
    BY <1>1 DEF CommitsAt
  <2>2. Supported(Committed(f)) /\ Supported(work[p])
    BY <2>1 DEF Adopts, AdoptsAt, OpenedAs, InTx, Finishing
  <2> QED BY <2>1, <2>2 DEF KeepsForeign
<1> QED BY <1>1, StepCommits DEF KeepsForeign

(* One case per action: what p has found out about its file stays true      *)
(* until p uses it.                                                         *)
LEMMA StepAdopts ==
    ASSUME Inv, Adopts, NEW p \in Procs, Step(p) \/ Fault(p)
    PROVE  AdoptsAt(p)'
<1> USE DEF Goto, fileVars
<1> SUFFICES ASSUME NEW f \in Files, handle'[p] = f PROVE OpenedAs(p, f)'
  BY DEF AdoptsAt
<1>0. /\ TypeOK /\ WiredAt(p) /\ KeepsForeign(f)
      /\ handle[p] = f => OpenedAs(p, f) /\ Transaction(p)
      /\ work[p] \in Content
  BY StepKeepsForeign DEF Inv, Wired, Adopts, AdoptsAt, TypeOK
<1>a. handle[p] = f /\ pc[p] \in InTx \ Finishing => Committed(f) = disk[f]
  BY DiskCommitted
<1>b. pc[p] \notin Finishing => Committed(f)' = Committed(f)
  BY StepCommits DEF CommitsAt
<1>1. ASSUME PrepareStat(p) PROVE OpenedAs(p, f)'
  BY <1>0, <1>1 DEF PrepareStat, TypeOK, OpenedAs, InTx, TaskSteps
<1>2. ASSUME PrepareCreate(p) PROVE OpenedAs(p, f)'
  BY <1>0, <1>2 DEF PrepareCreate, TypeOK, OpenedAs, InTx, TaskSteps
<1>3. ASSUME Connect(p) PROVE OpenedAs(p, f)'
  BY <1>0, <1>3 DEF Connect, TypeOK, OpenedAs, InTx, TaskSteps
<1>4. ASSUME ReadVersion(p) PROVE OpenedAs(p, f)'
  BY <1>0, <1>4, <1>b
     DEF ReadVersion, TypeOK, OpenedAs, InTx, TaskSteps, WiredAt, Connected, Finishing
<1>5. ASSUME CountObjects(p) PROVE OpenedAs(p, f)'
  BY <1>0, <1>5, <1>b
     DEF CountObjects, TypeOK, OpenedAs, InTx, TaskSteps, Supported, DeleteJournal,
         WiredAt, Connected, Finishing
<1>6. ASSUME MigrateBegin(p) PROVE OpenedAs(p, f)'
  BY <1>0, <1>6, <1>b
     DEF MigrateBegin, BeginTx, TypeOK, OpenedAs, InTx, TaskSteps, Finishing, WiredAt,
         Connected
<1>7. ASSUME MigrateExec(p) PROVE OpenedAs(p, f)'
  <2>1. CASE pc'[p] = "migrateCommit"
    <3>1. /\ handle[p] = f /\ Supported(Committed(f)) /\ work[p] = disk[f]
          /\ pc[p] = "migrateExec"
      BY <1>0, <1>7 DEF MigrateExec, Migrated, OpenedAs, InTx, Transaction
    <3>2. Committed(f)' = Committed(f) /\ Committed(f) = work[p]
      BY <1>a, <1>b, <3>1 DEF InTx, Finishing
    <3>3. /\ work[p].objects \cap TableNames = {}
          /\ work'[p] = [version |-> 1, objects |-> work[p].objects \cup TableNames,
                         mode |-> work[p].mode, tables |-> EmptyTables]
      BY <1>0, <1>7, <2>1 DEF MigrateExec, Migrated, TypeOK
    <3>4. Supported(work'[p]) /\ ValidSchema(work'[p])
      BY <3>1, <3>2, <3>3 DEF Supported, ValidSchema, TableNames
    <3> QED BY <2>1, <3>1, <3>2, <3>4 DEF OpenedAs, InTx, TaskSteps
  <2>2. CASE pc'[p] # "migrateCommit"
    BY <1>0, <1>7, <2>2 DEF MigrateExec, Migrated, TypeOK, OpenedAs, InTx, TaskSteps
  <2> QED BY <2>1, <2>2
<1>8. ASSUME MigrateCommit(p) PROVE OpenedAs(p, f)'
  BY <1>0, <1>8, <1>b
     DEF MigrateCommit, CommitWrite, TypeOK, OpenedAs, InTx, TaskSteps, Finishing,
         WiredAt, Connected
<1>9. ASSUME MigrateFinish(p) PROVE OpenedAs(p, f)'
  BY <1>0, <1>9
     DEF MigrateFinish, CommitFinish, TypeOK, OpenedAs, InTx, TaskSteps, KeepsForeign,
         Supported, DeleteJournal, Finishing
<1>10. ASSUME ValidateSchema(p) PROVE OpenedAs(p, f)'
  BY <1>0, <1>10, <1>b
     DEF ValidateSchema, TypeOK, OpenedAs, InTx, TaskSteps, Supported, DeleteJournal,
         ValidSchema, WiredAt, Connected, Finishing
<1>11. ASSUME AbortOpen(p) PROVE OpenedAs(p, f)'
  BY <1>0, <1>11 DEF AbortOpen, TypeOK, OpenedAs, InTx, TaskSteps
<1>12. ASSUME Cleanup(p) PROVE OpenedAs(p, f)'
  BY <1>0, <1>12 DEF Cleanup, TypeOK, OpenedAs, InTx, TaskSteps
<1>13. ASSUME BuildDraft(p) PROVE OpenedAs(p, f)'
  BY <1>0, <1>13, <1>b
     DEF BuildDraft, TypeOK, OpenedAs, InTx, TaskSteps, Finishing, WiredAt, Connected
<1>14. ASSUME TaskBegin(p) PROVE OpenedAs(p, f)'
  BY <1>0, <1>14, <1>b
     DEF TaskBegin, BeginTx, TypeOK, OpenedAs, InTx, TaskSteps, Finishing, WiredAt,
         Connected
<1>15. ASSUME TaskExec(p) PROVE OpenedAs(p, f)'
  <2>1. CASE pc'[p] = "taskCommit"
    <3>1. /\ handle[p] = f /\ Supported(Committed(f)) /\ work[p] = disk[f]
          /\ pc[p] = "taskExec"
      BY <1>0, <1>15 DEF TaskExec, OpenedAs, InTx, Transaction
    <3>2. Committed(f)' = Committed(f) /\ Committed(f) = work[p]
      BY <1>a, <1>b, <3>1 DEF InTx, Finishing
    <3>3. PICK r : work'[p] = [work[p] EXCEPT !.tables = WithTask(work[p].tables, draft[p], r)]
      BY <1>0, <1>15, <2>1 DEF TaskExec, TypeOK
    <3>4. Supported(work'[p])
      BY <1>0, <3>1, <3>2, <3>3 DEF Supported, Content
    <3> QED BY <2>1, <3>1, <3>2, <3>4 DEF OpenedAs, InTx, TaskSteps
  <2>2. CASE pc'[p] # "taskCommit"
    BY <1>0, <1>15, <2>2 DEF TaskExec, TypeOK, OpenedAs, InTx, TaskSteps
  <2> QED BY <2>1, <2>2
<1>16. ASSUME TaskCommit(p) PROVE OpenedAs(p, f)'
  BY <1>0, <1>16, <1>b
     DEF TaskCommit, CommitWrite, TypeOK, OpenedAs, InTx, TaskSteps, Finishing,
         WiredAt, Connected
<1>17. ASSUME TaskFinish(p) PROVE OpenedAs(p, f)'
  BY <1>0, <1>17 DEF TaskFinish, CommitFinish, TypeOK, OpenedAs, InTx, TaskSteps
<1>18. ASSUME ShowStat(p) PROVE OpenedAs(p, f)'
  BY <1>0, <1>18 DEF ShowStat, TypeOK, OpenedAs, InTx, TaskSteps
<1>19. ASSUME ShowConnect(p) PROVE OpenedAs(p, f)'
  BY <1>0, <1>19 DEF ShowConnect, TypeOK, OpenedAs, InTx, TaskSteps
<1>20. ASSUME ShowValidate(p) PROVE OpenedAs(p, f)'
  BY <1>0, <1>20 DEF ShowValidate, TypeOK, OpenedAs, InTx, TaskSteps
<1>21. ASSUME ShowQuery(p) PROVE OpenedAs(p, f)'
  BY <1>0, <1>21 DEF ShowQuery, TypeOK, OpenedAs, InTx, TaskSteps
<1>22. ASSUME CloseStore(p) PROVE OpenedAs(p, f)'
  BY <1>0, <1>22 DEF CloseStore, TypeOK, OpenedAs, InTx, TaskSteps
<1>23. ASSUME Report(p) PROVE OpenedAs(p, f)'
  BY <1>0, <1>23 DEF Report, TypeOK, OpenedAs, InTx, TaskSteps
<1>24. ASSUME CancelledFails(p) PROVE OpenedAs(p, f)'
  BY <1>0, <1>24
     DEF CancelledFails, StepFails, TypeOK, OpenedAs, InTx, TaskSteps, OpenSteps,
         ShowSteps
<1>25. ASSUME Error(p) PROVE OpenedAs(p, f)'
  BY <1>0, <1>25
     DEF Error, StepFails, TypeOK, OpenedAs, InTx, TaskSteps, OpenSteps, ShowSteps
<1>26. ASSUME Cancel(p) PROVE OpenedAs(p, f)'
  BY <1>0, <1>26, <1>b
     DEF Cancel, TypeOK, OpenedAs, InTx, TaskSteps, Final, KeepsForeign, Finishing,
         Committed
<1>27. ASSUME Crash(p) PROVE OpenedAs(p, f)'
  BY <1>0, <1>27 DEF Crash, TypeOK, OpenedAs, InTx, TaskSteps
<1>28. ASSUME ReportFails(p) PROVE OpenedAs(p, f)'
  BY <1>0, <1>28 DEF ReportFails, TypeOK, OpenedAs, InTx, TaskSteps
<1>29. ASSUME Refuse(p) PROVE OpenedAs(p, f)'
  BY <1>0, <1>29 DEF Refuse, TypeOK, OpenedAs, InTx, TaskSteps
<1>30. ASSUME PrepareClose(p) PROVE OpenedAs(p, f)'
  BY <1>0, <1>30 DEF PrepareClose, TypeOK, OpenedAs, InTx, TaskSteps
<1>31. ASSUME FileCallFails(p) PROVE OpenedAs(p, f)'
  BY <1>0, <1>31 DEF FileCallFails, TypeOK, OpenedAs, InTx, TaskSteps
<1>32. ASSUME Busy(p) PROVE OpenedAs(p, f)'
  BY <1>0, <1>32
     DEF Busy, StepFails, TypeOK, OpenedAs, InTx, TaskSteps, OpenSteps, ShowSteps
<1>33. OpenedAs(p, f)'
  BY <1>1, <1>2, <1>3, <1>4, <1>5, <1>6, <1>7, <1>8, <1>9, <1>10, <1>11, <1>12, <1>13,
     <1>14, <1>15, <1>16, <1>17, <1>18, <1>19, <1>20, <1>21, <1>22, <1>23, <1>24,
     <1>25, <1>26, <1>27, <1>28, <1>29, <1>30, <1>31, <1>32
     DEF Step, Fault, Open, CreateTask, Show
<1> QED BY <1>33

(* Adopts is inductive.                                                     *)
LEMMA NextAdopts == Inv /\ Creators /\ Adopts /\ [Next]_vars => Adopts'
<1> SUFFICES ASSUME Inv, Creators, Adopts, [Next]_vars PROVE Adopts'
  OBVIOUS
<1>1. ASSUME NEW p \in Procs, Step(p) \/ Fault(p) PROVE Adopts'
  <2>0. TypeOK /\ Alone(p) /\ PathStep(p) /\ \A f \in Files : KeepsForeign(f)
    BY <1>1, StepPath, StepAlone, StepKeepsForeign DEF Inv
  <2>1. ASSUME NEW q \in Procs PROVE AdoptsAt(q)'
    <3>1. CASE q = p
      BY <1>1, <3>1, StepAdopts
    <3>2. CASE q # p
      <4> SUFFICES ASSUME NEW f \in Files, handle'[q] = f PROVE OpenedAs(q, f)'
        BY DEF AdoptsAt
      <4>1. /\ pc'[q] = pc[q] /\ handle'[q] = handle[q] /\ work'[q] = work[q]
            /\ KeepsForeign(f)
        BY <2>0, <3>2 DEF Alone
      <4>2. OpenedAs(q, f)
        BY <4>1 DEF Adopts, AdoptsAt
      <4> QED BY <4>1, <4>2 DEF OpenedAs, KeepsForeign, Supported, DeleteJournal
    <3> QED BY <3>1, <3>2
  <2>2. ASSUME NEW q \in Procs, NEW f \in Files, made'[q] = f PROVE Supported(Committed(f))'
    <3>1. CASE made'[q] = made[q]
      BY <2>0, <2>2, <3>1 DEF Adopts, KeepsForeign
    <3>2. CASE made'[q] # made[q]
      <4>1. f \in Fresh
        BY <2>0, <2>2, <3>2 DEF PathStep, Alone
      <4>2. Committed(f) = EmptyContent
        BY <4>1 DEF Fresh, Inv, Allocation, Committed
      <4> QED BY <2>0, <4>2 DEF KeepsForeign, Supported, EmptyContent
    <3> QED BY <3>1, <3>2
  <2> QED BY <2>1, <2>2 DEF Adopts
<1>2. CASE UNCHANGED vars
  BY <1>2 DEF vars, fileVars, procVars, Adopts, AdoptsAt, OpenedAs, Committed
<1> QED BY <1>1, <1>2 DEF Next, Terminated

(* What Open adopts is supported throughout.                                *)
LEMMA SpecAdopts == Spec => [](Inv /\ Creators /\ Adopts)
<1>1. Init => Adopts
  BY ConstantsAssumption DEF Init, Adopts, AdoptsAt
<1> QED BY <1>1, SpecCreators, NextAdopts, PTL DEF Spec

(* Open refuses foreign databases without touching them: a file at the      *)
(* configured path that is in another journal mode, of another version or   *)
(* with other objects keeps its name, its content and its permissions,      *)
(* although the checks and the migration are separate calls that other      *)
(* submissions interleave with.                                             *)
THEOREM ForeignKept == Spec => ForeignUntouched
<1>1. Inv /\ Creators /\ Adopts /\ [Next]_vars =>
        [\A f \in Files : path = f /\ ~Supported(Committed(f)) =>
           path' = f /\ Committed(f)' = Committed(f) /\ perm'[f] = perm[f]]_vars
  <2> SUFFICES ASSUME Inv, Creators, Adopts, [Next]_vars,
                      NEW f \in Files, path = f, ~Supported(Committed(f))
               PROVE  path' = f /\ Committed(f)' = Committed(f) /\ perm'[f] = perm[f]
    OBVIOUS
  <2>1. ASSUME NEW p \in Procs, Step(p) \/ Fault(p)
        PROVE  path' = f /\ Committed(f)' = Committed(f) /\ perm'[f] = perm[f]
    <3>1. Committed(f)' = Committed(f)
      BY <2>1, StepKeepsForeign DEF KeepsForeign
    <3>2. perm'[f] = perm[f]
      BY <2>1, StepPath DEF Inv, Allocation
    <3>3. PathStep(p) /\ CreatorAt(p) /\ f # NoFile
      BY <2>1, StepPath, ConstantsAssumption DEF Creators
    <3>4. made[p] # f
      BY DEF Adopts
    <3>5. path' = f
      BY <3>3, <3>4 DEF PathStep, CreatorAt
    <3> QED BY <3>1, <3>2, <3>5
  <2>2. CASE UNCHANGED vars
    BY <2>2 DEF vars, fileVars, Committed
  <2> QED BY <2>1, <2>2 DEF Next, Terminated
<1> QED BY SpecAdopts, <1>1, PTL DEF Spec, ForeignUntouched

-----------------------------------------------------------------------------
(* What a submission leaves behind.                                         *)
Succeeded == {"close", "report", "done", "unprinted"}

(* The tables t bind the resource of p's task to the repository p has read. *)
BoundIn(t, p) ==
    \E r \in t.resources :
        /\ r.id = answer[p].resource
        /\ r.connector = draft[p].connector
        /\ r.identity = draft[p].identity

(* What holds of p whatever the others do.                                  *)
Owned(p) ==
    /\ pc[p] \in ShowSteps => p \in Readers
    /\ draft[p] # NoDraft => p \in Submitters /\ draft[p] \in Offers[p]
    /\ pc[p] \in {"taskCommit", "taskFinish"} => BoundIn(work[p].tables, p)

(* How p comes to succeed, and that it does not fail any more then.         *)
Moves(p) ==
    /\ pc[p] \in Succeeded =>
         /\ pc'[p] \in Succeeded \cup {"crashed"}
         /\ answer'[p] = answer[p] /\ draft'[p] = draft[p]
    /\ pc[p] = "crashed" => pc'[p] = "crashed"
    /\ pc[p] \notin Succeeded /\ pc'[p] \in Succeeded =>
         \/ p \in Readers
         \/ /\ pc[p] = "taskFinish"
            /\ \A f \in Files : handle[p] = f => Committed(f)' = work[p]
            /\ answer'[p] = answer[p] /\ draft'[p] = draft[p]
    /\ pc[p] = "taskFinish" /\ pc'[p] \notin Succeeded =>
         \A f \in Files : Committed(f)' = Committed(f)

(* One case per action: a submission succeeds by the commit point of its    *)
(* own task, and only there.                                                *)
LEMMA StepMoves ==
    ASSUME Inv, NEW p \in Procs, Owned(p), Step(p) \/ Fault(p)
    PROVE  Moves(p) /\ Owned(p)'
<1> USE DEF Goto, fileVars
<1>0. /\ TypeOK /\ WiredAt(p) /\ Owned(p) /\ Transaction(p)
      /\ Procs = Submitters \cup Readers
  BY DEF Inv, Wired, Procs
<1> DEFINE Own == Moves(p) /\ Owned(p)'
<1>1. ASSUME PrepareStat(p) PROVE Own
  BY <1>0, <1>1 DEF PrepareStat, TypeOK, Moves, Owned, ShowSteps, Succeeded
<1>2. ASSUME PrepareCreate(p) PROVE Own
  BY <1>0, <1>2 DEF PrepareCreate, TypeOK, Moves, Owned, ShowSteps, Succeeded
<1>3. ASSUME Connect(p) PROVE Own
  BY <1>0, <1>3 DEF Connect, TypeOK, Moves, Owned, ShowSteps, Succeeded
<1>4. ASSUME ReadVersion(p) PROVE Own
  BY <1>0, <1>4 DEF ReadVersion, TypeOK, Moves, Owned, ShowSteps, Succeeded
<1>5. ASSUME CountObjects(p) PROVE Own
  BY <1>0, <1>5 DEF CountObjects, TypeOK, Moves, Owned, ShowSteps, Succeeded
<1>6. ASSUME MigrateBegin(p) PROVE Own
  BY <1>0, <1>6 DEF MigrateBegin, BeginTx, TypeOK, Moves, Owned, ShowSteps, Succeeded
<1>7. ASSUME MigrateExec(p) PROVE Own
  BY <1>0, <1>7 DEF MigrateExec, Migrated, TypeOK, Moves, Owned, ShowSteps, Succeeded
<1>8. ASSUME MigrateCommit(p) PROVE Own
  BY <1>0, <1>8
     DEF MigrateCommit, CommitWrite, TypeOK, Moves, Owned, ShowSteps, Succeeded,
         BoundIn
<1>9. ASSUME MigrateFinish(p) PROVE Own
  BY <1>0, <1>9
     DEF MigrateFinish, CommitFinish, TypeOK, Moves, Owned, ShowSteps, Succeeded
<1>10. ASSUME ValidateSchema(p) PROVE Own
  BY <1>0, <1>10 DEF ValidateSchema, TypeOK, Moves, Owned, ShowSteps, Succeeded
<1>11. ASSUME AbortOpen(p) PROVE Own
  BY <1>0, <1>11 DEF AbortOpen, TypeOK, Moves, Owned, ShowSteps, Succeeded
<1>12. ASSUME Cleanup(p) PROVE Own
  BY <1>0, <1>12 DEF Cleanup, TypeOK, Moves, Owned, ShowSteps, Succeeded
<1>13. ASSUME BuildDraft(p) PROVE Own
  BY <1>0, <1>13
     DEF BuildDraft, TypeOK, Moves, Owned, ShowSteps, Succeeded, WiredAt, Submitting,
         TaskSteps, OpenSteps
<1>14. ASSUME TaskBegin(p) PROVE Own
  BY <1>0, <1>14 DEF TaskBegin, BeginTx, TypeOK, Moves, Owned, ShowSteps, Succeeded
<1>15. ASSUME TaskExec(p) PROVE Own
  <2>1. Moves(p) /\ (pc[p] \in ShowSteps => p \in Readers)' /\ draft' = draft
    BY <1>0, <1>15 DEF TaskExec, TypeOK, Moves, ShowSteps, Succeeded
  <2>2. pc'[p] # "taskFinish"
    BY <1>0, <1>15 DEF TaskExec, TypeOK
  <2>3. ASSUME pc'[p] = "taskCommit" PROVE BoundIn(work[p].tables, p)'
    <3> DEFINE t == work[p].tables
    <3>1. Accepts(t, draft[p])
      BY <1>0, <1>15, <2>3 DEF TaskExec, TypeOK
    <3>2. PICK r \in ResourceFor(t, draft[p]) :
            /\ work' = [work EXCEPT ![p] = [work[p] EXCEPT !.tables = WithTask(t, draft[p], r)]]
            /\ answer' = [answer EXCEPT ![p] = StoredTask(draft[p], r)]
      BY <1>15, <3>1 DEF TaskExec
    <3>3. work[p] \in Content /\ draft[p] \in Draft /\ t \in Tables
      BY <1>0, <1>15 DEF TaskExec, TypeOK, WiredAt, Drafted, Content
    <3>4. work'[p].tables = WithTask(t, draft[p], r) /\ answer'[p] = StoredTask(draft[p], r)
      BY <1>0, <3>2, <3>3 DEF TypeOK, Content
    <3>5. Consistent(t)
      <4>1. work[p] = disk[handle[p]] /\ Sound(disk[handle[p]])
        BY <1>0, <1>15, DiskCommitted DEF TaskExec, Transaction, InTx, Finishing
      <4> QED BY <4>1 DEF Sound
    <3>6. r.connector = draft[p].connector /\ r.identity = draft[p].identity
      BY <3>1, <3>3, <3>5, ResourceForFits DEF Consistent
    <3>7. r \in work'[p].tables.resources /\ answer'[p].resource = r.id
      BY <3>4 DEF WithTask, StoredTask
    <3> QED BY <2>1, <3>6, <3>7 DEF BoundIn
  <2> QED BY <1>0, <2>1, <2>2, <2>3 DEF Owned
<1>16. ASSUME TaskCommit(p) PROVE Own
  BY <1>0, <1>16
     DEF TaskCommit, CommitWrite, TypeOK, Moves, Owned, ShowSteps, Succeeded, BoundIn
<1>17. ASSUME TaskFinish(p) PROVE Own
  <2>1. /\ pc[p] = "taskFinish" /\ pc'[p] = "close"
        /\ UNCHANGED <<disk, handle, draft, work, answer>>
        /\ journal' = [journal EXCEPT ![handle[p]] = NoJournal]
    BY <1>0, <1>17 DEF TaskFinish, CommitFinish, TypeOK
  <2>2. handle[p] \in Files /\ disk[handle[p]] = work[p]
    BY <1>0, <2>1 DEF WiredAt, Connected, Transaction, Finishing
  <2>3. \A f \in Files : handle[p] = f => Committed(f)' = work[p]
    BY <1>0, <2>1, <2>2 DEF Committed, TypeOK
  <2> QED BY <1>0, <2>1, <2>3 DEF Moves, Owned, Succeeded, ShowSteps
<1>18. ASSUME ShowStat(p) PROVE Own
  BY <1>0, <1>18 DEF ShowStat, TypeOK, Moves, Owned, ShowSteps, Succeeded
<1>19. ASSUME ShowConnect(p) PROVE Own
  BY <1>0, <1>19 DEF ShowConnect, TypeOK, Moves, Owned, ShowSteps, Succeeded
<1>20. ASSUME ShowValidate(p) PROVE Own
  BY <1>0, <1>20 DEF ShowValidate, TypeOK, Moves, Owned, ShowSteps, Succeeded
<1>21. ASSUME ShowQuery(p) PROVE Own
  BY <1>0, <1>21 DEF ShowQuery, TypeOK, Moves, Owned, ShowSteps, Succeeded
<1>22. ASSUME CloseStore(p) PROVE Own
  BY <1>0, <1>22 DEF CloseStore, TypeOK, Moves, Owned, ShowSteps, Succeeded
<1>23. ASSUME Report(p) PROVE Own
  BY <1>0, <1>23 DEF Report, TypeOK, Moves, Owned, ShowSteps, Succeeded
<1>24. ASSUME CancelledFails(p) PROVE Own
  BY <1>0, <1>24
     DEF CancelledFails, StepFails, TypeOK, Moves, Owned, ShowSteps, Succeeded,
         OpenSteps, TaskSteps, Recover, Committed, WiredAt, Connected
<1>25. ASSUME Error(p) PROVE Own
  BY <1>0, <1>25
     DEF Error, StepFails, TypeOK, Moves, Owned, ShowSteps, Succeeded, OpenSteps,
         TaskSteps, Recover, Committed, WiredAt, Connected
<1>26. ASSUME Cancel(p) PROVE Own
  BY <1>0, <1>26
     DEF Cancel, TypeOK, Moves, Owned, ShowSteps, Succeeded, BoundIn, Final, Committed
<1>27. ASSUME Crash(p) PROVE Own
  BY <1>0, <1>27 DEF Crash, TypeOK, Moves, Owned, ShowSteps, Succeeded, Committed, Final
<1>28. ASSUME ReportFails(p) PROVE Own
  BY <1>0, <1>28 DEF ReportFails, TypeOK, Moves, Owned, ShowSteps, Succeeded
<1>29. ASSUME Refuse(p) PROVE Own
  BY <1>0, <1>29 DEF Refuse, TypeOK, Moves, Owned, ShowSteps, Succeeded
<1>30. ASSUME PrepareClose(p) PROVE Own
  BY <1>0, <1>30 DEF PrepareClose, TypeOK, Moves, Owned, ShowSteps, Succeeded
<1>31. ASSUME FileCallFails(p) PROVE Own
  BY <1>0, <1>31 DEF FileCallFails, TypeOK, Moves, Owned, ShowSteps, Succeeded
<1>32. ASSUME Busy(p) PROVE Own
  BY <1>0, <1>32
     DEF Busy, StepFails, TypeOK, Moves, Owned, ShowSteps, Succeeded, OpenSteps,
         TaskSteps, Recover, Committed, WiredAt, Connected
<1>33. Own
  BY <1>1, <1>2, <1>3, <1>4, <1>5, <1>6, <1>7, <1>8, <1>9, <1>10, <1>11, <1>12, <1>13,
     <1>14, <1>15, <1>16, <1>17, <1>18, <1>19, <1>20, <1>21, <1>22, <1>23, <1>24,
     <1>25, <1>26, <1>27, <1>28, <1>29, <1>30, <1>31, <1>32
     DEF Step, Fault, Open, CreateTask, Show
<1> QED BY <1>33

Owns == \A p \in Procs : Owned(p)

(* Owns is inductive.                                                       *)
LEMMA NextOwns == Inv /\ Owns /\ [Next]_vars => Owns'
<1> SUFFICES ASSUME Inv, Owns, [Next]_vars PROVE Owns'
  OBVIOUS
<1>1. ASSUME NEW p \in Procs, Step(p) \/ Fault(p) PROVE Owns'
  <2> SUFFICES ASSUME NEW q \in Procs PROVE Owned(q)'
    BY DEF Owns
  <2>1. Owned(q) /\ Alone(p)
    BY <1>1, StepAlone DEF Inv, Owns
  <2>2. CASE q = p
    BY <1>1, <2>1, <2>2, StepMoves
  <2>3. CASE q # p
    BY <2>1, <2>3 DEF Owned, Alone, BoundIn
  <2> QED BY <2>2, <2>3
<1>2. CASE UNCHANGED vars
  BY <1>2 DEF vars, procVars, Owns, Owned, BoundIn
<1> QED BY <1>1, <1>2 DEF Next, Terminated

(* Nothing is owned before the first command.                               *)
LEMMA InitOwns == Init => Owns
BY DEF Init, Owns, Owned, ShowSteps

-----------------------------------------------------------------------------
(* No file holds a task with p's payload before p has succeeded.            *)
AbsentIn(p, f) ==
    p \in Submitters /\ pc[p] \notin Succeeded \cup {"crashed"} =>
        \A k \in Committed(f).tables.tasks, d \in Offers[p] : k.payload # d.payload

Absent == \A p \in Procs, f \in Files : AbsentIn(p, f)

(* The file at the start holds nothing but what earlier submissions stored. *)
LEMMA InitAbsence == PayloadsDistinct /\ Init => Absent
<1> SUFFICES ASSUME PayloadsDistinct, Init, NEW p \in Submitters, NEW f \in Files,
                    NEW k \in Committed(f).tables.tasks, NEW d \in Offers[p]
             PROVE  k.payload # d.payload
  BY DEF Absent, AbsentIn
<1>1. disk[f].tables.tasks # {} /\ Committed(f) = disk[f]
  BY DEF Init, Committed
<1>2. EmptyContent.tables.tasks = {}
  BY DEF EmptyContent, EmptyTables
<1>3. PICK kind \in InitialFiles : disk[f] \in InitialContents(kind)
  BY <1>1, <1>2 DEF Init, InitAbsent, InitPresent
<1>4. kind = "populated"
  BY <1>1, <1>2, <1>3 DEF InitialContents, EmptyContent, CurrentContent, EmptyTables
<1>5. PICK s \in Seeds : disk[f] =
          CurrentContent(WithTask(EmptyTables, s, InsertedResource(s)))
  BY <1>3, <1>4 DEF InitialContents
<1>6. k = StoredTask(s, InsertedResource(s))
  BY <1>1, <1>3, <1>5 DEF CurrentContent, WithTask, EmptyTables
<1> QED BY <1>5, <1>6 DEF StoredTask, PayloadsDistinct

(* A step that adds a task adds that of its own draft.                      *)
LEMMA StepAdds ==
    ASSUME Inv, Shapes, NEW p \in Procs, Owned(p), Step(p) \/ Fault(p), NEW f \in Files
    PROVE  \/ Committed(f)'.tables.tasks = Committed(f).tables.tasks
           \/ /\ p \in Submitters /\ pc'[p] \in Succeeded
              /\ draft[p] \in Offers[p]
              /\ \E k : /\ k.payload = draft[p].payload
                        /\ Committed(f)'.tables.tasks = Committed(f).tables.tasks \cup {k}
<1>1. CASE CommitsAt(p, f)
  <2>1. /\ pc[p] \in Finishing /\ handle[p] = f /\ Committed(f)' = work[p]
        /\ Shape(p) /\ Committed(f) = journal[f]
    BY <1>1 DEF CommitsAt, Shapes, Inv, Transaction, Committed
  <2>2. CASE pc[p] = "migrateFinish"
    BY <2>1, <2>2 DEF Shape
  <2>3. CASE pc[p] = "taskFinish"
    <3> DEFINE t == Committed(f).tables
    <3>1. PICK r \in ResourceFor(t, draft[p]) : work[p].tables = WithTask(t, draft[p], r)
      BY <2>1, <2>3 DEF Shape, Creates
    <3>2. /\ work[p].tables.tasks = t.tasks \cup {StoredTask(draft[p], r)}
          /\ StoredTask(draft[p], r).payload = draft[p].payload
      BY <3>1 DEF WithTask, StoredTask
    <3>3. draft[p] # NoDraft
      BY <2>3, ConstantsAssumption DEF Inv, Wired, WiredAt, Drafted
    <3>4. p \in Submitters /\ draft[p] \in Offers[p]
      BY <3>3 DEF Owned
    <3>5. CASE pc'[p] \in Succeeded
      BY <2>1, <3>2, <3>4, <3>5
    <3>6. CASE pc'[p] \notin Succeeded
      BY <2>3, <3>6, StepMoves DEF Moves
    <3> QED BY <3>5, <3>6
  <2> QED BY <2>1, <2>2, <2>3 DEF Finishing
<1> QED BY <1>1, StepCommits

(* Absent is inductive: another submission's task has another payload.      *)
LEMMA NextAbsent ==
    PayloadsDistinct /\ Inv /\ Shapes /\ Owns /\ Absent /\ [Next]_vars => Absent'
<1> SUFFICES ASSUME PayloadsDistinct, Inv, Shapes, Owns, Absent, [Next]_vars
             PROVE  Absent'
  OBVIOUS
<1>1. ASSUME NEW p \in Procs, Step(p) \/ Fault(p) PROVE Absent'
  <2> SUFFICES ASSUME NEW q \in Submitters, NEW f \in Files,
                      pc'[q] \notin Succeeded \cup {"crashed"},
                      NEW k \in Committed(f)'.tables.tasks, NEW d \in Offers[q]
               PROVE  k.payload # d.payload
    BY DEF Absent, AbsentIn
  <2>0. q \in Procs /\ Owned(p) /\ Alone(p)
    BY <1>1, StepAlone DEF Procs, Owns, Inv
  <2>1. pc[q] \notin Succeeded \cup {"crashed"}
    <3>1. CASE q = p
      BY <1>1, <2>0, <3>1, StepMoves DEF Moves
    <3>2. CASE q # p
      BY <2>0, <3>2 DEF Alone
    <3> QED BY <3>1, <3>2
  <2>2. CASE k \in Committed(f).tables.tasks
    BY <2>0, <2>1, <2>2 DEF Absent, AbsentIn
  <2>3. CASE k \notin Committed(f).tables.tasks
    <3>1. /\ p \in Submitters /\ pc'[p] \in Succeeded
          /\ draft[p] \in Offers[p] /\ k.payload = draft[p].payload
      BY <1>1, <2>0, <2>3, StepAdds
    <3>2. q # p
      BY <3>1
    <3> QED BY <3>1, <3>2 DEF PayloadsDistinct
  <2> QED BY <2>2, <2>3
<1>2. CASE UNCHANGED vars
  BY <1>2 DEF vars, fileVars, procVars, Absent, AbsentIn, Committed
<1> QED BY <1>1, <1>2 DEF Next, Terminated

(* A transaction's pages and its owner's draft fit throughout.              *)
LEMMA SpecOwns == Spec => [](Inv /\ Shapes /\ Owns)
BY SpecInv, InitShapes, NextShapes, InitOwns, NextOwns, PTL DEF Spec

(* A submission that reports failure has left no task in any file: neither  *)
(* the error of a Commit, nor a cancellation, nor the recovery of its       *)
(* journal by another process makes its task appear.                        *)
THEOREM FailureLeavesNothing == Spec => []FailedLeavesNothing
<1>1. CASE PayloadsDistinct
  <2>1. Spec => []Absent
    <3>1. Init => Absent
      BY <1>1, InitAbsence
    <3>2. Inv /\ Shapes /\ Owns /\ Absent /\ [Next]_vars => Absent'
      BY <1>1, NextAbsent
    <3> QED BY <3>1, <3>2, SpecOwns, PTL DEF Spec
  <2>2. Owns /\ Absent => FailedLeavesNothing
    <3> SUFFICES ASSUME Owns, Absent, NEW p \in Submitters, NEW f \in Files,
                        pc[p] \in {"fail", "failed"}, draft[p] # NoDraft,
                        NEW k \in Committed(f).tables.tasks
                 PROVE  ~From(k, draft[p])
      BY DEF FailedLeavesNothing
    <3>1. p \in Procs /\ pc[p] \notin Succeeded \cup {"crashed"}
      BY DEF Procs, Succeeded
    <3>2. draft[p] \in Offers[p] /\ AbsentIn(p, f)
      BY <3>1 DEF Owns, Owned, Absent
    <3> QED BY <3>1, <3>2 DEF AbsentIn, From
  <2> QED BY <2>1, <2>2, SpecOwns, PTL
<1>2. CASE ~PayloadsDistinct
  <2>1. FailedLeavesNothing
    BY <1>2 DEF FailedLeavesNothing
  <2> QED BY <2>1, PTL
<1> QED BY <1>1, <1>2

-----------------------------------------------------------------------------
(* A submission that succeeded has its task's resource bound in the file.   *)
BoundAt(p) == p \in Submitters /\ pc[p] \in Succeeded => BoundIn(Stored, p)

Bound == \A p \in Procs : BoundAt(p)

(* Bound is inductive: the commit writes the binding, and no later          *)
(* submission rewrites it.                                                  *)
LEMMA NextBound ==
    Inv /\ PathFixed /\ Answers /\ Owns /\ Bound /\ [Next]_vars => Bound'
<1> SUFFICES ASSUME Inv, PathFixed, Answers, Owns, Bound, [Next]_vars,
                    NEW q \in Submitters, pc'[q] \in Succeeded
             PROVE  BoundIn(Stored, q)'
  BY DEF Bound, BoundAt
<1>0. PICK g \in Files : g = path /\ g # NoFile
  BY ConstantsAssumption DEF PathFixed
<1>1. Stored = Committed(g).tables /\ Stored' = Committed(g)'.tables
  <2>1. path' = path
    BY NextDurable
  <2> QED BY <1>0, <2>1 DEF Stored, Committed
<1>2. KeepsBindings(Stored, Stored')
  <2>1. Committed(g)' = Committed(g) \/ Replaces(Committed(g), Committed(g)')
    BY StepExtends
  <2> QED BY <1>1, <2>1 DEF Replaces, KeepsBindings
<1>3. q \in Procs /\ q \notin Readers
  BY ConstantsAssumption DEF Procs
<1>4. ASSUME pc[q] \in Succeeded, answer'[q] = answer[q], draft'[q] = draft[q]
      PROVE  BoundIn(Stored, q)'
  <2>1. PICK r \in Stored.resources :
          /\ r.id = answer[q].resource
          /\ r.connector = draft[q].connector
          /\ r.identity = draft[q].identity
    BY <1>3, <1>4 DEF Bound, BoundAt, BoundIn
  <2>2. PICK s \in Stored'.resources : BindingOf(s) = BindingOf(r)
    BY <1>2, <2>1 DEF KeepsBindings
  <2>3. s.id = r.id /\ s.connector = r.connector /\ s.identity = r.identity
    BY <2>2 DEF BindingOf
  <2> QED BY <1>4, <2>1, <2>2, <2>3 DEF BoundIn
<1>5. ASSUME NEW p \in Procs, Step(p) \/ Fault(p) PROVE BoundIn(Stored, q)'
  <2>1. CASE q # p
    BY <1>3, <1>4, <1>5, <2>1, StepAlone DEF Inv, Alone
  <2>2. CASE q = p /\ pc[q] \in Succeeded
    BY <1>4, <1>5, <2>2, StepMoves DEF Owns, Moves
  <2>3. CASE q = p /\ pc[q] \notin Succeeded
    <3>1. /\ pc[q] = "taskFinish"
          /\ \A f \in Files : handle[q] = f => Committed(f)' = work[q]
          /\ answer'[q] = answer[q] /\ draft'[q] = draft[q]
      BY <1>3, <1>5, <2>3, StepMoves DEF Owns, Moves
    <3>2. handle[q] = g
      BY <1>0, <1>3, <3>1, ConstantsAssumption
         DEF PathFixed, Inv, Wired, WiredAt, Connected
    <3>3. Committed(g)' = work[q]
      BY <3>1, <3>2
    <3>4. BoundIn(work[q].tables, q)
      BY <1>3, <3>1 DEF Owns, Owned
    <3> QED BY <1>1, <3>1, <3>3, <3>4 DEF BoundIn
  <2> QED BY <2>1, <2>2, <2>3
<1>6. CASE UNCHANGED vars
  BY <1>4, <1>6 DEF vars, procVars
<1> QED BY <1>5, <1>6 DEF Next, Terminated

(* The repository a submission has read is the one its task's resource is   *)
(* bound to in the state file, although others may write the resource's row *)
(* between its Snapshot and its transaction and at any time after it.       *)
THEOREM TaskBoundToReadRepository ==
    ASSUME FileExists
    PROVE  Spec => []TaskOfReadRepository
<1>1. Init => Bound
  BY DEF Init, Bound, BoundAt, Succeeded
<1>2. Spec => []Bound
  BY <1>1, SpecDurable, SpecOwns, NextBound, PTL DEF Spec
<1>3. Bound => TaskOfReadRepository
  BY DEF Bound, BoundAt, BoundIn, TaskOfReadRepository, Succeeded, Procs
<1> QED BY <1>2, <1>3, PTL

(* A `task show` that finds no row with the id it was asked for is right:   *)
(* no command has printed a task with that id before.                       *)
THEOREM ShowIsRight ==
    ASSUME FileExists
    PROVE  Spec => ShowFindsReported
<1>1. Inv /\ PathFixed /\ Answers /\ [Next]_vars =>
        [\A p \in Readers : ShowQuery(p) /\ journal[handle[p]] = NoJournal
                              /\ pc'[p] = "fail" =>
           \A k \in Reported : k.id # Wanted[p]]_vars
  <2> SUFFICES ASSUME Inv, PathFixed, Answers,
                      NEW p \in Readers, ShowQuery(p), journal[handle[p]] = NoJournal,
                      pc'[p] = "fail", NEW k \in Reported
               PROVE  k.id # Wanted[p]
    OBVIOUS
  <2>1. p \in Procs /\ pc \in [Procs -> PCs]
    BY DEF Procs, Inv, TypeOK
  <2>2. {j \in disk[handle[p]].tables.tasks : j.id = Wanted[p]} = {}
    BY <2>1 DEF ShowQuery, Goto
  <2>3. handle[p] = path
    BY <2>1, ConstantsAssumption
       DEF ShowQuery, PathFixed, Inv, Wired, WiredAt, Connected
  <2>4. PICK q \in Procs : pc[q] = "done" /\ k = answer[q]
    BY DEF Reported
  <2>5. k \in Committed(path).tables.tasks
    BY <2>4 DEF Answers, AnswerAt
  <2>6. Committed(path) = disk[handle[p]]
    BY <2>3 DEF Committed
  <2> QED BY <2>2, <2>5, <2>6
<1> QED BY SpecDurable, <1>1, PTL DEF Spec, ShowFindsReported

-----------------------------------------------------------------------------
(* From here on the state file is one that delegatd itself has left.        *)
OwnFile == InitialFiles \subseteq {"empty", "current", "populated"}

(* The file at the path stays one that Open accepts, and only processes     *)
(* that can be cancelled are.                                               *)
Welcoming ==
    /\ perm[path] # "broad"
    /\ Supported(Committed(path))
    /\ \A p \in Procs : pc[p] = "validate" => ValidSchema(Committed(path))
    /\ \A p \in cancelled : "cancel" \in Faults[p]

(* Open accepts what delegatd has left.                                     *)
LEMMA InitWelcoming == OwnFile /\ Init => Welcoming
<1> SUFFICES ASSUME OwnFile, Init PROVE Welcoming
  OBVIOUS
<1>1. PICK kind \in InitialFiles, g \in Files :
        \E c \in InitialContents(kind) :
          /\ path = g /\ disk[g] = c
          /\ perm[g] = IF kind = "broad" THEN "broad" ELSE "owner"
  BY DEF Init, InitAbsent, InitPresent, OwnFile
<1>2. kind \in {"empty", "current", "populated"}
  BY <1>1 DEF OwnFile
<1>3. \A c \in InitialContents(kind) : Supported(c)
  BY <1>2 DEF InitialContents, Supported, EmptyContent, CurrentContent
<1> QED BY <1>1, <1>2, <1>3 DEF Init, Welcoming, Committed

(* Why p stops by itself.                                                   *)
Excused(p) ==
    \/ MeetsLock(p)
    \/ pc[p] \in {"count", "migrateExec"} /\ ValidSchema(Committed(handle[p]))
    \/ draft[p] # NoDraft /\ Clashes(Stored, draft[p])

(* A submission whose own calls return no error.                            *)
Undisturbed(p) == p \in Submitters /\ Faults[p] \subseteq {"crash"}

(* One case per action: a step of p into failure has one of the excuses,    *)
(* and whatever p does the file remains welcoming.                          *)
LEMMA StepWelcoming ==
    ASSUME Inv, Creators, Adopts, PathFixed, Welcoming, NEW p \in Procs, Owned(p),
           Step(p) \/ Fault(p)
    PROVE  /\ Undisturbed(p) /\ pc[p] \notin Failing /\ pc'[p] \in Failing => Excused(p)
           /\ pc'[p] = "validate" => ValidSchema(Committed(path))'
           /\ \A q \in cancelled' : "cancel" \in Faults[q]
<1> USE DEF Goto, fileVars
<1>0. /\ TypeOK /\ WiredAt(p) /\ Welcoming
      /\ path \in Files /\ path' = path /\ NoFile \notin Files
      /\ pc[p] \notin {"create", "closeFile", "cleanup"}
      /\ handle[p] \in {path, NoFile}
      /\ Undisturbed(p) => p \in Submitters /\ p \notin cancelled /\ p \notin Readers
      /\ pc[p] \in ShowSteps => p \in Readers
      /\ Supported(Committed(path)) /\ pc[p] = "validate" => ValidSchema(Committed(path))
  BY StepPathFixed, ConstantsAssumption
     DEF Inv, Wired, PathFixed, Undisturbed, Welcoming, Owned
<1>a. ValidSchema(Committed(path)) => ValidSchema(Committed(path))'
  <2>1. PICK g \in Files : g = path
    BY <1>0
  <2>2. Committed(g)' = Committed(g) \/ Replaces(Committed(g), Committed(g)')
    BY StepExtends DEF Next
  <2>3. Committed(path)' = Committed(g)'
    BY <1>0, <2>1 DEF Committed
  <2> QED BY <2>1, <2>2, <2>3 DEF Replaces
<1> DEFINE Own ==
      /\ Undisturbed(p) /\ pc[p] \notin Failing /\ pc'[p] \in Failing => Excused(p)
      /\ pc'[p] = "validate" => ValidSchema(Committed(path))'
      /\ \A q \in cancelled' : "cancel" \in Faults[q]
<1>1. ASSUME PrepareStat(p) PROVE Own
  BY <1>0, <1>1 DEF PrepareStat, TypeOK, Welcoming, Failing
<1>2. ASSUME PrepareCreate(p) PROVE Own
  BY <1>0, <1>2 DEF PrepareCreate, TypeOK, Welcoming, Failing
<1>3. ASSUME Connect(p) PROVE Own
  BY <1>0, <1>3 DEF Connect, TypeOK, Welcoming, Failing
<1>4. ASSUME ReadVersion(p) PROVE Own
  BY <1>0, <1>4, <1>a
     DEF ReadVersion, TypeOK, Welcoming, Failing, WiredAt, Connected, Supported,
         DeleteJournal, ValidSchema
<1>5. ASSUME CountObjects(p) PROVE Own
  BY <1>0, <1>5
     DEF CountObjects, TypeOK, Welcoming, Failing, Excused, WiredAt, Connected,
         Supported, ValidSchema
<1>6. ASSUME MigrateBegin(p) PROVE Own
  BY <1>0, <1>6 DEF MigrateBegin, BeginTx, TypeOK, Welcoming, Failing
<1>7. ASSUME MigrateExec(p) PROVE Own
  <2>1. /\ handle[p] = path /\ pc[p] = "migrateExec"
        /\ Committed(path) = work[p]
    BY <1>0, <1>7, DiskCommitted
       DEF MigrateExec, WiredAt, Connected, Inv, Transaction, InTx, Finishing
  <2>2. CASE pc'[p] \notin Failing
    BY <1>0, <1>7, <2>2 DEF MigrateExec, Migrated, TypeOK, Welcoming
  <2>3. CASE pc'[p] \in Failing
    <3>1. work[p].objects # {}
      BY <1>0, <1>7, <2>3 DEF MigrateExec, Failing, TypeOK
    <3>2. ValidSchema(work[p])
      BY <2>1, <3>1 DEF Welcoming, Supported, ValidSchema
    <3> QED
      BY <1>0, <1>7, <2>1, <2>3, <3>2
         DEF MigrateExec, TypeOK, Welcoming, Failing, Excused
  <2> QED BY <2>2, <2>3
<1>8. ASSUME MigrateCommit(p) PROVE Own
  BY <1>0, <1>8 DEF MigrateCommit, CommitWrite, TypeOK, Welcoming, Failing
<1>9. ASSUME MigrateFinish(p) PROVE Own
  <2>1. PICK g \in Files : g = handle[p] /\ g = path
    BY <1>0, <1>9 DEF MigrateFinish, CommitFinish, WiredAt, Connected
  <2>2. pc[p] = "migrateFinish" /\ pc'[p] = "validate" /\ cancelled' = cancelled
    BY <1>0, <1>9 DEF MigrateFinish, CommitFinish, TypeOK
  <2>3. disk'[g] = work[p] /\ journal'[g] = NoJournal
    BY <1>0, <1>9, <2>1
       DEF MigrateFinish, CommitFinish, Inv, Transaction, Finishing, TypeOK
  <2>4. ValidSchema(work[p])
    BY <2>1, <2>2 DEF Adopts, AdoptsAt, OpenedAs
  <2> QED BY <1>0, <2>1, <2>2, <2>3, <2>4 DEF Failing, Welcoming, Committed
<1>10. ASSUME ValidateSchema(p) PROVE Own
  BY <1>0, <1>10, <1>a
     DEF ValidateSchema, TypeOK, Welcoming, Failing, WiredAt, Connected
<1>11. ASSUME AbortOpen(p) PROVE Own
  BY <1>0, <1>11 DEF AbortOpen, TypeOK, Welcoming, Failing
<1>12. ASSUME Cleanup(p) PROVE Own
  BY <1>0, <1>12 DEF Cleanup, TypeOK, Welcoming, Failing
<1>13. ASSUME BuildDraft(p) PROVE Own
  BY <1>0, <1>13 DEF BuildDraft, TypeOK, Welcoming, Failing
<1>14. ASSUME TaskBegin(p) PROVE Own
  BY <1>0, <1>14 DEF TaskBegin, BeginTx, TypeOK, Welcoming, Failing
<1>15. ASSUME TaskExec(p) PROVE Own
  <2>1. CASE pc'[p] \notin Failing
    BY <1>0, <1>15, <2>1 DEF TaskExec, TypeOK, Welcoming
  <2>2. CASE pc'[p] \in Failing
    <3> DEFINE t == work[p].tables
    <3>1. ~Accepts(t, draft[p]) /\ pc'[p] # "validate" /\ cancelled' = cancelled
      BY <1>0, <1>15, <2>2 DEF TaskExec, TypeOK, Failing
    <3>2. /\ handle[p] = path /\ draft[p] # NoDraft
          /\ work[p] = disk[handle[p]] /\ pc[p] = "taskExec"
      BY <1>0, <1>15, ConstantsAssumption
         DEF TaskExec, WiredAt, Connected, Drafted, Inv, Transaction
    <3>3. t = Stored /\ Consistent(t)
      <4>1. Committed(path) = work[p] /\ Sound(work[p])
        BY <3>2, DiskCommitted DEF InTx, Finishing
      <4> QED BY <1>0, <4>1 DEF Stored, Sound
    <3>4. Clashes(t, draft[p])
      <4>1. \A h \in t.history : h.task = draft[p].id =>
              \E k \in t.tasks : k.id = draft[p].id
        BY <3>3 DEF Consistent, HistoryMatches
      <4> QED BY <3>1, <4>1 DEF Accepts, ConstraintFails, Clashes, Conflict
    <3> QED BY <1>0, <3>1, <3>2, <3>3, <3>4 DEF Excused, Welcoming
  <2> QED BY <2>1, <2>2
<1>16. ASSUME TaskCommit(p) PROVE Own
  BY <1>0, <1>16 DEF TaskCommit, CommitWrite, TypeOK, Welcoming, Failing
<1>17. ASSUME TaskFinish(p) PROVE Own
  BY <1>0, <1>17 DEF TaskFinish, CommitFinish, TypeOK, Welcoming, Failing
<1>18. ASSUME ShowStat(p) PROVE Own
  BY <1>0, <1>18, ConstantsAssumption
     DEF ShowStat, TypeOK, Welcoming, Failing, Undisturbed
<1>19. ASSUME ShowConnect(p) PROVE Own
  BY <1>0, <1>19 DEF ShowConnect, TypeOK, Welcoming, Failing, ShowSteps
<1>20. ASSUME ShowValidate(p) PROVE Own
  BY <1>0, <1>20 DEF ShowValidate, TypeOK, Welcoming, Failing, ShowSteps
<1>21. ASSUME ShowQuery(p) PROVE Own
  BY <1>0, <1>21 DEF ShowQuery, TypeOK, Welcoming, Failing, ShowSteps
<1>22. ASSUME CloseStore(p) PROVE Own
  BY <1>0, <1>22 DEF CloseStore, TypeOK, Welcoming, Failing
<1>23. ASSUME Report(p) PROVE Own
  BY <1>0, <1>23 DEF Report, TypeOK, Welcoming, Failing
<1>24. ASSUME CancelledFails(p) PROVE Own
  BY <1>0, <1>24
     DEF CancelledFails, StepFails, TypeOK, Welcoming, Failing, Undisturbed, OpenSteps
<1>25. ASSUME Error(p) PROVE Own
  BY <1>0, <1>25
     DEF Error, StepFails, TypeOK, Welcoming, Failing, Undisturbed, OpenSteps
<1>26. ASSUME Cancel(p) PROVE Own
  BY <1>0, <1>26, <1>a DEF Cancel, TypeOK, Welcoming, Failing
<1>27. ASSUME Crash(p) PROVE Own
  BY <1>0, <1>27 DEF Crash, TypeOK, Welcoming, Failing
<1>28. ASSUME ReportFails(p) PROVE Own
  BY <1>0, <1>28 DEF ReportFails, TypeOK, Welcoming, Failing
<1>29. ASSUME Refuse(p) PROVE Own
  BY <1>0, <1>29 DEF Refuse, TypeOK, Welcoming, Failing, Undisturbed
<1>30. ASSUME PrepareClose(p) PROVE Own
  BY <1>0, <1>30 DEF PrepareClose, TypeOK, Welcoming, Failing, Undisturbed
<1>31. ASSUME FileCallFails(p) PROVE Own
  BY <1>0, <1>31 DEF FileCallFails, TypeOK, Welcoming, Failing, Undisturbed
<1>32. ASSUME Busy(p) PROVE Own
  BY <1>0, <1>32
     DEF Busy, StepFails, TypeOK, Welcoming, Failing, Excused, OpenSteps
<1>33. Own
  BY <1>1, <1>2, <1>3, <1>4, <1>5, <1>6, <1>7, <1>8, <1>9, <1>10, <1>11, <1>12, <1>13,
     <1>14, <1>15, <1>16, <1>17, <1>18, <1>19, <1>20, <1>21, <1>22, <1>23, <1>24,
     <1>25, <1>26, <1>27, <1>28, <1>29, <1>30, <1>31, <1>32
     DEF Step, Fault, Open, CreateTask, Show
<1> QED BY <1>33

(* Welcoming is inductive: what is committed over a supported file is       *)
(* supported, and a valid schema stays valid.                               *)
LEMMA NextWelcoming ==
    Inv /\ Creators /\ Adopts /\ PathFixed /\ Owns /\ Welcoming /\ [Next]_vars
        => Welcoming'
<1> SUFFICES ASSUME Inv, Creators, Adopts, PathFixed, Owns, Welcoming, [Next]_vars
             PROVE  Welcoming'
  OBVIOUS
<1>1. ASSUME NEW p \in Procs, Step(p) \/ Fault(p) PROVE Welcoming'
  <2>0. PICK g \in Files : g = path
    BY DEF PathFixed
  <2>1. path' = path /\ Committed(path)' = Committed(g)' /\ Alone(p) /\ Owned(p)
    BY <1>1, <2>0, StepPathFixed, StepAlone DEF Committed, Inv, Owns
  <2>2. perm'[path'] # "broad"
    BY <1>1, <2>0, <2>1, StepPath DEF Welcoming, Inv, Allocation
  <2>3. Supported(Committed(path))'
    BY <1>1, <2>0, <2>1, StepKeepsForeign DEF KeepsForeign, Welcoming
  <2>4. ASSUME NEW q \in Procs, pc'[q] = "validate" PROVE ValidSchema(Committed(path))'
    <3>1. CASE q = p
      BY <1>1, <2>1, <2>4, <3>1, StepWelcoming
    <3>2. CASE q # p
      <4>1. ValidSchema(Committed(g))
        BY <2>0, <2>1, <2>4, <3>2 DEF Alone, Welcoming
      <4>2. Committed(g)' = Committed(g) \/ Replaces(Committed(g), Committed(g)')
        BY StepExtends
      <4> QED BY <2>1, <4>1, <4>2 DEF Replaces
    <3> QED BY <3>1, <3>2
  <2>5. \A q \in cancelled' : "cancel" \in Faults[q]
    BY <1>1, <2>1, StepWelcoming
  <2> QED BY <2>2, <2>3, <2>4, <2>5 DEF Welcoming
<1>2. CASE UNCHANGED vars
  BY <1>2 DEF vars, fileVars, procVars, Welcoming, Committed
<1> QED BY <1>1, <1>2 DEF Next, Terminated

(* Welcoming holds throughout.                                              *)
LEMMA SpecWelcoming ==
    ASSUME OwnFile
    PROVE  Spec => []Welcoming
<1>1. FileExists
  BY DEF OwnFile, FileExists
<1>2. Init => Welcoming
  BY InitWelcoming
<1> QED BY <1>1, <1>2, SpecAdopts, SpecDurable, SpecOwns, NextWelcoming, PTL DEF Spec

(* Only a submission that finds the path empty between its Stat and its     *)
(* connection lets SQLite create the file with the umask's permissions: a   *)
(* file of delegatd's own stays private, whatever fails or is killed.       *)
THEOREM OwnFileStaysPrivate ==
    ASSUME OwnFile
    PROVE  Spec => []StateFilePrivate
<1>1. Welcoming => StateFilePrivate
  BY DEF Welcoming, StateFilePrivate
<1> QED BY <1>1, SpecWelcoming, PTL

(* On a state file of delegatd's own, what another process leaves behind,   *)
(* dead or failed, refuses nobody: a submission without I/O errors of its   *)
(* own fails only because a live process has the file locked at that        *)
(* moment, because another one has migrated the empty file first, or        *)
(* because its draft clashes with what is stored.                           *)
THEOREM FailsForCause ==
    ASSUME OwnFile
    PROVE  Spec => NoSpuriousFailure
<1>1. FileExists
  BY DEF OwnFile, FileExists
<1>2. Inv /\ Creators /\ Adopts /\ PathFixed /\ Owns /\ Welcoming /\ [Next]_vars =>
        [\A p \in Submitters :
           Faults[p] \subseteq {"crash"} /\ pc[p] \notin Failing /\ pc'[p] \in Failing =>
             \/ MeetsLock(p)
             \/ pc[p] \in {"count", "migrateExec"} /\ ValidSchema(Committed(handle[p]))
             \/ draft[p] # NoDraft /\ Clashes(Stored, draft[p])]_vars
  <2> SUFFICES ASSUME Inv, Creators, Adopts, PathFixed, Owns, Welcoming, [Next]_vars,
                      NEW p \in Submitters, Undisturbed(p),
                      pc[p] \notin Failing, pc'[p] \in Failing
               PROVE  Excused(p)
    BY DEF Undisturbed, Excused
  <2>1. PICK q \in Procs : Step(q) \/ Fault(q)
    BY DEF Next, Terminated, vars, procVars
  <2>2. q = p
    BY <2>1, StepAlone DEF Inv, Alone, Procs
  <2> QED BY <2>1, <2>2, StepWelcoming DEF Owns
<1> QED BY <1>1, <1>2, SpecWelcoming, SpecAdopts, SpecDurable, SpecOwns, PTL
       DEF Spec, NoSpuriousFailure
=============================================================================
