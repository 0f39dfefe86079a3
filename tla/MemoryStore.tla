---------------------------- MODULE MemoryStore ----------------------------
(***************************************************************************)
(* The in-memory task store: three maps behind one sync.RWMutex, used by    *)
(* goroutines.  CreateTask checks its context and validates its draft       *)
(* before it locks, and then writes the three maps one after another; a     *)
(* reader calls Task and then History, each under its own read lock.  One   *)
(* action is what happens between two accesses to a map or to the mutex.    *)
(***************************************************************************)
EXTENDS Naturals

CONSTANTS
    Writers,        \* goroutines that call CreateTask
    Readers,        \* goroutines that call Task and History
    Wanted,         \* the task id each reader asks for
    TaskIDs, ResourceIDs, Names, Connectors, Identities,
    Materials,      \* kind, reference, revision, configuration, requested policy
    Payloads,       \* input and effective policy
    Times,          \* values of CreatedAt
    Offers,         \* the drafts each writer may pass
    NoCaller, NoDraft, NoResource, NoTask, NoEntry

Callers == Writers \cup Readers

Statuses == {"pending", "other"}

HistoryEntry == [sequence : 0..2, status : Statuses, occurredAt : Times]

(* parses: the ids have their grammar, no resource field is empty, the two  *)
(* configuration snapshots agree and every snapshot is canonical JSON.      *)
Draft == [id : TaskIDs, candidate : ResourceIDs, name : Names,
          connector : Connectors, identity : Identities,
          material : Materials, payload : Payloads, createdAt : Times,
          status : Statuses, history : HistoryEntry, parses : BOOLEAN]

Resource == [id : ResourceIDs, name : Names, connector : Connectors,
             identity : Identities, material : Materials,
             onboardedAt : Times, updatedAt : Times]

Task == [id : TaskIDs, status : Statuses, createdAt : Times,
         resource : ResourceIDs, name : Names, connector : Connectors,
         material : Materials, payload : Payloads]

(* Candidate ids are random (domain.NewID) and the store does not compare   *)
(* them with stored ones: two drafts with one candidate id are for one name.*)
ASSUME MemoryAssumption ==
    /\ Writers \cap Readers = {}
    /\ Wanted \in [Readers -> TaskIDs]
    /\ Offers \in [Writers -> SUBSET Draft]
    /\ \A v, w \in Writers : \A d \in Offers[v], e \in Offers[w] :
         d.candidate = e.candidate => d.name = e.name
    /\ NoCaller \notin Callers
    /\ NoDraft \notin Draft
    /\ NoResource \notin Resource
    /\ NoTask \notin Task
    /\ NoEntry \notin HistoryEntry

VARIABLES
    resources,  \* Store.resources, by name
    tasks,      \* Store.tasks, by id
    history,    \* Store.history, by id: the one entry, or none
    writer,     \* who holds the mutex for writing
    readers,    \* who holds it for reading
    pc,         \* what each goroutine does next
    draft,      \* the draft each writer passed
    cancelled,  \* whose context is done
    answer,     \* the task each call returned
    seen        \* the history each reader read

vars == <<resources, tasks, history, writer, readers, pc, draft, cancelled,
          answer, seen>>

maps == <<resources, tasks, history>>
mutex == <<writer, readers>>

Final == {"done", "failed"}

Init ==
    /\ resources = [n \in Names |-> NoResource]
    /\ tasks = [i \in TaskIDs |-> NoTask]
    /\ history = [i \in TaskIDs |-> NoEntry]
    /\ writer = NoCaller
    /\ readers = {}
    /\ pc = [c \in Callers |-> "start"]
    /\ draft = [w \in Writers |-> NoDraft]
    /\ cancelled = [c \in Callers |-> FALSE]
    /\ answer = [c \in Callers |-> NoTask]
    /\ seen = [r \in Readers |-> NoEntry]

-----------------------------------------------------------------------------
(* What CreateTask computes from its draft.                                 *)

Valid(d) ==
    /\ d.parses
    /\ d.status = "pending"
    /\ d.history.sequence = 1
    /\ d.history.status = d.status
    /\ d.history.occurredAt = d.createdAt

(* Another name owns the draft's upstream identity.                         *)
OwnedElsewhere(d) ==
    \E n \in Names \ {d.name} :
        /\ resources[n] # NoResource
        /\ resources[n].connector = d.connector
        /\ resources[n].identity = d.identity

BoundOtherwise(d) ==
    /\ resources[d.name] # NoResource
    /\ \/ resources[d.name].connector # d.connector
       \/ resources[d.name].identity # d.identity

(* Seeded fault: only the stored entry of the same name is looked at.       *)
RejectsByNameOnly(d) == tasks[d.id] # NoTask \/ BoundOtherwise(d)

Rejects(d) == tasks[d.id] # NoTask \/ OwnedElsewhere(d) \/ BoundOtherwise(d)

(* A new entry with the candidate id, or the stored one with new material.  *)
ResourceFor(d) ==
    IF resources[d.name] = NoResource
    THEN [id |-> d.candidate, name |-> d.name, connector |-> d.connector,
          identity |-> d.identity, material |-> d.material,
          onboardedAt |-> d.createdAt, updatedAt |-> d.createdAt]
    ELSE [resources[d.name] EXCEPT !.material = d.material,
                                   !.updatedAt = d.createdAt]

(* The task's resource snapshot is taken from the stored entry.             *)
StoredTask(d) ==
    [id |-> d.id, status |-> d.status, createdAt |-> d.createdAt,
     resource |-> resources[d.name].id, name |-> resources[d.name].name,
     connector |-> resources[d.name].connector,
     material |-> resources[d.name].material, payload |-> d.payload]

-----------------------------------------------------------------------------
(* CreateTask.                                                              *)

(* The context is looked at once, before the lock.                          *)
CreateEnter(w) ==
    /\ pc[w] = "start"
    /\ \E d \in Offers[w] :
         /\ draft' = [draft EXCEPT ![w] = d]
         /\ pc' = [pc EXCEPT ![w] =
                     IF cancelled[w] \/ ~Valid(d) THEN "failed" ELSE "lock"]
    /\ UNCHANGED <<maps, mutex, cancelled, answer, seen>>

Lock(w) ==
    /\ pc[w] = "lock"
    /\ writer = NoCaller
    /\ readers = {}
    /\ writer' = w
    /\ pc' = [pc EXCEPT ![w] = "resource"]
    /\ UNCHANGED <<maps, readers, draft, cancelled, answer, seen>>

(* Seeded fault: a refused CreateTask tries again.                          *)
RefuseRetries(w) ==
    /\ pc[w] = "resource"
    /\ Rejects(draft[w])
    /\ writer' = NoCaller
    /\ pc' = [pc EXCEPT ![w] = "lock"]
    /\ UNCHANGED <<maps, readers, draft, cancelled, answer, seen>>

(* A duplicate task or a conflicting resource; the lock goes by defer.      *)
Refuse(w) ==
    /\ pc[w] = "resource"
    /\ Rejects(draft[w])
    /\ writer' = NoCaller
    /\ pc' = [pc EXCEPT ![w] = "failed"]
    /\ UNCHANGED <<maps, readers, draft, cancelled, answer, seen>>

(* Seeded fault: the resource is refreshed before the task id is checked.   *)
StoreResourceFirst(w) ==
    /\ pc[w] = "resource"
    /\ ~OwnedElsewhere(draft[w]) /\ ~BoundOtherwise(draft[w])
    /\ resources' = [resources EXCEPT ![draft[w].name] = ResourceFor(draft[w])]
    /\ IF tasks[draft[w].id] # NoTask
       THEN writer' = NoCaller /\ pc' = [pc EXCEPT ![w] = "failed"]
       ELSE writer' = writer /\ pc' = [pc EXCEPT ![w] = "task"]
    /\ UNCHANGED <<tasks, history, readers, draft, cancelled, answer, seen>>

StoreResource(w) ==
    /\ pc[w] = "resource"
    /\ ~Rejects(draft[w])
    /\ resources' = [resources EXCEPT ![draft[w].name] = ResourceFor(draft[w])]
    /\ pc' = [pc EXCEPT ![w] = "task"]
    /\ UNCHANGED <<tasks, history, mutex, draft, cancelled, answer, seen>>

StoreTask(w) ==
    /\ pc[w] = "task"
    /\ tasks' = [tasks EXCEPT ![draft[w].id] = StoredTask(draft[w])]
    /\ pc' = [pc EXCEPT ![w] = "history"]
    /\ UNCHANGED <<resources, history, mutex, draft, cancelled, answer, seen>>

(* The last map, the copy that is returned and the deferred Unlock.         *)
StoreHistory(w) ==
    /\ pc[w] = "history"
    /\ history' = [history EXCEPT ![draft[w].id] = draft[w].history]
    /\ answer' = [answer EXCEPT ![w] = tasks[draft[w].id]]
    /\ writer' = NoCaller
    /\ pc' = [pc EXCEPT ![w] = "done"]
    /\ UNCHANGED <<resources, tasks, readers, draft, cancelled, seen>>

CreateTask(w) ==
    \/ CreateEnter(w) \/ Lock(w) \/ Refuse(w)
    \/ StoreResource(w) \/ StoreTask(w) \/ StoreHistory(w)

-----------------------------------------------------------------------------
(* Task, then History for the task that was found.                          *)

TaskEnter(r) ==
    /\ pc[r] = "start"
    /\ pc' = [pc EXCEPT ![r] = IF cancelled[r] THEN "failed" ELSE "taskLock"]
    /\ UNCHANGED <<maps, mutex, draft, cancelled, answer, seen>>

AfterRLock(s) == IF s = "taskLock" THEN "taskRead" ELSE "historyRead"

(* Seeded fault: the read methods do not take the mutex.                    *)
RLockMissing(r) ==
    /\ pc[r] \in {"taskLock", "historyLock"}
    /\ pc' = [pc EXCEPT ![r] = AfterRLock(pc[r])]
    /\ UNCHANGED <<maps, mutex, draft, cancelled, answer, seen>>

RLock(r) ==
    /\ pc[r] \in {"taskLock", "historyLock"}
    /\ writer = NoCaller
    /\ readers' = readers \cup {r}
    /\ pc' = [pc EXCEPT ![r] = AfterRLock(pc[r])]
    /\ UNCHANGED <<maps, writer, draft, cancelled, answer, seen>>

TaskRead(r) ==
    /\ pc[r] = "taskRead"
    /\ answer' = [answer EXCEPT ![r] = tasks[Wanted[r]]]
    /\ readers' = readers \ {r}
    /\ pc' = [pc EXCEPT ![r] =
                IF tasks[Wanted[r]] = NoTask THEN "failed" ELSE "historyLock"]
    /\ UNCHANGED <<maps, writer, draft, cancelled, seen>>

HistoryRead(r) ==
    /\ pc[r] = "historyRead"
    /\ seen' = [seen EXCEPT ![r] = history[Wanted[r]]]
    /\ readers' = readers \ {r}
    /\ pc' = [pc EXCEPT ![r] = "done"]
    /\ UNCHANGED <<maps, writer, draft, cancelled, answer>>

Read(r) == TaskEnter(r) \/ RLock(r) \/ TaskRead(r) \/ HistoryRead(r)

-----------------------------------------------------------------------------
(* The caller's context ends; only a call that has not begun notices.       *)
Cancel(c) ==
    /\ pc[c] \notin Final
    /\ ~cancelled[c]
    /\ cancelled' = [cancelled EXCEPT ![c] = TRUE]
    /\ UNCHANGED <<maps, mutex, pc, draft, answer, seen>>

Step(c) == (c \in Writers /\ CreateTask(c)) \/ (c \in Readers /\ Read(c))

Terminated == (\A c \in Callers : pc[c] \in Final) /\ UNCHANGED vars

Next == (\E c \in Callers : Step(c) \/ Cancel(c)) \/ Terminated

Spec == Init /\ [][Next]_vars

(* A goroutine runs, and gets a mutex that is free.                         *)
Fairness == \A c \in Callers : WF_vars(Step(c))

FairSpec == Spec /\ Fairness

-----------------------------------------------------------------------------
(* Every variable has its type and the mutex is held in one way at a time.  *)
TypeOK ==
    /\ resources \in [Names -> Resource \cup {NoResource}]
    /\ tasks \in [TaskIDs -> Task \cup {NoTask}]
    /\ history \in [TaskIDs -> HistoryEntry \cup {NoEntry}]
    /\ writer \in Writers \cup {NoCaller}
    /\ readers \in SUBSET Readers
    /\ writer = NoCaller \/ readers = {}
    /\ pc \in [Callers -> Final \cup {"start", "lock", "resource", "task",
                 "history", "taskLock", "taskRead", "historyLock", "historyRead"}]
    /\ draft \in [Writers -> Draft \cup {NoDraft}]
    /\ cancelled \in [Callers -> BOOLEAN]
    /\ answer \in [Callers -> Task \cup {NoTask}]
    /\ seen \in [Readers -> HistoryEntry \cup {NoEntry}]

(* Whoever found a task with Task finds its history complete with History:  *)
(* CreateTask's three map writes are one for the readers, and validateDraft *)
(* lets no other first entry through.                                       *)
HistoryOfTask ==
    \A r \in Readers : pc[r] = "done" =>
        seen[r] = [sequence |-> 1, status |-> answer[r].status,
                   occurredAt |-> answer[r].createdAt]

(* Outside a CreateTask, a resource shows the material of a task that is    *)
(* stored: no refused CreateTask has onboarded or refreshed anything.       *)
ResourceBacked ==
    writer = NoCaller =>
        \A n \in Names : resources[n] # NoResource =>
            \E i \in TaskIDs :
                /\ tasks[i] # NoTask
                /\ tasks[i].name = n
                /\ tasks[i].resource = resources[n].id
                /\ tasks[i].material = resources[n].material
                /\ tasks[i].createdAt = resources[n].updatedAt

(* Every call returns, whichever calls it meets at the mutex.               *)
Returns == <>(\A c \in Callers : pc[c] \in Final)

-----------------------------------------------------------------------------
(* The store keeps the promises of TaskStore.  A CreateTask takes effect    *)
(* when it stores its task; until then the resource it may have added       *)
(* belongs to no task.                                                      *)
Binding == [id : ResourceIDs, name : Names,
            connector : Connectors, identity : Identities]

BindingOf(r) == [id |-> r.id, name |-> r.name,
                 connector |-> r.connector, identity |-> r.identity]

StoredTasks == {tasks[i] : i \in TaskIDs} \ {NoTask}

WithTasks == {n \in Names : \E k \in StoredTasks : k.name = n}

TS == INSTANCE TaskStore WITH
        tasks    <- StoredTasks,
        bindings <- {BindingOf(resources[n]) : n \in WithTasks},
        printed  <- {answer[c] : c \in Callers} \ {NoTask}

Contract == TS!Spec
=============================================================================
