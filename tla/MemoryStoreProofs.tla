------------------------- MODULE MemoryStoreProofs -------------------------
(***************************************************************************)
(* The memory store for any number of goroutines, tasks and names: readers  *)
(* see a task with its history, refused drafts leave no trace, and the      *)
(* store implements TaskStore.                                              *)
(***************************************************************************)
EXTENDS MemoryStore, TLAPS

Locked == {"resource", "task", "history"}
Reading == {"taskRead", "historyRead"}

(* Who is between lock and unlock holds the mutex, and a writer's draft has *)
(* been validated before it waits for it.                                   *)
Held ==
    /\ \A w \in Writers :
         /\ pc[w] \in Final \cup {"start", "lock"} \cup Locked
         /\ pc[w] \in Locked => writer = w
         /\ pc[w] \in {"lock"} \cup Locked => draft[w] \in Offers[w] /\ Valid(draft[w])
    /\ \A r \in Readers :
         /\ pc[r] \in Final \cup {"start", "taskLock", "historyLock"} \cup Reading
         /\ pc[r] \in Reading => r \in readers
    /\ writer # NoCaller => pc[writer] \in Locked

(* The maps' keys are the fields they stand for, ids and upstream           *)
(* identities belong to one name, and every task resolves.                  *)
FromCandidate(n) ==
    \E v \in Writers : \E d \in Offers[v] :
        d.candidate = resources[n].id /\ d.name = n

Keyed ==
    /\ \A n \in Names : resources[n] # NoResource =>
         resources[n].name = n /\ FromCandidate(n)
    /\ \A m, n \in Names :
         /\ resources[m] # NoResource /\ resources[n] # NoResource
         /\ resources[m].connector = resources[n].connector
         /\ resources[m].identity = resources[n].identity
         => m = n
    /\ \A i \in TaskIDs : tasks[i] # NoTask =>
         /\ tasks[i].id = i
         /\ resources[tasks[i].name] # NoResource
         /\ resources[tasks[i].name].id = tasks[i].resource
         /\ resources[tasks[i].name].connector = tasks[i].connector

(* How far the writer inside the mutex has come.                            *)
Refreshed(d) ==
    /\ resources[d.name] # NoResource
    /\ resources[d.name].connector = d.connector
    /\ resources[d.name].identity = d.identity
    /\ resources[d.name].material = d.material
    /\ resources[d.name].updatedAt = d.createdAt

Written ==
    \A w \in Writers :
        /\ pc[w] = "task" => tasks[draft[w].id] = NoTask /\ Refreshed(draft[w])
        /\ pc[w] = "history" =>
             tasks[draft[w].id] # NoTask /\ tasks[draft[w].id] = StoredTask(draft[w])

(* The history of a stored task is there, except while its writer is about  *)
(* to store it.                                                             *)
Expected(k) ==
    [sequence |-> 1, status |-> k.status, occurredAt |-> k.createdAt]

Complete ==
    \A i \in TaskIDs : tasks[i] # NoTask =>
        \/ history[i] = Expected(tasks[i])
        \/ \E w \in Writers : pc[w] = "history" /\ draft[w].id = i

(* A resource shows the material of a stored task, except while a writer is *)
(* about to store that task.                                                *)
Backing(n) ==
    \E i \in TaskIDs :
        /\ tasks[i] # NoTask
        /\ tasks[i].name = n
        /\ tasks[i].resource = resources[n].id
        /\ tasks[i].material = resources[n].material
        /\ tasks[i].createdAt = resources[n].updatedAt

Backed ==
    \A n \in Names : resources[n] # NoResource =>
        \/ Backing(n)
        \/ \E w \in Writers : pc[w] = "task" /\ draft[w].name = n

(* What has been returned is stored, and a reader's task has its history.   *)
Unanswered == {"start", "lock", "taskLock", "taskRead"} \cup Locked

Returned ==
    /\ \A c \in Callers : answer[c] # NoTask =>
         answer[c] \in StoredTasks /\ pc[c] \notin Unanswered
    /\ \A r \in Readers :
         /\ pc[r] \in {"historyLock", "historyRead", "done"} =>
              /\ answer[r] # NoTask
              /\ answer[r] = tasks[Wanted[r]]
              /\ history[Wanted[r]] = Expected(answer[r])
         /\ pc[r] = "done" => seen[r] = Expected(answer[r])

Inv == TypeOK /\ Held /\ Keyed /\ Written /\ Complete /\ Backed /\ Returned

-----------------------------------------------------------------------------
(* A fresh store satisfies the invariant.                                   *)
LEMMA MemoryInit == Init => Inv
<1> SUFFICES ASSUME Init PROVE Inv
  OBVIOUS
<1>1. TypeOK
  BY DEF Init, TypeOK, Final
<1>2. Held
  BY DEF Init, Held, Final, Locked, Reading, Callers
<1>3. Keyed /\ Complete /\ Backed
  BY DEF Init, Keyed, Complete, Backed
<1>4. Written
  BY DEF Init, Written, Callers
<1>5. Returned
  BY DEF Init, Returned, Callers
<1> QED
  BY <1>1, <1>2, <1>3, <1>4, <1>5 DEF Inv

(* Only one writer is inside the mutex, and no reader with it.              *)
LEMMA Exclusive ==
    ASSUME Inv, NEW w \in Writers, pc[w] \in Locked
    PROVE  /\ writer = w /\ readers = {} /\ w # NoCaller
           /\ \A v \in Writers : pc[v] \in Locked => v = w
           /\ \A r \in Readers : pc[r] \notin Reading
<1>1. writer = w /\ w # NoCaller
  BY MemoryAssumption DEF Inv, Held, Callers
<1>2. readers = {}
  BY <1>1 DEF Inv, TypeOK
<1> QED
  BY <1>1, <1>2 DEF Inv, Held

(* The draft of a writer past validation, and what is made of it, is typed. *)
LEMMA DraftTyped ==
    ASSUME Inv, NEW w \in Writers, pc[w] \in {"lock"} \cup Locked
    PROVE  /\ draft[w] \in Draft /\ draft[w] \in Offers[w]
           /\ draft[w].id \in TaskIDs /\ draft[w].name \in Names
           /\ draft[w].history \in HistoryEntry
           /\ draft[w].history = [sequence |-> 1, status |-> draft[w].status,
                                  occurredAt |-> draft[w].createdAt]
<1>1. draft[w] \in Offers[w] /\ Valid(draft[w])
  BY DEF Inv, Held
<1>2. draft[w] \in Draft
  BY <1>1, MemoryAssumption
<1>3. draft[w].history \in HistoryEntry
  BY <1>2 DEF Draft
<1>4. draft[w].history = [sequence |-> 1, status |-> draft[w].status,
                          occurredAt |-> draft[w].createdAt]
  BY <1>1, <1>3 DEF Valid, HistoryEntry
<1> QED
  BY <1>1, <1>2, <1>3, <1>4 DEF Draft

-----------------------------------------------------------------------------
(* Steps that leave the three maps, the drafts and the answers alone.       *)

(* CreateTask is entered: a draft is chosen and validated.                  *)
LEMMA CreateEnterInv ==
    ASSUME Inv, NEW w \in Writers, CreateEnter(w)
    PROVE  Inv'
<1>1. PICK d \in Offers[w] :
        /\ draft' = [draft EXCEPT ![w] = d]
        /\ pc' = [pc EXCEPT ![w] =
                    IF cancelled[w] \/ ~Valid(d) THEN "failed" ELSE "lock"]
  BY DEF CreateEnter
<1>2. d \in Draft /\ w \in Callers /\ w \notin Readers /\ pc[w] = "start"
  BY MemoryAssumption DEF CreateEnter, Callers
<1>3. UNCHANGED <<maps, mutex, cancelled, answer, seen>>
  BY DEF CreateEnter
<1>4. pc'[w] \in {"failed", "lock"} /\ draft'[w] = d
      /\ (pc'[w] = "lock" => Valid(d))
  BY <1>1, <1>2 DEF Inv, TypeOK
<1>5. \A c \in Callers \ {w} : pc'[c] = pc[c]
  BY <1>1 DEF Inv, TypeOK
<1>6. \A v \in Writers \ {w} : draft'[v] = draft[v]
  BY <1>1 DEF Inv, TypeOK
<1>7. TypeOK'
  BY <1>1, <1>2, <1>3 DEF Inv, TypeOK, maps, mutex, Final
<1>8. Held'
  BY <1>2, <1>3, <1>4, <1>5, <1>6, MemoryAssumption
  DEF Inv, Held, maps, mutex, Final, Locked, Reading, Callers, TypeOK, Valid
<1>9. Keyed'
  BY <1>3 DEF Inv, Keyed, FromCandidate, maps
<1>10. Written'
  BY <1>3, <1>4, <1>5, <1>6 DEF Inv, Written, Refreshed, StoredTask, maps, Callers
<1>11. Complete'
  BY <1>2, <1>3, <1>5, <1>6
     DEF Inv, Complete, Expected, maps, Callers, Unanswered, Locked
<1>12. Backed'
  BY <1>2, <1>3, <1>5, <1>6 DEF Inv, Backed, Backing, maps, Callers
<1>13. Returned'
  BY <1>2, <1>3, <1>5
     DEF Inv, Returned, StoredTasks, Expected, maps, Callers, Unanswered, Locked
<1> QED
  BY <1>7, <1>8, <1>9, <1>10, <1>11, <1>12, <1>13 DEF Inv

(* Moving on without touching maps, drafts or answers disturbs only who     *)
(* holds the mutex.                                                         *)
LEMMA MoveKeeps ==
    ASSUME Inv, NEW c \in Callers, NEW s,
           pc' = [pc EXCEPT ![c] = s],
           UNCHANGED <<maps, draft, answer, seen>>,
           pc[c] \notin {"task", "history"}, s \notin {"task", "history"},
           pc[c] \in Unanswered \/ s \notin Unanswered,
           c \in Readers =>
             \/ s \notin {"historyLock", "historyRead", "done"}
             \/ pc[c] = "historyLock" /\ s = "historyRead"
    PROVE  Keyed' /\ Written' /\ Complete' /\ Backed' /\ Returned'
<1>1. pc'[c] = s /\ \A b \in Callers \ {c} : pc'[b] = pc[b]
  BY DEF Inv, TypeOK
<1>2. Keyed'
  BY DEF Inv, Keyed, FromCandidate, maps
<1>3. Written'
  BY <1>1 DEF Inv, Written, Refreshed, StoredTask, maps, Callers
<1>4. Complete'
  BY <1>1 DEF Inv, Complete, Expected, maps, Callers, Unanswered, Locked
<1>5. Backed'
  BY <1>1 DEF Inv, Backed, Backing, maps, Callers
<1>6. Returned'
  BY <1>1 DEF Inv, Returned, StoredTasks, Expected, maps, Callers, Unanswered, Locked
<1> QED
  BY <1>2, <1>3, <1>4, <1>5, <1>6

(* A writer gets the mutex.                                                 *)
LEMMA LockInv ==
    ASSUME Inv, NEW w \in Writers, Lock(w)
    PROVE  Inv'
<1>1. w \in Callers /\ w \notin Readers /\ w # NoCaller
  BY MemoryAssumption DEF Callers
<1>2. Keyed' /\ Written' /\ Complete' /\ Backed' /\ Returned'
  BY <1>1, MoveKeeps DEF Lock, Unanswered
<1>3. TypeOK'
  BY <1>1 DEF Lock, Inv, TypeOK, maps
<1>4. \A v \in Writers : pc[v] \notin Locked
  BY MemoryAssumption DEF Lock, Inv, Held, Callers
<1>5. \A r \in Readers : pc[r] \notin Reading
  BY DEF Lock, Inv, Held
<1>6. /\ pc'[w] = "resource" /\ pc[w] = "lock" /\ writer' = w
      /\ \A b \in Callers \ {w} : pc'[b] = pc[b]
      /\ draft' = draft
  BY <1>1 DEF Lock, Inv, TypeOK
<1>7. \A r \in Readers : pc'[r] = pc[r]
  BY <1>1, <1>6 DEF Callers
<1>8. Held'
  BY <1>4, <1>5, <1>6, <1>7 DEF Inv, Held, Locked, Callers, Valid
<1> QED
  BY <1>2, <1>3, <1>8 DEF Inv

(* CreateTask refuses its draft under the lock.                             *)
LEMMA RefuseInv ==
    ASSUME Inv, NEW w \in Writers, Refuse(w)
    PROVE  Inv'
<1>1. w \in Callers /\ w \notin Readers /\ pc[w] = "resource"
  BY MemoryAssumption DEF Refuse, Callers
<1>2. Keyed' /\ Written' /\ Complete' /\ Backed' /\ Returned'
  BY <1>1, MoveKeeps DEF Refuse, Unanswered, Locked
<1>3. TypeOK'
  BY <1>1 DEF Refuse, Inv, TypeOK, maps, Final
<1>4. \A v \in Writers : pc[v] \in Locked => v = w
  BY <1>1, Exclusive DEF Locked
<1>5. /\ pc'[w] = "failed" /\ writer' = NoCaller
      /\ readers' = readers /\ draft' = draft
      /\ \A b \in Callers \ {w} : pc'[b] = pc[b]
  BY <1>1 DEF Refuse, Inv, TypeOK
<1>6. Held'
  BY <1>1, <1>4, <1>5 DEF Inv, Held, Locked, Final, Callers, Valid
<1> QED
  BY <1>2, <1>3, <1>6 DEF Inv

(* Task is entered.                                                         *)
LEMMA TaskEnterInv ==
    ASSUME Inv, NEW r \in Readers, TaskEnter(r)
    PROVE  Inv'
<1>1. r \in Callers /\ r \notin Writers /\ pc[r] = "start"
  BY MemoryAssumption DEF TaskEnter, Callers
<1>2. PICK s \in {"failed", "taskLock"} : pc' = [pc EXCEPT ![r] = s]
  BY DEF TaskEnter
<1>3. Keyed' /\ Written' /\ Complete' /\ Backed' /\ Returned'
  BY <1>1, <1>2, MoveKeeps DEF TaskEnter, Unanswered
<1>4. TypeOK'
  BY <1>1, <1>2 DEF TaskEnter, Inv, TypeOK, maps, mutex, Final
<1>5. /\ pc'[r] = s /\ UNCHANGED <<writer, readers, draft>>
      /\ \A b \in Callers \ {r} : pc'[b] = pc[b]
  BY <1>1, <1>2 DEF TaskEnter, Inv, TypeOK, mutex
<1>6. writer # NoCaller => writer \in Writers
  BY DEF Inv, TypeOK
<1>7. Held'
  BY <1>1, <1>2, <1>5, <1>6 DEF Inv, Held, Locked, Reading, Final, Callers, Valid
<1> QED
  BY <1>3, <1>4, <1>7 DEF Inv

(* A reader gets the mutex, for Task or for History.                        *)
LEMMA RLockInv ==
    ASSUME Inv, NEW r \in Readers, RLock(r)
    PROVE  Inv'
<1>1. r \in Callers /\ r \notin Writers
  BY MemoryAssumption DEF Callers
<1>2. PICK s : /\ pc' = [pc EXCEPT ![r] = s]
               /\ \/ pc[r] = "taskLock" /\ s = "taskRead"
                  \/ pc[r] = "historyLock" /\ s = "historyRead"
  BY DEF RLock, AfterRLock
<1>3. Keyed' /\ Written' /\ Complete' /\ Backed' /\ Returned'
  BY <1>1, <1>2, MoveKeeps DEF RLock, Unanswered, Locked
<1>4. TypeOK'
  BY <1>1, <1>2 DEF RLock, Inv, TypeOK, maps
<1>5. /\ pc'[r] = s /\ writer = NoCaller /\ UNCHANGED <<writer, draft>>
      /\ readers' = readers \cup {r}
      /\ \A b \in Callers \ {r} : pc'[b] = pc[b]
  BY <1>1, <1>2 DEF RLock, Inv, TypeOK
<1>6. Held'
  BY <1>1, <1>2, <1>5 DEF Inv, Held, Locked, Reading, Callers, Valid
<1> QED
  BY <1>3, <1>4, <1>6 DEF Inv

(* A context ends.                                                          *)
LEMMA CancelInv ==
    ASSUME Inv, NEW c \in Callers, Cancel(c)
    PROVE  Inv'
<1>1. TypeOK'
  BY DEF Cancel, Inv, TypeOK, maps, mutex
<1>2. Held'
  BY DEF Cancel, Inv, Held, mutex, Valid
<1>3. Keyed' /\ Written'
  BY DEF Cancel, Inv, Keyed, FromCandidate, Written, Refreshed, StoredTask, maps
<1>4. Complete' /\ Backed' /\ Returned'
  BY DEF Cancel, Inv, Complete, Backed, Backing, Returned, StoredTasks, Expected, maps
<1> QED
  BY <1>1, <1>2, <1>3, <1>4 DEF Inv

-----------------------------------------------------------------------------
(* Reads.                                                                   *)

(* While somebody reads, no writer is inside the mutex.                     *)
LEMMA ReadersExclusive ==
    ASSUME Inv, NEW r \in Readers, pc[r] \in Reading
    PROVE  writer = NoCaller /\ \A w \in Writers : pc[w] \notin Locked
<1>1. writer = NoCaller
  BY DEF Inv, Held, TypeOK
<1> QED
  BY <1>1, MemoryAssumption DEF Inv, Held, Callers

(* A read that releases the mutex keeps who holds what.                     *)
LEMMA ReadHeld ==
    ASSUME Inv, NEW r \in Readers, pc[r] \in Reading,
           NEW s \in {"failed", "done", "historyLock"},
           pc' = [pc EXCEPT ![r] = s], readers' = readers \ {r},
           UNCHANGED <<writer, draft>>
    PROVE  Held'
<1>1. r \in Callers /\ r \notin Writers
  BY MemoryAssumption DEF Callers
<1>2. pc'[r] = s /\ \A b \in Callers \ {r} : pc'[b] = pc[b]
  BY <1>1 DEF Inv, TypeOK
<1>3. writer = NoCaller
  BY ReadersExclusive
<1> QED
  BY <1>1, <1>2, <1>3 DEF Inv, Held, Locked, Reading, Final, Callers, Valid

(* Task returns a task, or none.                                            *)
LEMMA TaskReadInv ==
    ASSUME Inv, NEW r \in Readers, TaskRead(r)
    PROVE  Inv'
<1>1. r \in Callers /\ r \notin Writers /\ pc[r] = "taskRead" /\ pc[r] \in Reading
      /\ Wanted[r] \in TaskIDs
  BY MemoryAssumption DEF TaskRead, Callers, Reading
<1> DEFINE s == IF tasks[Wanted[r]] = NoTask THEN "failed" ELSE "historyLock"
<1>2. /\ pc' = [pc EXCEPT ![r] = s] /\ readers' = readers \ {r}
      /\ answer' = [answer EXCEPT ![r] = tasks[Wanted[r]]]
      /\ UNCHANGED <<maps, writer, draft, cancelled, seen>>
  BY DEF TaskRead
<1>3. /\ pc'[r] = s /\ answer'[r] = tasks[Wanted[r]]
      /\ \A b \in Callers \ {r} : pc'[b] = pc[b] /\ answer'[b] = answer[b]
  BY <1>1, <1>2 DEF Inv, TypeOK
<1>4. \A w \in Writers : pc[w] \notin Locked
  BY <1>1, ReadersExclusive
<1>5. TypeOK'
  <2>1. tasks[Wanted[r]] \in Task \cup {NoTask}
    BY <1>1 DEF Inv, TypeOK
  <2> QED
    BY <1>1, <1>2, <2>1 DEF Inv, TypeOK, maps, Final
<1>6. Held'
  <2>1. s \in {"failed", "done", "historyLock"}
    OBVIOUS
  <2> HIDE DEF s
  <2> QED
    BY <1>1, <1>2, <2>1, ReadHeld
<1>7. Keyed'
  BY <1>2 DEF Inv, Keyed, FromCandidate, maps
<1>8. Written' /\ Complete' /\ Backed'
  BY <1>1, <1>2, <1>3
  DEF Inv, Written, Refreshed, StoredTask, Complete, Expected, Backed, Backing, maps, Callers
<1>9. Returned'
  <2>1. StoredTasks' = StoredTasks
    BY <1>2 DEF StoredTasks, maps
  <2>2. tasks[Wanted[r]] # NoTask => history[Wanted[r]] = Expected(tasks[Wanted[r]])
    BY <1>1, <1>4 DEF Inv, Complete, Locked
  <2>3. tasks[Wanted[r]] # NoTask => tasks[Wanted[r]] \in StoredTasks
    BY <1>1 DEF StoredTasks
  <2> QED
    BY <1>1, <1>2, <1>3, <2>1, <2>2, <2>3
       DEF Inv, Returned, Expected, maps, Callers, Unanswered, Locked
<1> QED
  BY <1>5, <1>6, <1>7, <1>8, <1>9 DEF Inv

(* History returns what belongs to the task that was read before.           *)
LEMMA HistoryReadInv ==
    ASSUME Inv, NEW r \in Readers, HistoryRead(r)
    PROVE  Inv'
<1>1. r \in Callers /\ r \notin Writers /\ pc[r] = "historyRead" /\ pc[r] \in Reading
      /\ Wanted[r] \in TaskIDs
  BY MemoryAssumption DEF HistoryRead, Callers, Reading
<1>2. /\ pc' = [pc EXCEPT ![r] = "done"] /\ readers' = readers \ {r}
      /\ seen' = [seen EXCEPT ![r] = history[Wanted[r]]]
      /\ UNCHANGED <<maps, writer, draft, cancelled, answer>>
  BY DEF HistoryRead
<1>3. /\ pc'[r] = "done" /\ seen'[r] = history[Wanted[r]]
      /\ \A b \in Callers \ {r} : pc'[b] = pc[b]
      /\ \A b \in Readers \ {r} : seen'[b] = seen[b]
  BY <1>1, <1>2 DEF Inv, TypeOK
<1>4. TypeOK'
  <2>1. history[Wanted[r]] \in HistoryEntry \cup {NoEntry}
    BY <1>1 DEF Inv, TypeOK
  <2> QED
    BY <1>1, <1>2, <2>1 DEF Inv, TypeOK, maps, Final
<1>5. Held'
  BY <1>1, <1>2, ReadHeld
<1>6. Keyed'
  BY <1>2 DEF Inv, Keyed, FromCandidate, maps
<1>7. Written' /\ Complete' /\ Backed'
  BY <1>1, <1>2, <1>3
  DEF Inv, Written, Refreshed, StoredTask, Complete, Expected, Backed, Backing, maps, Callers
<1>8. Returned'
  BY <1>1, <1>2, <1>3
     DEF Inv, Returned, StoredTasks, Expected, maps, Callers, Unanswered, Locked
<1> QED
  BY <1>4, <1>5, <1>6, <1>7, <1>8 DEF Inv

-----------------------------------------------------------------------------
(* The three writes of CreateTask.                                          *)

(* The resource entry a draft leads to: its binding is the stored one, or   *)
(* shares nothing with any stored one.                                      *)
LEMMA ResourceForFits ==
    ASSUME Inv, NEW w \in Writers, pc[w] = "resource", ~Rejects(draft[w])
    PROVE  LET d == draft[w]
               x == ResourceFor(d)
           IN  /\ x \in Resource
               /\ x.name = d.name /\ x.connector = d.connector
               /\ x.identity = d.identity /\ x.material = d.material
               /\ x.updatedAt = d.createdAt
               /\ \E v \in Writers : \E e \in Offers[v] :
                    e.candidate = x.id /\ e.name = d.name
               /\ resources[d.name] # NoResource =>
                    BindingOf(resources[d.name]) = BindingOf(x)
<1> DEFINE d == draft[w]
           x == ResourceFor(d)
<1>1. d \in Draft /\ d \in Offers[w] /\ d.name \in Names
  BY DraftTyped DEF Locked
<1>2. CASE resources[d.name] = NoResource
  <2>1. x = [id |-> d.candidate, name |-> d.name, connector |-> d.connector,
             identity |-> d.identity, material |-> d.material,
             onboardedAt |-> d.createdAt, updatedAt |-> d.createdAt]
    BY <1>2 DEF ResourceFor
  <2>2. x \in Resource
    BY <1>1, <2>1 DEF Draft, Resource
  <2> QED
    BY <1>1, <1>2, <2>1, <2>2
<1>3. CASE resources[d.name] # NoResource
  <2> DEFINE old == resources[d.name]
  <2>1. old \in Resource /\ old.name = d.name /\ FromCandidate(d.name)
    BY <1>1, <1>3 DEF Inv, TypeOK, Keyed
  <2>2. old.connector = d.connector /\ old.identity = d.identity
    BY <1>3 DEF Rejects, BoundOtherwise
  <2>3. x = [old EXCEPT !.material = d.material, !.updatedAt = d.createdAt]
    BY <1>3 DEF ResourceFor
  <2>4. /\ x \in Resource /\ x.id = old.id /\ x.name = old.name
        /\ x.connector = old.connector /\ x.identity = old.identity
        /\ x.material = d.material /\ x.updatedAt = d.createdAt
    BY <1>1, <2>1, <2>3 DEF Draft, Resource
  <2>5. \E v \in Writers : \E e \in Offers[v] :
          e.candidate = x.id /\ e.name = d.name
    BY <2>1, <2>4 DEF FromCandidate
  <2>6. BindingOf(old) = BindingOf(x)
    BY <2>4 DEF BindingOf
  <2> QED
    BY <2>1, <2>2, <2>4, <2>5, <2>6
<1> QED
  BY <1>2, <1>3

(* The resource is stored, before any task of it need exist.                *)
LEMMA StoreResourceInv ==
    ASSUME Inv, NEW w \in Writers, StoreResource(w)
    PROVE  Inv'
<1> DEFINE d == draft[w]
           x == ResourceFor(d)
<1>1. /\ w \in Callers /\ w \notin Readers /\ w # NoCaller
      /\ pc[w] = "resource" /\ pc[w] \in Locked /\ ~Rejects(d)
  BY MemoryAssumption DEF StoreResource, Callers, Locked
<1>2. d \in Offers[w] /\ d.id \in TaskIDs /\ d.name \in Names
  BY <1>1, DraftTyped
<1>3. /\ x \in Resource
      /\ x.name = d.name /\ x.connector = d.connector
      /\ x.identity = d.identity /\ x.material = d.material
      /\ x.updatedAt = d.createdAt
      /\ \E v \in Writers : \E e \in Offers[v] :
           e.candidate = x.id /\ e.name = d.name
      /\ resources[d.name] # NoResource =>
           BindingOf(resources[d.name]) = BindingOf(x)
  BY <1>1, ResourceForFits
<1>4. /\ resources' = [resources EXCEPT ![d.name] = x]
      /\ pc' = [pc EXCEPT ![w] = "task"]
      /\ UNCHANGED <<tasks, history, mutex, draft, cancelled, answer, seen>>
  BY DEF StoreResource
<1> HIDE DEF x
<1>5. /\ resources'[d.name] = x
      /\ \A n \in Names \ {d.name} : resources'[n] = resources[n]
      /\ pc'[w] = "task" /\ \A b \in Callers \ {w} : pc'[b] = pc[b]
  BY <1>1, <1>2, <1>4 DEF Inv, TypeOK
<1>6. /\ writer = w /\ readers = {}
      /\ \A v \in Writers : pc[v] \in Locked => v = w
      /\ x # NoResource
  BY <1>1, <1>3, Exclusive, MemoryAssumption
<1>7. TypeOK'
  BY <1>1, <1>2, <1>3, <1>4 DEF Inv, TypeOK, mutex
<1>8. Held'
  BY <1>1, <1>4, <1>5, <1>6 DEF Inv, Held, mutex, Locked, Callers, Valid
<1>9. Keyed'
  <2>1. \A n \in Names : resources'[n] # NoResource =>
          resources'[n].name = n /\ FromCandidate(n)'
    <3> SUFFICES ASSUME NEW n \in Names, resources'[n] # NoResource
                 PROVE  resources'[n].name = n /\ FromCandidate(n)'
      OBVIOUS
    <3>1. CASE n = d.name
      BY <1>3, <1>5, <3>1 DEF FromCandidate
    <3>2. CASE n # d.name
      BY <1>5, <3>2 DEF Inv, Keyed, FromCandidate
    <3> QED
      BY <3>1, <3>2
  <2>2. \A n \in Names \ {d.name} : resources[n] # NoResource =>
          ~(resources[n].connector = d.connector /\ resources[n].identity = d.identity)
    BY <1>1 DEF Rejects, OwnedElsewhere
  <2>3. \A m, n \in Names :
          /\ resources'[m] # NoResource /\ resources'[n] # NoResource
          /\ resources'[m].connector = resources'[n].connector
          /\ resources'[m].identity = resources'[n].identity
          => m = n
    BY <1>2, <1>3, <1>5, <2>2 DEF Inv, Keyed
  <2>4. \A i \in TaskIDs : tasks'[i] # NoTask =>
          /\ tasks'[i].id = i
          /\ resources'[tasks'[i].name] # NoResource
          /\ resources'[tasks'[i].name].id = tasks'[i].resource
          /\ resources'[tasks'[i].name].connector = tasks'[i].connector
    <3> SUFFICES ASSUME NEW i \in TaskIDs, tasks[i] # NoTask
                 PROVE  /\ tasks[i].id = i
                        /\ resources'[tasks[i].name] # NoResource
                        /\ resources'[tasks[i].name].id = tasks[i].resource
                        /\ resources'[tasks[i].name].connector = tasks[i].connector
      BY <1>4
    <3>1. /\ tasks[i].id = i /\ tasks[i].name \in Names
          /\ resources[tasks[i].name] # NoResource
          /\ resources[tasks[i].name].id = tasks[i].resource
          /\ resources[tasks[i].name].connector = tasks[i].connector
      BY DEF Inv, Keyed, TypeOK, Task
    <3>2. CASE tasks[i].name = d.name
      <4>1. BindingOf(resources[d.name]) = BindingOf(x)
        BY <1>3, <3>1, <3>2
      <4>2. resources[d.name].id = x.id /\ resources[d.name].connector = x.connector
        BY <4>1 DEF BindingOf
      <4> QED
        BY <1>5, <1>6, <3>1, <3>2, <4>2
    <3>3. CASE tasks[i].name # d.name
      BY <1>5, <3>1, <3>3
    <3> QED
      BY <3>2, <3>3
  <2> QED
    BY <2>1, <2>3, <2>4 DEF Keyed
<1>10. Written'
  <2>1. tasks'[draft'[w].id] = NoTask
    BY <1>1, <1>4 DEF Rejects
  <2>2. Refreshed(draft[w])'
    BY <1>3, <1>4, <1>5, <1>6 DEF Refreshed
  <2> QED
    BY <1>4, <1>5, <1>6, <2>1, <2>2 DEF Written, Locked, Callers
<1>11. Complete'
  BY <1>1, <1>4, <1>5 DEF Inv, Complete, Expected, Callers
<1>12. Backed'
  <2> SUFFICES ASSUME NEW n \in Names, resources'[n] # NoResource, n # d.name
               PROVE  Backing(n)'
    BY <1>4, <1>5 DEF Backed
  <2>1. Backing(n)
    BY <1>1, <1>5, <1>6 DEF Inv, Backed, Locked
  <2> QED
    BY <1>4, <1>5, <2>1 DEF Backing
<1>13. Returned'
  BY <1>1, <1>4, <1>5
     DEF Inv, Returned, StoredTasks, Expected, Callers, Unanswered, Locked
<1> QED
  BY <1>7, <1>8, <1>9, <1>10, <1>11, <1>12, <1>13 DEF Inv

(* The task is stored.  Its id was free, so no task is overwritten.         *)
LEMMA StoreTaskInv ==
    ASSUME Inv, NEW w \in Writers, StoreTask(w)
    PROVE  Inv'
<1> DEFINE d == draft[w]
           k == StoredTask(d)
<1>1. /\ w \in Callers /\ w \notin Readers /\ w # NoCaller
      /\ pc[w] = "task" /\ pc[w] \in Locked
  BY MemoryAssumption DEF StoreTask, Callers, Locked
<1>2. d \in Draft /\ d.id \in TaskIDs /\ d.name \in Names
  BY <1>1, DraftTyped
<1>3. tasks[d.id] = NoTask /\ Refreshed(d)
  BY <1>1 DEF Inv, Written
<1>4. /\ k \in Task /\ k # NoTask
      /\ k.id = d.id /\ k.name = d.name /\ k.connector = d.connector
      /\ k.resource = resources[d.name].id /\ k.material = d.material
      /\ k.createdAt = d.createdAt /\ k.status = d.status
  <2>1. resources[d.name] \in Resource
    BY <1>2, <1>3 DEF Inv, TypeOK, Refreshed
  <2>2. k \in Task
    BY <1>2, <2>1 DEF StoredTask, Draft, Resource, Task
  <2>3. resources[d.name].name = d.name
    BY <1>2, <1>3 DEF Inv, Keyed, Refreshed
  <2> QED
    BY <1>3, <2>2, <2>3, MemoryAssumption DEF StoredTask, Refreshed
<1>5. /\ tasks' = [tasks EXCEPT ![d.id] = k]
      /\ pc' = [pc EXCEPT ![w] = "history"]
      /\ UNCHANGED <<resources, history, mutex, draft, cancelled, answer, seen>>
  BY DEF StoreTask
<1>6. k' = k /\ d' = d
  BY <1>5 DEF StoredTask
<1> HIDE DEF k
<1>7. /\ tasks'[d.id] = k
      /\ \A i \in TaskIDs \ {d.id} : tasks'[i] = tasks[i]
      /\ pc'[w] = "history" /\ \A b \in Callers \ {w} : pc'[b] = pc[b]
  BY <1>1, <1>2, <1>5 DEF Inv, TypeOK
<1>8. \A v \in Writers : pc[v] \in Locked => v = w
  BY <1>1, Exclusive
<1>9. TypeOK'
  BY <1>1, <1>2, <1>4, <1>5 DEF Inv, TypeOK, mutex
<1>10. Held'
  BY <1>1, <1>5, <1>7 DEF Inv, Held, mutex, Locked, Callers, Valid
<1>11. Keyed'
  <2>1. \A i \in TaskIDs : tasks'[i] # NoTask =>
          /\ tasks'[i].id = i
          /\ resources[tasks'[i].name] # NoResource
          /\ resources[tasks'[i].name].id = tasks'[i].resource
          /\ resources[tasks'[i].name].connector = tasks'[i].connector
    BY <1>3, <1>4, <1>7 DEF Inv, Keyed, Refreshed
  <2> QED
    BY <1>5, <2>1 DEF Inv, Keyed, FromCandidate
<1>12. Written'
  BY <1>4, <1>5, <1>6, <1>7, <1>8 DEF Written, Locked, Callers, k
<1>13. Complete'
  <2> SUFFICES ASSUME NEW i \in TaskIDs, tasks'[i] # NoTask, i # d.id
               PROVE  history'[i] = Expected(tasks'[i])
    BY <1>5, <1>7 DEF Complete, Expected
  <2> QED
    BY <1>1, <1>5, <1>7, <1>8 DEF Inv, Complete, Locked, Expected
<1>14. Backed'
  <2> SUFFICES ASSUME NEW n \in Names, resources[n] # NoResource
               PROVE  Backing(n)'
    BY <1>5 DEF Backed
  <2>1. CASE Backing(n)
    <3>1. PICK i \in TaskIDs :
            /\ tasks[i] # NoTask
            /\ tasks[i].name = n
            /\ tasks[i].resource = resources[n].id
            /\ tasks[i].material = resources[n].material
            /\ tasks[i].createdAt = resources[n].updatedAt
      BY <2>1 DEF Backing
    <3>2. tasks'[i] = tasks[i] /\ resources' = resources
      BY <1>3, <1>5, <1>7, <3>1
    <3> QED
      BY <3>1, <3>2 DEF Backing
  <2>2. CASE n = d.name
    BY <1>2, <1>3, <1>4, <1>5, <1>7, <2>2 DEF Backing, Refreshed
  <2> QED
    BY <1>8, <2>1, <2>2 DEF Inv, Backed, Locked
<1>15. Returned'
  <2>1. \A j \in StoredTasks : j \in StoredTasks'
    BY <1>3, <1>7 DEF StoredTasks
  <2>2. \A r \in Readers : pc'[r] = pc[r]
    BY <1>1, <1>7 DEF Callers
  <2>3. \A r \in Readers : tasks[Wanted[r]] # NoTask =>
          tasks'[Wanted[r]] = tasks[Wanted[r]]
    BY <1>3, <1>7, MemoryAssumption
  <2> QED
    BY <1>1, <1>5, <1>7, <2>1, <2>2, <2>3
       DEF Inv, Returned, Expected, Unanswered, Locked
<1> QED
  BY <1>9, <1>10, <1>11, <1>12, <1>13, <1>14, <1>15 DEF Inv

(* The history is stored and the mutex released.                            *)
LEMMA StoreHistoryInv ==
    ASSUME Inv, NEW w \in Writers, StoreHistory(w)
    PROVE  Inv'
<1> DEFINE d == draft[w]
<1>1. /\ w \in Callers /\ w \notin Readers /\ w # NoCaller
      /\ pc[w] = "history" /\ pc[w] \in Locked
  BY MemoryAssumption DEF StoreHistory, Callers, Locked
<1>2. /\ d.id \in TaskIDs /\ d.history \in HistoryEntry
      /\ d.history = [sequence |-> 1, status |-> d.status, occurredAt |-> d.createdAt]
  BY <1>1, DraftTyped
<1>3. tasks[d.id] # NoTask /\ tasks[d.id] \in Task /\ d.history = Expected(tasks[d.id])
  <2>1. tasks[d.id] # NoTask /\ tasks[d.id] = StoredTask(d)
    BY <1>1 DEF Inv, Written
  <2> QED
    BY <1>2, <2>1 DEF Inv, TypeOK, StoredTask, Expected
<1>4. /\ history' = [history EXCEPT ![d.id] = d.history]
      /\ answer' = [answer EXCEPT ![w] = tasks[d.id]]
      /\ writer' = NoCaller /\ pc' = [pc EXCEPT ![w] = "done"]
      /\ UNCHANGED <<resources, tasks, readers, draft, cancelled, seen>>
  BY DEF StoreHistory
<1>5. /\ history'[d.id] = Expected(tasks[d.id])
      /\ \A i \in TaskIDs \ {d.id} : history'[i] = history[i]
      /\ answer'[w] = tasks[d.id] /\ pc'[w] = "done"
      /\ \A b \in Callers \ {w} : pc'[b] = pc[b] /\ answer'[b] = answer[b]
  BY <1>1, <1>2, <1>3, <1>4 DEF Inv, TypeOK
<1>6. \A v \in Writers : pc[v] \in Locked => v = w
  BY <1>1, Exclusive
<1>7. TypeOK'
  BY <1>1, <1>2, <1>3, <1>4 DEF Inv, TypeOK, Final
<1>8. Held'
  BY <1>1, <1>4, <1>5, <1>6 DEF Inv, Held, Locked, Final, Callers, Valid
<1>9. Keyed'
  BY <1>4 DEF Inv, Keyed, FromCandidate
<1>10. Written'
  BY <1>5, <1>6 DEF Written, Locked, Callers
<1>11. Complete'
  BY <1>1, <1>4, <1>5, <1>6 DEF Inv, Complete, Locked, Callers, Expected
<1>12. Backed'
  BY <1>1, <1>4, <1>5 DEF Inv, Backed, Backing, Callers
<1>13. Returned'
  <2>1. tasks[d.id] \in StoredTasks /\ StoredTasks' = StoredTasks
    BY <1>2, <1>3, <1>4 DEF StoredTasks
  <2>2. \A r \in Readers : pc'[r] = pc[r] /\ answer'[r] = answer[r]
    BY <1>1, <1>5 DEF Callers
  <2>3. \A r \in Readers :
          answer[r] = tasks[Wanted[r]] /\ history[Wanted[r]] = Expected(answer[r])
          => history'[Wanted[r]] = Expected(answer[r])
    BY <1>5, MemoryAssumption
  <2> QED
    BY <1>4, <1>5, <2>1, <2>2, <2>3 DEF Inv, Returned, Expected, Unanswered, Locked
<1> QED
  BY <1>7, <1>8, <1>9, <1>10, <1>11, <1>12, <1>13 DEF Inv

-----------------------------------------------------------------------------
(* Every step preserves the invariant.                                      *)
LEMMA MemoryNext == Inv /\ [Next]_vars => Inv'
<1> SUFFICES ASSUME Inv, [Next]_vars PROVE Inv'
  OBVIOUS
<1>1. CASE UNCHANGED vars
  BY <1>1 DEF vars, Inv, TypeOK, Held, Keyed, FromCandidate, Written, Refreshed,
              StoredTask, Complete, Expected, Backed, Backing, Returned,
              StoredTasks, Valid
<1>2. CASE \E c \in Callers : Step(c) \/ Cancel(c)
  <2>1. PICK c \in Callers : Step(c) \/ Cancel(c)
    BY <1>2
  <2>2. CASE c \in Writers /\ CreateTask(c)
    BY <2>2, CreateEnterInv, LockInv, RefuseInv, StoreResourceInv, StoreTaskInv,
       StoreHistoryInv DEF CreateTask
  <2>3. CASE c \in Readers /\ Read(c)
    BY <2>3, TaskEnterInv, RLockInv, TaskReadInv, HistoryReadInv DEF Read
  <2>4. CASE Cancel(c)
    BY <2>4, CancelInv
  <2> QED
    BY <2>1, <2>2, <2>3, <2>4 DEF Step
<1> QED
  BY <1>1, <1>2 DEF Next, Terminated

(* The invariant holds of every reachable state of the memory store.        *)
THEOREM MemoryInvariant == Spec => []Inv
<1> QED
  BY MemoryInit, MemoryNext, PTL DEF Spec

(* Types, and the mutex is never held for reading and writing at once.      *)
THEOREM MemoryTyped == Spec => []TypeOK
<1>1. Inv => TypeOK
  BY DEF Inv
<1> QED
  BY <1>1, MemoryInvariant, PTL

(* A reader that finds a task with Task finds its one complete history      *)
(* entry with History, however many CreateTask calls run meanwhile.         *)
THEOREM MemoryHistory == Spec => []HistoryOfTask
<1>1. Inv => HistoryOfTask
  BY DEF Inv, Returned, Expected, HistoryOfTask
<1> QED
  BY <1>1, MemoryInvariant, PTL

(* A refused CreateTask leaves no resource behind and refreshes none.       *)
THEOREM MemoryBacked == Spec => []ResourceBacked
<1>1. Inv => ResourceBacked
  <2> SUFFICES ASSUME Inv, writer = NoCaller, NEW n \in Names,
                      resources[n] # NoResource
               PROVE  Backing(n)
    BY DEF ResourceBacked, Backing
  <2>1. \A w \in Writers : pc[w] # "task"
    BY MemoryAssumption DEF Inv, Held, Locked, Callers
  <2> QED
    BY <2>1 DEF Inv, Backed
<1> QED
  BY <1>1, MemoryInvariant, PTL

-----------------------------------------------------------------------------
(* The store implements TaskStore.                                          *)

Bindings == {BindingOf(resources[n]) : n \in WithTasks}
Printed == {answer[c] : c \in Callers} \ {NoTask}

(* A fresh store is an empty TaskStore.                                     *)
LEMMA MapsInit == Init => TS!Init
<1> SUFFICES ASSUME Init PROVE TS!Init
  OBVIOUS
<1>1. StoredTasks = {} /\ Printed = {}
  BY DEF Init, StoredTasks, Printed
<1>2. Bindings = {}
  BY <1>1 DEF Bindings, WithTasks
<1> QED
  BY <1>1, <1>2 DEF TS!Init, TS!WellFormed, Bindings, Printed

(* Two different resources clash in nothing; here the candidate ids matter. *)
LEMMA BindingsCompatible ==
    ASSUME Inv, NEW m \in Names, NEW n \in Names, m # n,
           resources[m] # NoResource, resources[n] # NoResource
    PROVE  TS!Compatible(BindingOf(resources[m]), BindingOf(resources[n]))
<1>1. FromCandidate(m) /\ FromCandidate(n)
  BY DEF Inv, Keyed
<1>2. resources[m].id # resources[n].id
  BY <1>1, MemoryAssumption DEF FromCandidate
<1>3. resources[m].name # resources[n].name
  BY DEF Inv, Keyed
<1>4. ~(/\ resources[m].connector = resources[n].connector
        /\ resources[m].identity = resources[n].identity)
  BY DEF Inv, Keyed
<1> QED
  BY <1>2, <1>3, <1>4 DEF TS!Compatible, BindingOf

(* Storing the resource is invisible: a new one has no task yet, and an old *)
(* one keeps its binding.                                                   *)
LEMMA StoreResourceMaps ==
    ASSUME Inv, NEW w \in Writers, StoreResource(w)
    PROVE  UNCHANGED <<StoredTasks, Bindings, Printed>>
<1> DEFINE d == draft[w]
           x == ResourceFor(d)
<1>1. pc[w] = "resource" /\ pc[w] \in Locked /\ ~Rejects(d)
  BY DEF StoreResource, Locked
<1>2. d.name \in Names
  BY <1>1, DraftTyped
<1>3. resources[d.name] # NoResource => BindingOf(resources[d.name]) = BindingOf(x)
  BY <1>1, ResourceForFits
<1>4. resources' = [resources EXCEPT ![d.name] = x] /\ UNCHANGED <<tasks, answer>>
  BY DEF StoreResource
<1>5. StoredTasks' = StoredTasks /\ Printed' = Printed /\ WithTasks' = WithTasks
  BY <1>4 DEF StoredTasks, Printed, WithTasks
<1>6. \A n \in WithTasks : n \in Names /\ resources[n] # NoResource
  BY DEF WithTasks, StoredTasks, Inv, Keyed
<1> HIDE DEF x
<1>7. \A n \in WithTasks : BindingOf(resources'[n]) = BindingOf(resources[n])
  <2> SUFFICES ASSUME NEW n \in WithTasks
               PROVE  BindingOf(resources'[n]) = BindingOf(resources[n])
    OBVIOUS
  <2>1. CASE n = d.name
    <3>1. resources'[n] = x
      BY <1>2, <1>4, <2>1 DEF Inv, TypeOK
    <3> QED
      BY <1>3, <1>6, <2>1, <3>1
  <2>2. CASE n # d.name
    <3>1. resources'[n] = resources[n]
      BY <1>2, <1>4, <1>6, <2>2 DEF Inv, TypeOK
    <3> QED
      BY <3>1
  <2> QED
    BY <2>1, <2>2
<1>8. Bindings' = Bindings
  <2>1. Bindings' = {BindingOf(resources'[n]) : n \in WithTasks}
    BY <1>5 DEF Bindings, BindingOf
  <2> QED
    BY <1>7, <2>1 DEF Bindings
<1> QED
  BY <1>5, <1>8

(* Storing the task is TaskStore's Create.                                  *)
LEMMA StoreTaskMaps ==
    ASSUME Inv, NEW w \in Writers, StoreTask(w)
    PROVE  \E k \in Task : TS!Create(k)
<1> DEFINE d == draft[w]
           k == StoredTask(d)
           b == BindingOf(resources[d.name])
<1>1. pc[w] = "task" /\ pc[w] \in Locked
  BY DEF StoreTask, Locked
<1>2. d \in Draft /\ d.id \in TaskIDs /\ d.name \in Names
  BY <1>1, DraftTyped
<1>3. tasks[d.id] = NoTask /\ Refreshed(d)
  BY <1>1 DEF Inv, Written
<1>4. resources[d.name] \in Resource /\ resources[d.name].name = d.name
      /\ resources[d.name] # NoResource
  BY <1>2, <1>3 DEF Inv, TypeOK, Keyed, Refreshed
<1>5. k \in Task /\ k # NoTask
  <2>1. k \in Task
    BY <1>2, <1>4 DEF StoredTask, Draft, Resource, Task
  <2> QED
    BY <2>1, MemoryAssumption
<1>6. /\ k.id = d.id /\ k.name = d.name /\ k.connector = d.connector
      /\ k.resource = resources[d.name].id
  BY <1>3, <1>4 DEF StoredTask, Refreshed
<1>7. b \in Binding /\ TS!BelongsTo(k, b)
  BY <1>3, <1>4, <1>6 DEF Binding, Resource, BindingOf, TS!BelongsTo, Refreshed
<1>8. /\ tasks' = [tasks EXCEPT ![d.id] = k]
      /\ UNCHANGED <<resources, answer>>
  BY DEF StoreTask
<1> HIDE DEF k
<1>9. /\ tasks'[d.id] = k
      /\ \A i \in TaskIDs \ {d.id} : tasks'[i] = tasks[i]
  BY <1>2, <1>8 DEF Inv, TypeOK
<1>10. StoredTasks' = StoredTasks \cup {k}
  <2>1. \A j : j \in StoredTasks' <=> j \in StoredTasks \/ j = k
    BY <1>2, <1>3, <1>5, <1>9 DEF StoredTasks
  <2> QED
    BY <2>1
<1>11. \A j \in StoredTasks : j.id # k.id
  BY <1>3, <1>6 DEF StoredTasks, Inv, Keyed
<1>12. WithTasks' = WithTasks \cup {d.name}
  BY <1>2, <1>6, <1>10 DEF WithTasks
<1>13. Bindings' = Bindings \cup {b}
  <2>1. Bindings' = {BindingOf(resources[n]) : n \in WithTasks \cup {d.name}}
    BY <1>8, <1>12 DEF Bindings, BindingOf
  <2> QED
    BY <2>1 DEF Bindings
<1>14. b \in Bindings \/ \A a \in Bindings : TS!Compatible(a, b)
  <2>1. \A n \in WithTasks : n \in Names /\ resources[n] # NoResource
    BY DEF WithTasks, StoredTasks, Inv, Keyed
  <2>2. CASE d.name \in WithTasks
    BY <2>2 DEF Bindings
  <2>3. CASE d.name \notin WithTasks
    <3>1. \A n \in WithTasks : TS!Compatible(BindingOf(resources[n]), b)
      BY <1>2, <1>4, <2>1, <2>3, BindingsCompatible
    <3> QED
      BY <3>1 DEF Bindings
  <2> QED
    BY <2>2, <2>3
<1>15. Printed' = Printed
  BY <1>8 DEF Printed
<1> HIDE DEF b
<1>16. TS!Create(k)
  BY <1>7, <1>10, <1>11, <1>13, <1>14, <1>15 DEF TS!Create, Bindings, Printed
<1> QED
  BY <1>5, <1>16

(* Returning a stored task is TaskStore's Report.                           *)
LEMMA AnswerMaps ==
    ASSUME Inv, NEW c \in Callers, NEW i \in TaskIDs, tasks[i] # NoTask,
           answer[c] = NoTask,
           answer' = [answer EXCEPT ![c] = tasks[i]],
           UNCHANGED <<resources, tasks>>
    PROVE  \E k \in Task : TS!Report(k)
<1>1. PICK k \in Task : k = tasks[i]
  BY DEF Inv, TypeOK
<1>2. k \in StoredTasks /\ StoredTasks' = StoredTasks
  BY <1>1 DEF StoredTasks
<1>3. Bindings' = Bindings
  BY <1>2 DEF Bindings, WithTasks, BindingOf
<1>4. Printed' = Printed \cup {k}
  <2>1. answer'[c] = k /\ \A b \in Callers \ {c} : answer'[b] = answer[b]
    BY <1>1 DEF Inv, TypeOK
  <2>2. \A j : j \in Printed' <=> j \in Printed \/ j = k
    BY <1>1, <2>1 DEF Printed
  <2> QED
    BY <2>2
<1>5. TS!Report(k)
  BY <1>2, <1>3, <1>4 DEF TS!Report, Bindings, Printed
<1> QED
  BY <1>1, <1>5

(* Every step is a step of TaskStore or invisible.                          *)
LEMMA MapsNext ==
    Inv /\ [Next]_vars => [TS!Next]_<<StoredTasks, Bindings, Printed>>
<1> SUFFICES ASSUME Inv, [Next]_vars
             PROVE  \/ \E k \in Task : TS!Create(k) \/ TS!Report(k)
                    \/ UNCHANGED <<StoredTasks, Bindings, Printed>>
  BY DEF TS!Next
<1>1. CASE UNCHANGED <<resources, tasks, answer>>
  BY <1>1 DEF StoredTasks, Bindings, WithTasks, BindingOf, Printed
<1>2. ASSUME NEW c \in Callers, Step(c) \/ Cancel(c)
      PROVE  \/ \E k \in Task : TS!Create(k) \/ TS!Report(k)
             \/ UNCHANGED <<StoredTasks, Bindings, Printed>>
  <2>1. CASE c \in Writers /\ (CreateEnter(c) \/ Lock(c) \/ Refuse(c))
    BY <1>1, <2>1 DEF CreateEnter, Lock, Refuse, maps
  <2>2. CASE c \in Writers /\ StoreResource(c)
    BY <2>2, StoreResourceMaps
  <2>3. CASE c \in Writers /\ StoreTask(c)
    BY <2>3, StoreTaskMaps
  <2>4. CASE c \in Writers /\ StoreHistory(c)
    <3>1. pc[c] = "history" /\ pc[c] \in Locked
      BY <2>4 DEF StoreHistory, Locked
    <3>2. draft[c].id \in TaskIDs
      BY <2>4, <3>1, DraftTyped
    <3>3. tasks[draft[c].id] # NoTask
      BY <2>4, <3>1 DEF Inv, Written
    <3>4. answer[c] = NoTask
      BY <2>4, <3>1 DEF Inv, Returned, Unanswered
    <3> QED
      BY <2>4, <3>2, <3>3, <3>4, AnswerMaps DEF StoreHistory
  <2>5. CASE c \in Readers /\ (TaskEnter(c) \/ RLock(c) \/ HistoryRead(c))
    BY <1>1, <2>5 DEF TaskEnter, RLock, HistoryRead, maps
  <2>6. CASE c \in Readers /\ TaskRead(c)
    <3>1. Wanted[c] \in TaskIDs /\ pc[c] = "taskRead"
      BY <2>6, MemoryAssumption DEF TaskRead
    <3>2. answer[c] = NoTask
      BY <3>1 DEF Inv, Returned, Unanswered
    <3>3. CASE tasks[Wanted[c]] = NoTask
      <4>1. answer' = answer
        BY <2>6, <3>2, <3>3 DEF TaskRead, Inv, TypeOK
      <4> QED
        BY <1>1, <2>6, <4>1 DEF TaskRead, maps
    <3>4. CASE tasks[Wanted[c]] # NoTask
      BY <2>6, <3>1, <3>2, <3>4, AnswerMaps DEF TaskRead, maps
    <3> QED
      BY <3>3, <3>4
  <2>7. CASE Cancel(c)
    BY <1>1, <2>7 DEF Cancel, maps
  <2> QED
    BY <1>2, <2>1, <2>2, <2>3, <2>4, <2>5, <2>6, <2>7 DEF Step, CreateTask, Read
<1> QED
  BY <1>1, <1>2 DEF Next, Terminated, vars

(* The memory store keeps the contract that internal/storetest states for   *)
(* both stores, for concurrent callers too.                                 *)
THEOREM MemoryImplements == Spec => Contract
<1> QED
  BY MapsInit, MapsNext, MemoryInvariant, PTL
  DEF Spec, Contract, TS!Spec, TS!vars, Bindings, Printed
=============================================================================
