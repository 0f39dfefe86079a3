----------------------------- MODULE TaskStore -----------------------------
(***************************************************************************)
(* What delegatd's durable task boundary (control.TaskStore) promises to    *)
(* the user of `task submit` and `task show`, whatever file, lock, journal  *)
(* or schema is behind it:                                                  *)
(*                                                                          *)
(*   - a submission either stores one complete task or stores nothing;      *)
(*   - a stored task never changes and never goes away;                     *)
(*   - a resource's id, its configured name and its upstream identity are   *)
(*     bound together by the first task and never bound otherwise;          *)
(*   - a command prints only tasks that are stored.                         *)
(*                                                                          *)
(* The contract is the one internal/storetest states for both stores.       *)
(***************************************************************************)
CONSTANTS
    Task,       \* stored tasks: records with fields id, resource, name, connector
    Binding     \* bindings: records with fields id, name, connector, identity

VARIABLES
    tasks,      \* the stored tasks
    bindings,   \* the onboarded resources
    printed     \* the tasks a command has printed before it exited with 0

vars == <<tasks, bindings, printed>>

-----------------------------------------------------------------------------
(* A task belongs to the resource its own snapshot names.                   *)
BelongsTo(k, b) ==
    /\ k.resource = b.id
    /\ k.name = b.name
    /\ k.connector = b.connector

(* No two bindings share an id, a name or an upstream identity.             *)
Compatible(a, b) ==
    /\ a.id # b.id
    /\ a.name # b.name
    /\ <<a.connector, a.identity>> # <<b.connector, b.identity>>

WellFormed ==
    /\ tasks \subseteq Task
    /\ bindings \subseteq Binding
    /\ \A j, k \in tasks : j.id = k.id => j = k
    /\ \A k \in tasks : \E b \in bindings : BelongsTo(k, b)
    /\ \A a, b \in bindings : a = b \/ Compatible(a, b)

(* The program may start on the state that earlier commands left.           *)
Init == WellFormed /\ printed = {}

(* CreateTask: one task with a fresh id, for a resource that is already     *)
(* bound exactly this way or that clashes with no bound resource.           *)
Create(k) ==
    /\ \A j \in tasks : j.id # k.id
    /\ tasks' = tasks \cup {k}
    /\ \E b \in Binding :
         /\ BelongsTo(k, b)
         /\ b \in bindings \/ \A a \in bindings : Compatible(a, b)
         /\ bindings' = bindings \cup {b}
    /\ UNCHANGED printed

(* A command exits with 0 after printing a stored task.                     *)
Report(k) ==
    /\ k \in tasks
    /\ printed' = printed \cup {k}
    /\ UNCHANGED <<tasks, bindings>>

Next == \E k \in Task : Create(k) \/ Report(k)

Spec == Init /\ [][Next]_vars
=============================================================================
