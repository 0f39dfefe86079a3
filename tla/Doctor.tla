------------------------------- MODULE Doctor -------------------------------
(***************************************************************************)
(* `delegatd doctor`: the checks of a deployment document run concurrently  *)
(* under one deadline and write their results into their own slots.  The    *)
(* OMP and Docker probes start a child process that may say anything, hang, *)
(* or leave a descendant that keeps its output pipe open; the GitHub probe  *)
(* waits for a server, the SQLite probe reads a file.                       *)
(***************************************************************************)
EXTENDS Configuration, FiniteSets

CONSTANTS
    Profiles,       \* repository configurations
    Cases,          \* deployment documents, each with what its checks may meet
    MaxChecks,      \* bound: checks of one document
    Limit           \* maxVersionOutputSize, in chunks

(***************************************************************************)
(* A dependency is a record:                                                *)
(*   local   what fails in this process: "none", "find" (no executable, no  *)
(*           usable private key), "start", "close" (of the child's stdin),  *)
(*           of which a probe meets those that Locals has for its kind      *)
(*   says    the kind of its answer, for SQLite what is at the path         *)
(*   exit    how the child exits, or the server's answer ends: "ok", "bad", *)
(*           or "hang": not by itself                                       *)
(*   size    chunks of output, after the ready frame for OMP                *)
(*   leaves  a descendant keeps the child's output open for good            *)
(***************************************************************************)
Says ==
    [github |-> {"identity", "other identity", "rejected", "unavailable", "status", "invalid"},
     docker |-> {"linux", "other OS", "invalid"},
     omp |-> {"protocol 1", "protocol 2", "no protocol", "invalid", "nothing"},
     sqlite |-> Databases]

Locals ==
    [github |-> {"none", "find"}, docker |-> {"none", "find", "start"},
     omp |-> {"none", "find", "start", "close"}, sqlite |-> {"none"}]

Dependency ==
    [local : {"none", "find", "start", "close"}, says : UNION {Says[kind] : kind \in DOMAIN Says},
     exit : {"ok", "bad", "hang"}, size : Nat, leaves : BOOLEAN]

ASSUME DoctorAssumption ==
    /\ MaxChecks \in Nat /\ Limit \in Nat
    /\ \A c \in Cases :
         /\ IsDocument(c.document)
         /\ Load(c.document) = "" =>
              LET list == LoadDoctor(c.document)
              IN  /\ DOMAIN list \subseteq 1..MaxChecks
                  /\ \A i \in DOMAIN list : list[i].kind # "failed" =>
                       /\ c.world[list[i].id] \in Dependency
                       /\ c.world[list[i].id].local \in Locals[list[i].kind]
                       /\ c.world[list[i].id].says \in Says[list[i].kind]
                       /\ list[i].kind = "sqlite" => c.world[list[i].id].exit = "ok"
    /\ \A profile \in Profiles : IsRequest(profile.policy)

VARIABLES
    document,
    world,      \* what the check of each id meets
    command,    \* where runDoctor is
    checks,     \* the checks LoadDoctor has made
    done,       \* the deadline has passed or the command was interrupted
    at,         \* where each probe is
    failure,    \* the reason a probe is going to return
    own,        \* the probe has cancelled its own context
    child,      \* its child process
    left,       \* chunks the child has not written yet
    pipe,       \* chunks in the child's output pipe
    reader,     \* our end of it
    copier,     \* the goroutine that reads the rest of the output
    buffer,     \* chunks in the Docker probe's limitedBuffer
    result,     \* the results slots of doctor.Run
    report      \* the printed lines

runVars == <<document, world, command, checks, done, report>>
probeVars == <<at, failure, own, child, left, pipe, reader, copier, buffer, result>>
vars == <<runVars, probeVars>>

Slots == 1..MaxChecks

Meets(i) == world[checks[i].id]

ChildStates == {"none", "running", "ok", "bad", "killed"}

TypeOK ==
    /\ command \in {"load", "running", "reported", "invalid"}
    /\ DOMAIN checks \subseteq Slots
    /\ done \in BOOLEAN
    /\ at \in [Slots -> {"start", "request", "body", "query", "frame", "stopping",
                         "waiting", "draining", "run", "answered"}]
    /\ own \in [Slots -> BOOLEAN]
    /\ child \in [Slots -> ChildStates]
    /\ pipe \in [Slots -> 0..2]
    /\ reader \in [Slots -> {"open", "closed"}]
    /\ copier \in [Slots -> {"none", "running", "ended"}]
    /\ buffer \in [Slots -> 0..Limit]
    /\ \A i \in Slots : result[i] # "" <=> at[i] = "answered"

Init ==
    /\ \E c \in Cases : document = c.document /\ world = c.world
    /\ command = "load"
    /\ checks = <<>>
    /\ done = FALSE
    /\ at = [i \in Slots |-> "start"]
    /\ failure = [i \in Slots |-> ""]
    /\ own = [i \in Slots |-> FALSE]
    /\ child = [i \in Slots |-> "none"]
    /\ left = [i \in Slots |-> 0]
    /\ pipe = [i \in Slots |-> 0]
    /\ reader = [i \in Slots |-> "open"]
    /\ copier = [i \in Slots |-> "none"]
    /\ buffer = [i \in Slots |-> 0]
    /\ result = [i \in Slots |-> ""]
    /\ report = <<>>

-----------------------------------------------------------------------------
(* runDoctor loads the document, starts the probes and prints their results. *)

LoadConfiguration ==
    /\ command = "load"
    /\ \/ /\ Load(document) # ""
          /\ command' = "invalid"
          /\ report' = <<Load(document)>>
          /\ UNCHANGED checks
       \/ /\ Load(document) = ""
          /\ command' = "running"
          /\ checks' = LoadDoctor(document)
          /\ UNCHANGED report
    /\ UNCHANGED <<document, world, done, probeVars>>

(* The timeout of the checks' common context, SIGINT or SIGTERM.            *)
Deadline ==
    /\ command = "running"
    /\ ~done
    /\ done' = TRUE
    /\ UNCHANGED <<document, world, command, checks, probeVars, report>>

(* Seeded fault: the wait group is told when a probe starts.                *)
SettledAtOnce(i) == at[i] # "start"

(* The deferred wait.Done: the goroutine has written its slot.              *)
Settled(i) == at[i] = "answered"

(* wait.Wait returns and the report is printed; the exit status is 0 if     *)
(* every line is a pass.                                                    *)
Report ==
    /\ command = "running"
    /\ \A i \in DOMAIN checks : Settled(i)
    /\ command' = "reported"
    /\ report' = [i \in DOMAIN checks |-> [id |-> checks[i].id, says |-> result[i]]]
    /\ UNCHANGED <<document, world, checks, done, probeVars>>

-----------------------------------------------------------------------------
Outcome(reason) == IF reason = "" THEN "pass" ELSE reason

(* A probe returns: its goroutine writes the slot.                          *)
Answer(i, says) ==
    /\ at' = [at EXCEPT ![i] = "answered"]
    /\ result' = [result EXCEPT ![i] = says]

AnswerOnly(i, says) ==
    /\ Answer(i, says)
    /\ UNCHANGED <<failure, own, child, left, pipe, reader, copier, buffer>>

GoTo(i, place) ==
    /\ at' = [at EXCEPT ![i] = place]
    /\ UNCHANGED <<failure, own, child, left, pipe, reader, copier, buffer, result>>

IsAt(i, kind, place) == checks[i].kind = kind /\ at[i] = place

(* The probe's context is done: by itself, or as the common one is.         *)
Cancelled(i) == done \/ own[i]

(* failedCheck: the document's instance is not usable.                      *)
FailedCheck(i) ==
    /\ IsAt(i, "failed", "start")
    /\ AnswerOnly(i, "configuration is unsupported or invalid")

-----------------------------------------------------------------------------
(* The GitHub probe.                                                        *)

(* The private key is there and signs.                                      *)
KeyUsable(i) == Meets(i).local # "find"

LoadKey(i) ==
    /\ IsAt(i, "github", "start")
    /\ IF KeyUsable(i) THEN GoTo(i, "request") ELSE AnswerOnly(i, "private key is invalid")

(* Seeded fault: the request is not made with the checks' context.          *)
RequestFailsAlone(i) ==
    /\ IsAt(i, "github", "request") /\ own[i]
    /\ AnswerOnly(i, "GitHub API is unavailable")

(* client.Do returns an error once the context is done, whatever the server *)
(* does; an answer that comes at the same time may still win.               *)
RequestFails(i) ==
    /\ IsAt(i, "github", "request") /\ done
    /\ AnswerOnly(i, "GitHub API is unavailable")

Responds(i) ==
    /\ IsAt(i, "github", "request")
    /\ CASE Meets(i).says = "unavailable" -> AnswerOnly(i, "GitHub API is unavailable")
         [] Meets(i).says = "rejected" -> AnswerOnly(i, "GitHub App authentication was rejected")
         [] Meets(i).says = "status" -> AnswerOnly(i, "GitHub App check returned HTTP status")
         [] OTHER -> GoTo(i, "body")

BodyFails(i) ==
    /\ IsAt(i, "github", "body") /\ done
    /\ AnswerOnly(i, "GitHub App response is invalid")

(* The body is read, up to its limit, decoded and compared with app_id.     *)
BodyFailure(i) ==
    FirstFailure(
      << <<Meets(i).exit = "ok", "GitHub App response is invalid">>,
         <<Meets(i).says # "invalid", "GitHub App response is invalid">>,
         <<Meets(i).says # "other identity", "GitHub App identity does not match app_id">> >>)

SendsBody(i) ==
    /\ IsAt(i, "github", "body") /\ Meets(i).exit # "hang"
    /\ AnswerOnly(i, Outcome(BodyFailure(i)))

-----------------------------------------------------------------------------
(* The SQLite probe: the file, then an immutable connection, which takes no *)
(* lock and ignores a journal.  Permissions, journal mode and schema are    *)
(* not looked at.                                                           *)

StatDatabase(i) ==
    /\ IsAt(i, "sqlite", "start")
    /\ CASE Meets(i).says = "no path" -> AnswerOnly(i, "path is required")
         [] Meets(i).says = "missing" -> AnswerOnly(i, "SQLite database does not exist")
         [] Meets(i).says = "denied" ->
              AnswerOnly(i, "SQLite database could not be opened read-only")
         [] Meets(i).says = "irregular" -> AnswerOnly(i, "SQLite path is not a regular file")
         [] OTHER -> GoTo(i, "query")

QueryDatabase(i) ==
    /\ IsAt(i, "sqlite", "query")
    /\ IF done \/ Meets(i).says = "no database"
       THEN \E reason \in {"SQLite database could not be opened read-only",
                           "SQLite database probe failed"} : AnswerOnly(i, reason)
       ELSE AnswerOnly(i, "pass")

-----------------------------------------------------------------------------
(* The OMP probe owns the read end of the child's stdout.  The child writes *)
(* a ready frame and further output, a chunk at a time, into a pipe that    *)
(* holds one chunk.                                                         *)

StartOMP(i) ==
    /\ IsAt(i, "omp", "start")
    /\ \/ /\ Meets(i).local = "find"
          /\ AnswerOnly(i, "omp executable was not found")
       \/ /\ Meets(i).local # "find"
          /\ Meets(i).local = "start" \/ done
          /\ AnswerOnly(i, "OMP RPC did not become ready")
       \/ /\ Meets(i).local \in {"none", "close"} /\ ~done
          /\ at' = [at EXCEPT ![i] = "frame"]
          /\ child' = [child EXCEPT ![i] = "running"]
          /\ left' = [left EXCEPT ![i] =
                        IF Meets(i).says = "nothing" THEN 0 ELSE 1 + Meets(i).size]
          /\ UNCHANGED <<failure, own, pipe, reader, copier, buffer, result>>

(* Nobody holds the write end any more and all of it has been read.         *)
EOF(i) == pipe[i] = 0 /\ child[i] # "running" /\ ~Meets(i).leaves

(* Seeded fault: stopBeforeReady returns without waiting for the child.     *)
StopWithoutWait(i, reason) ==
    /\ Answer(i, reason)
    /\ own' = [own EXCEPT ![i] = TRUE]
    /\ reader' = [reader EXCEPT ![i] = "closed"]
    /\ UNCHANGED <<failure, child, left, copier, buffer>>

(* stopBeforeReady up to its Wait.                                          *)
StopBeforeReady(i, reason) ==
    /\ at' = [at EXCEPT ![i] = "stopping"]
    /\ own' = [own EXCEPT ![i] = TRUE]
    /\ failure' = [failure EXCEPT ![i] = reason]
    /\ UNCHANGED <<child, left, reader, copier, buffer, result>>

(* Seeded fault: the rest of the output is read after Wait has returned.    *)
DrainLater(i) ==
    /\ at' = [at EXCEPT ![i] = "waiting"]
    /\ UNCHANGED <<failure, own, child, left, reader, copier, buffer, result>>

(* stdin is closed; one goroutine reads the rest, another waits.            *)
Drain(i) ==
    /\ at' = [at EXCEPT ![i] = "waiting"]
    /\ copier' = [copier EXCEPT ![i] = "running"]
    /\ UNCHANGED <<failure, own, child, left, reader, buffer, result>>

(* readReadyFrame, readyFrame and the closing of stdin.                     *)
FrameFailure(i) ==
    FirstFailure(
      << <<Meets(i).says # "invalid", "OMP RPC did not become ready">>,
         <<Meets(i).says = "protocol 1", "OMP RPC protocol 1 is unavailable">>,
         <<Meets(i).local # "close", "OMP RPC did not shut down cleanly">> >>)

ReadFrame(i) ==
    /\ IsAt(i, "omp", "frame")
    /\ \/ /\ reader[i] = "closed" \/ EOF(i)
          /\ StopBeforeReady(i, "OMP RPC did not become ready")
          /\ UNCHANGED pipe
       \/ /\ reader[i] = "open" /\ pipe[i] > 0
          /\ pipe' = [pipe EXCEPT ![i] = 0]
          /\ IF FrameFailure(i) = "" THEN Drain(i) ELSE StopBeforeReady(i, FrameFailure(i))

(* Wait of stopBeforeReady returns.                                         *)
Stopped(i) ==
    /\ IsAt(i, "omp", "stopping") /\ child[i] # "running"
    /\ reader' = [reader EXCEPT ![i] = "closed"]
    /\ Answer(i, failure[i])
    /\ UNCHANGED <<failure, own, child, left, pipe, copier, buffer>>

(* Seeded fault: the error of Wait is dropped.                              *)
WaitedUnchecked(i) ==
    /\ IsAt(i, "omp", "waiting") /\ child[i] # "running"
    /\ at' = [at EXCEPT ![i] = "draining"]
    /\ reader' = [reader EXCEPT ![i] = "closed"]
    /\ UNCHANGED <<failure, own, child, left, pipe, copier, buffer, result>>

(* Wait returns and our end is closed, which ends the drain even if a       *)
(* descendant keeps the other end.                                          *)
Waited(i) ==
    /\ IsAt(i, "omp", "waiting") /\ child[i] # "running"
    /\ at' = [at EXCEPT ![i] = "draining"]
    /\ reader' = [reader EXCEPT ![i] = "closed"]
    /\ failure' = [failure EXCEPT ![i] =
                     IF child[i] = "ok" THEN "" ELSE "OMP RPC did not shut down cleanly"]
    /\ UNCHANGED <<own, child, left, pipe, copier, buffer, result>>

Drained(i) ==
    /\ IsAt(i, "omp", "draining") /\ copier[i] # "running"
    /\ AnswerOnly(i, Outcome(failure[i]))

(* The goroutine that watches the context.                                  *)
CloseReader(i) ==
    /\ checks[i].kind = "omp" /\ at[i] \notin {"start", "answered"}
    /\ Cancelled(i) /\ reader[i] = "open"
    /\ reader' = [reader EXCEPT ![i] = "closed"]
    /\ UNCHANGED <<at, failure, own, child, left, pipe, copier, buffer, result>>

-----------------------------------------------------------------------------
(* The Docker probe: command.Run copies the child's output to a             *)
(* limitedBuffer.                                                           *)

StartDocker(i) ==
    /\ IsAt(i, "docker", "start")
    /\ \/ /\ Meets(i).local = "find"
          /\ AnswerOnly(i, "docker executable was not found")
       \/ /\ Meets(i).local # "find"
          /\ Meets(i).local = "start" \/ done
          /\ AnswerOnly(i, "Docker daemon is unavailable")
       \/ /\ Meets(i).local \in {"none", "close"} /\ ~done
          /\ at' = [at EXCEPT ![i] = "run"]
          /\ child' = [child EXCEPT ![i] = "running"]
          /\ copier' = [copier EXCEPT ![i] = "running"]
          /\ left' = [left EXCEPT ![i] = Meets(i).size]
          /\ UNCHANGED <<failure, own, pipe, reader, buffer, result>>

(* Seeded fault: onLimit is the cancel function of the checks' context.     *)
OnLimitOfAll(i) == own' = [j \in Slots |-> TRUE]

(* output.onLimit                                                           *)
OnLimit(i) == own' = [own EXCEPT ![i] = TRUE]

(* Seeded fault: only a full buffer refuses a write.                        *)
TooLargeWhenFull(i) == buffer[i] >= Limit

(* A write to the limitedBuffer, with nothing or too little remaining.      *)
TooLarge(i) == buffer[i] >= Limit \/ pipe[i] > Limit - buffer[i]

(* io.Copy of os/exec: its error ends it and closes its end of the pipe.    *)
WriteLimited(i) ==
    /\ checks[i].kind = "docker" /\ copier[i] = "running" /\ pipe[i] > 0
    /\ pipe' = [pipe EXCEPT ![i] = 0]
    /\ IF TooLarge(i)
       THEN /\ buffer' = [buffer EXCEPT ![i] = Limit]
            /\ failure' = [failure EXCEPT ![i] = "Docker version response is invalid"]
            /\ OnLimit(i)
            /\ copier' = [copier EXCEPT ![i] = "ended"]
            /\ reader' = [reader EXCEPT ![i] = "closed"]
       ELSE /\ buffer' = [buffer EXCEPT ![i] = @ + pipe[i]]
            /\ UNCHANGED <<failure, own, copier, reader>>
    /\ UNCHANGED <<at, child, left, result>>

(* decodeVersionOutput and what is asked of its result.                     *)
VersionFailure(i) ==
    FirstFailure(
      << <<Meets(i).says # "invalid", "Docker version response is invalid">>,
         <<Meets(i).says # "other OS", "Docker server OS is not linux">> >>)

(* The limit, the error of command.Run and the version, in this order.      *)
RunFailure(i) ==
    FirstFailure(
      << <<failure[i] = "", failure[i]>>,
         <<child[i] = "ok", "Docker daemon is unavailable">>,
         <<VersionFailure(i) = "", VersionFailure(i)>> >>)

(* command.Run returns when the child has exited and both goroutines that   *)
(* copy its output, this one and the one that discards stderr, have ended.  *)
DockerRan(i) ==
    /\ IsAt(i, "docker", "run")
    /\ child[i] # "running" /\ copier[i] = "ended" /\ ~Meets(i).leaves
    /\ AnswerOnly(i, Outcome(RunFailure(i)))

-----------------------------------------------------------------------------
(* Common to both: the drain or copy of the output, the kill that           *)
(* exec.CommandContext makes, and the child.                                *)

Discard(i) ==
    /\ checks[i].kind = "omp" /\ copier[i] = "running"
    /\ reader[i] = "open" /\ pipe[i] > 0
    /\ pipe' = [pipe EXCEPT ![i] = 0]
    /\ UNCHANGED <<at, failure, own, child, left, reader, copier, buffer, result>>

CopyEnds(i) ==
    /\ copier[i] = "running"
    /\ EOF(i) \/ reader[i] = "closed"
    /\ copier' = [copier EXCEPT ![i] = "ended"]
    /\ UNCHANGED <<at, failure, own, child, left, pipe, reader, buffer, result>>

Kill(i) ==
    /\ child[i] = "running" /\ Cancelled(i)
    /\ child' = [child EXCEPT ![i] = "killed"]
    /\ UNCHANGED <<at, failure, own, left, pipe, reader, copier, buffer, result>>

(* OMP's first chunk is its frame.  Docker writes as much as it likes.      *)
Writes(i) ==
    /\ child[i] = "running" /\ left[i] > 0
    /\ reader[i] = "open" /\ pipe[i] = 0
    /\ \E chunk \in 1..2 :
         /\ chunk <= left[i] /\ (checks[i].kind = "omp" => chunk = 1)
         /\ left' = [left EXCEPT ![i] = @ - chunk]
         /\ pipe' = [pipe EXCEPT ![i] = chunk]
    /\ UNCHANGED <<at, failure, own, child, reader, copier, buffer, result>>

(* A write to a pipe nobody reads fails: the child ends, or goes on.        *)
WriteFails(i) ==
    /\ child[i] = "running" /\ left[i] > 0 /\ reader[i] = "closed"
    /\ left' = [left EXCEPT ![i] = @ - 1]
    /\ child' \in {child, [child EXCEPT ![i] = "bad"]}
    /\ UNCHANGED <<at, failure, own, pipe, reader, copier, buffer, result>>

(* The child has written all it has to say.                                 *)
Exits(i) ==
    /\ child[i] = "running" /\ left[i] = 0 /\ Meets(i).exit # "hang"
    /\ child' = [child EXCEPT ![i] = Meets(i).exit]
    /\ UNCHANGED <<at, failure, own, left, pipe, reader, copier, buffer, result>>

-----------------------------------------------------------------------------
(* What the goroutines of this process do.                                  *)
OwnStep(i) ==
    \/ FailedCheck(i)
    \/ LoadKey(i) \/ RequestFails(i) \/ BodyFails(i)
    \/ StatDatabase(i) \/ QueryDatabase(i)
    \/ StartOMP(i) \/ ReadFrame(i) \/ Stopped(i) \/ Waited(i) \/ Drained(i)
    \/ CloseReader(i) \/ Discard(i)
    \/ StartDocker(i) \/ WriteLimited(i) \/ DockerRan(i)
    \/ Kill(i) \/ CopyEnds(i)

(* What the server or the child does.                                       *)
DependencyStep(i) ==
    Responds(i) \/ SendsBody(i) \/ Writes(i) \/ WriteFails(i) \/ Exits(i)

(* A step of check i, while doctor.Run waits.                               *)
Running(i) == command = "running" /\ i \in DOMAIN checks /\ UNCHANGED runVars

(* The command has printed its lines and exits.                             *)
Finished == command \in {"reported", "invalid"} /\ UNCHANGED vars

Next ==
    \/ LoadConfiguration \/ Deadline \/ Report \/ Finished
    \/ \E i \in Slots : Running(i) /\ (OwnStep(i) \/ DependencyStep(i))

Spec == Init /\ [][Next]_vars

(***************************************************************************)
(* The dependency of check i gives its answer or ends by itself: a child    *)
(* that has nothing to say must also have its output closed.                *)
(***************************************************************************)
Serves(i) ==
    checks[i].kind # "failed" =>
        /\ Meets(i).exit # "hang"
        /\ checks[i].kind = "docker" \/ Meets(i).says = "nothing" => ~Meets(i).leaves

(***************************************************************************)
(* An OMP process that has said it is ready may exit at any time, but is    *)
(* only bound to once its stdin has been closed.                            *)
(***************************************************************************)
Obliged(i) ==
    checks[i].kind = "omp" /\ left[i] = 0
      /\ Meets(i).says # "nothing" /\ Meets(i).exit = "ok" => at[i] = "waiting"

(***************************************************************************)
(* The Go scheduler runs what can run and the kernel delivers a kill, so    *)
(* that this process does not stop while one of its goroutines can go on,   *)
(* and neither do all the dependencies that serve.  Each of them takes      *)
(* finitely many steps.  Nothing is assumed of a dependency that hangs, nor *)
(* that the timer fires: the properties name it when they need it.          *)
(***************************************************************************)
Fairness ==
    /\ WF_vars(LoadConfiguration)
    /\ WF_vars(Report)
    /\ WF_vars(\E i \in Slots : Running(i) /\ OwnStep(i))
    /\ WF_vars(\E i \in Slots : Running(i) /\ Serves(i) /\ Obliged(i) /\ DependencyStep(i))

FairSpec == Spec /\ Fairness

-----------------------------------------------------------------------------
(* What the SQLite probe takes for a database, and of these what Open       *)
(* refuses.                                                                 *)
ReadAsDatabase == {"state", "hot journal", "empty", "foreign", "wal", "broad"}

RefusedByOpen == {"foreign", "wal", "broad"}

(* The dependency is as the probe wants it.                                 *)
Healthy(i) ==
    /\ checks[i].kind # "failed"
    /\ Meets(i).local = "none" /\ Meets(i).exit = "ok" /\ Serves(i)
    /\ Meets(i).says \in {"identity", "linux", "protocol 1"} \cup ReadAsDatabase
    /\ checks[i].kind = "docker" => Meets(i).size <= Limit

(* Every configured instance and the store have exactly one line, in the    *)
(* order of the sections, and every line has a result: Run waits for each   *)
(* goroutine before its slots are read.                                     *)
ReportComplete ==
    command = "reported" =>
        /\ Len(report) = Cardinality(DOMAIN document.connectors)
                         + Cardinality(DOMAIN document.workspaceProviders)
                         + Cardinality(DOMAIN document.agentRuntimes) + 1
        /\ \A i, j \in DOMAIN report : report[i].id = report[j].id => i = j
        /\ \A i \in DOMAIN report : report[i].says # ""

(* A line is a pass only if all the dependency did was right: it answered   *)
(* as expected, its child exited cleanly, and none of its output was cut    *)
(* off by the limit.                                                        *)
PassedForCause ==
    \A i \in DOMAIN checks : result[i] = "pass" =>
        /\ Healthy(i)
        /\ checks[i].kind \in {"omp", "docker"} => child[i] = "ok"
        /\ buffer[i] = (IF checks[i].kind = "docker" THEN Meets(i).size ELSE 0)

(* A failed dependency replaces only its own line: while the deadline has   *)
(* not passed, a healthy one passes whatever the others do, also when its   *)
(* output fills the limit exactly or a descendant of OMP keeps its output.  *)
OwnLineOnly ==
    \A i \in DOMAIN checks :
        ~done /\ Healthy(i) /\ at[i] = "answered" => result[i] = "pass"

(* A probe that has answered has reaped its child and ended its copy of the *)
(* output, on every early return.                                           *)
NothingLeft ==
    \A i \in DOMAIN checks :
        at[i] = "answered" => child[i] # "running" /\ copier[i] # "running"

(* Whether the dependencies answer, fail or hang, the report is printed     *)
(* once the timeout has passed or the command is interrupted; the exception *)
(* is a docker executable whose descendant keeps its output open.           *)
EndsByDeadline == done ~> command = "reported"

(* If every dependency serves, the report is printed without the deadline:  *)
(* no probe waits for a child that waits for the probe.                     *)
EndsWhenServed ==
    command = "running" /\ (\A i \in DOMAIN checks : Serves(i)) ~> command = "reported"

(* What doctor's word is worth to the other commands.  What doctor loads    *)
(* `task show` can load too, unless the version comes with a merge key.  A  *)
(* pass for the store means that its configuration is right, not that its   *)
(* file is: `task show` then works on a state file of this program and on   *)
(* nothing else the probe passes; `task submit` is refused for a file that  *)
(* Open refuses, and otherwise, if the connector's line is a pass too, only *)
(* for a resource that is itself unusable.                                  *)
DiagnosedStore ==
    LET Passed(id) == \E i \in DOMAIN report : report[i] = [id |-> id, says |-> "pass"]
        db == world[<<"store", 0>>].says
        merged == document.versionKey = "merged"
    IN  /\ command = "load" /\ Load(document) = "" =>
             LoadStore(document) = IF merged THEN "configuration YAML is invalid" ELSE ""
        /\ command = "reported" /\ Passed(<<"store", 0>>) =>
             /\ Show(document, db) = "" <=> ~merged /\ db = "state"
             /\ \A n \in DOMAIN document.resources :
                  Passed(<<"connector", document.resources[n].connector>>) =>
                    IF db \in RefusedByOpen
                    THEN Submit(document, n, db) # ""
                    ELSE Submit(document, n, db) \in
                           {"", "resource is unsupported", "resource configuration is invalid"}

(* The service normalises again what the two decoders have normalised: it   *)
(* accepts what they accept, no protected path of either document is lost,  *)
(* and nothing is allowed, as no source of a task grants an action yet.     *)
PolicyStands ==
    command = "load" /\ Load(document) = "" => \A profile \in Profiles : DecodeRepository(profile) = "" =>
        LET operator == Normalized(document.policy)
            repository == Normalized(profile.policy)
            policy == EffectivePolicy(operator, repository)
        IN  /\ ServiceAccepts(operator, repository)
            /\ \A path \in PathsOf(document.policy) \cup PathsOf(profile.policy) :
                 TrimSpace(path) \in policy.protectedPaths
            /\ \A name \in DOMAIN policy.actions : policy.actions[name] = "deny"
=============================================================================
