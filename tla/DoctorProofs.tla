---------------------------- MODULE DoctorProofs ----------------------------
(***************************************************************************)
(* Theorems about Doctor for every set of deployment documents and         *)
(* dependencies, any number of checks and every output limit.  The         *)
(* invariant, DoctorInv, speaks of one slot at a time: where its probe is, *)
(* what of its child and pipe is left there, and what the probe has found  *)
(* out about its dependency.                                               *)
(***************************************************************************)
EXTENDS Doctor, ConfigurationProofs

-----------------------------------------------------------------------------
(* What readReadyFrame, readyFrame and the closing of stdin say.           *)
LEMMA FrameFailureOf ==
    ASSUME NEW i
    PROVE  /\ Meets(i).says = "protocol 1" /\ Meets(i).local # "close"
             => FrameFailure(i) = ""
           /\ ~(Meets(i).says = "protocol 1" /\ Meets(i).local # "close")
             => FrameFailure(i) \in {"OMP RPC did not become ready",
                                     "OMP RPC protocol 1 is unavailable",
                                     "OMP RPC did not shut down cleanly"}
<1> DEFINE list ==
      << <<Meets(i).says # "invalid", "OMP RPC did not become ready">>,
         <<Meets(i).says = "protocol 1", "OMP RPC protocol 1 is unavailable">>,
         <<Meets(i).local # "close", "OMP RPC did not shut down cleanly">> >>
<1>1. DOMAIN list = 1..3
  OBVIOUS
<1>2. /\ (list[1][1] <=> Meets(i).says # "invalid") /\ list[1][2] = "OMP RPC did not become ready"
      /\ (list[2][1] <=> Meets(i).says = "protocol 1") /\ list[2][2] = "OMP RPC protocol 1 is unavailable"
      /\ (list[3][1] <=> Meets(i).local # "close") /\ list[3][2] = "OMP RPC did not shut down cleanly"
  OBVIOUS
<1>3. FrameFailure(i) = FirstFailure(list)
  BY DEF FrameFailure
<1> HIDE DEF list
<1> QED BY <1>1, <1>2, <1>3, FirstOfThree

(* What decodeVersionOutput and the test of its result say.                *)
LEMMA VersionFailureOf ==
    ASSUME NEW i
    PROVE  /\ Meets(i).says \notin {"invalid", "other OS"} => VersionFailure(i) = ""
           /\ Meets(i).says \in {"invalid", "other OS"} =>
                VersionFailure(i) \in {"Docker version response is invalid", "Docker server OS is not linux"}
<1> DEFINE list ==
      << <<Meets(i).says # "invalid", "Docker version response is invalid">>,
         <<Meets(i).says # "other OS", "Docker server OS is not linux">> >>
<1>1. DOMAIN list = 1..2
  OBVIOUS
<1>2. /\ (list[1][1] <=> Meets(i).says # "invalid") /\ list[1][2] = "Docker version response is invalid"
      /\ (list[2][1] <=> Meets(i).says # "other OS") /\ list[2][2] = "Docker server OS is not linux"
  OBVIOUS
<1>3. VersionFailure(i) = FirstFailure(list)
  BY DEF VersionFailure
<1> HIDE DEF list
<1> QED BY <1>1, <1>2, <1>3, FirstOfTwo

(* What the GitHub probe says of the body it has read.                     *)
LEMMA BodyFailureOf ==
    ASSUME NEW i
    PROVE  /\ BodyFailure(i) \in {"", "GitHub App response is invalid",
                                  "GitHub App identity does not match app_id"}
           /\ BodyFailure(i) = "" <=>
                Meets(i).exit = "ok" /\ Meets(i).says \notin {"invalid", "other identity"}
<1> DEFINE list ==
      << <<Meets(i).exit = "ok", "GitHub App response is invalid">>,
         <<Meets(i).says # "invalid", "GitHub App response is invalid">>,
         <<Meets(i).says # "other identity", "GitHub App identity does not match app_id">> >>
<1>1. DOMAIN list = 1..3
  OBVIOUS
<1>2. /\ (list[1][1] <=> Meets(i).exit = "ok") /\ list[1][2] = "GitHub App response is invalid"
      /\ (list[2][1] <=> Meets(i).says # "invalid") /\ list[2][2] = "GitHub App response is invalid"
      /\ (list[3][1] <=> Meets(i).says # "other identity") /\ list[3][2] = "GitHub App identity does not match app_id"
  OBVIOUS
<1>3. BodyFailure(i) = FirstFailure(list)
  BY DEF BodyFailure
<1> HIDE DEF list
<1> QED BY <1>1, <1>2, <1>3, FirstOfThree

(* What the Docker probe says once its command has run.                    *)
LEMMA RunFailureOf ==
    ASSUME NEW i
    PROVE  /\ RunFailure(i) \in {"", failure[i], "Docker version response is invalid",
                                 "Docker daemon is unavailable", "Docker server OS is not linux"}
           /\ RunFailure(i) = "" <=> /\ failure[i] = "" /\ child[i] = "ok"
                                     /\ Meets(i).says \notin {"invalid", "other OS"}
<1> DEFINE list ==
      << <<failure[i] = "", failure[i]>>,
         <<child[i] = "ok", "Docker daemon is unavailable">>,
         <<VersionFailure(i) = "", VersionFailure(i)>> >>
<1>1. DOMAIN list = 1..3
  OBVIOUS
<1>2. /\ (list[1][1] <=> failure[i] = "") /\ list[1][2] = failure[i]
      /\ (list[2][1] <=> child[i] = "ok") /\ list[2][2] = "Docker daemon is unavailable"
      /\ list[3][2] = VersionFailure(i)
  OBVIOUS
<1>3. list[3][1] <=> VersionFailure(i) = ""
  OBVIOUS
<1>4. RunFailure(i) = FirstFailure(list)
  BY DEF RunFailure
<1> HIDE DEF list
<1>5. /\ VersionFailure(i) \in {"", "Docker version response is invalid", "Docker server OS is not linux"}
      /\ VersionFailure(i) = "" <=> Meets(i).says \notin {"invalid", "other OS"}
  BY VersionFailureOf
<1>6. CASE failure[i] # ""
  BY <1>1, <1>2, <1>4, <1>6, FirstOfThree
<1>7. CASE failure[i] = "" /\ child[i] # "ok"
  BY <1>1, <1>2, <1>4, <1>7, FirstOfThree
<1>8. CASE failure[i] = "" /\ child[i] = "ok"
  <2>1. CASE VersionFailure(i) # ""
    BY <1>1, <1>2, <1>3, <1>4, <1>5, <1>8, <2>1, FirstOfThree
  <2>2. CASE VersionFailure(i) = ""
    BY <1>1, <1>2, <1>3, <1>4, <1>5, <1>8, <2>2, FirstOfThree
  <2> QED BY <2>1, <2>2
<1> QED BY <1>6, <1>7, <1>8

-----------------------------------------------------------------------------
(* The state of the probes is a function on the slots, of these values.    *)
OnSlots ==
    /\ at = [i \in Slots |-> at[i]]
    /\ failure = [i \in Slots |-> failure[i]]
    /\ own = [i \in Slots |-> own[i]]
    /\ child = [i \in Slots |-> child[i]]
    /\ left = [i \in Slots |-> left[i]]
    /\ pipe = [i \in Slots |-> pipe[i]]
    /\ reader = [i \in Slots |-> reader[i]]
    /\ copier = [i \in Slots |-> copier[i]]
    /\ buffer = [i \in Slots |-> buffer[i]]
    /\ result = [i \in Slots |-> result[i]]

Amounts(i) == left[i] \in Nat /\ pipe[i] \in 0..2 /\ buffer[i] \in 0..Limit

Values(i) ==
    /\ at[i] \in {"start", "request", "body", "query", "frame", "stopping",
                  "waiting", "draining", "run", "answered"}
    /\ own[i] \in BOOLEAN /\ child[i] \in ChildStates
    /\ reader[i] \in {"open", "closed"} /\ copier[i] \in {"none", "running", "ended"}
    /\ result[i] # "" <=> at[i] = "answered"

Typed(i) == Amounts(i) /\ Values(i)

ProbeTypes ==
    /\ TypeOK
    /\ failure = [i \in Slots |-> failure[i]]
    /\ result = [i \in Slots |-> result[i]]
    /\ left \in [Slots -> Nat]

(* The document and its dependencies are a case's, and the checks are those *)
(* LoadDoctor makes of it.                                                 *)
Deployed ==
    /\ \E c \in Cases : document = c.document /\ world = c.world
    /\ \/ command \in {"load", "invalid"} /\ checks = <<>>
       \/ command \in {"running", "reported"} /\ Load(document) = "" /\ checks = LoadDoctor(document)

(* No child, no output, no failure.                                        *)
Idle(i) ==
    /\ failure[i] = "" /\ ~own[i] /\ child[i] = "none" /\ pipe[i] = 0
    /\ reader[i] = "open" /\ copier[i] = "none" /\ buffer[i] = 0

(* The places of each kind of probe; only OMP's and Docker's have a child. *)
Placed(i) ==
    /\ i \notin DOMAIN checks => at[i] = "start"
    /\ at[i] = "start" => Idle(i)
    /\ at[i] \in {"request", "body"} => checks[i].kind = "github"
    /\ at[i] = "query" => checks[i].kind = "sqlite"
    /\ at[i] \in {"frame", "stopping", "waiting", "draining"} => checks[i].kind = "omp"
    /\ at[i] = "run" => checks[i].kind = "docker"
    /\ at[i] = "answered" => checks[i].kind \in {"failed", "github", "sqlite", "omp", "docker"}
    /\ i \in DOMAIN checks /\ checks[i].kind \notin {"omp", "docker"} => Idle(i)
    /\ i \in DOMAIN checks /\ checks[i].kind = "omp" => buffer[i] = 0

(* What the child and the copy of its output may be at each place.         *)
Reaped(i) ==
    /\ at[i] \in {"frame", "stopping"} => copier[i] = "none"
    /\ at[i] \in {"frame", "stopping", "waiting", "draining", "run"} => child[i] # "none"
    /\ at[i] = "draining" => child[i] # "running"
    /\ at[i] = "answered" => child[i] # "running" /\ copier[i] # "running"
    /\ at[i] = "stopping" =>
         failure[i] \in {"OMP RPC did not become ready", "OMP RPC protocol 1 is unavailable",
                         "OMP RPC did not shut down cleanly"}

(* What a probe that has got so far knows of its dependency.               *)
Known(i) ==
    /\ at[i] \in {"request", "body", "query"} => Meets(i).local = "none"
    /\ at[i] = "body" => Meets(i).says \in {"identity", "other identity", "invalid"}
    /\ at[i] = "query" => Meets(i).says \in ReadAsDatabase \cup {"no database"}
    /\ at[i] = "run" => Meets(i).local = "none"
    /\ at[i] = "frame" => Meets(i).local \in {"none", "close"}
    /\ at[i] \in {"waiting", "draining"} => Meets(i).says = "protocol 1" /\ Meets(i).local = "none"
    /\ child[i] = "ok" => Meets(i).exit = "ok" /\ left[i] = 0
    /\ at[i] = "draining" =>
         (failure[i] = "" /\ child[i] = "ok") \/ failure[i] = "OMP RPC did not shut down cleanly"

(* Of the output of docker, nothing is lost while the limit is not met.    *)
Copied(i) ==
    at[i] = "run" =>
        /\ failure[i] \in {"", "Docker version response is invalid"}
        /\ failure[i] = "" =>
             /\ reader[i] = "open"
             /\ left[i] + pipe[i] + buffer[i] = Meets(i).size
             /\ copier[i] = "ended" => pipe[i] = 0 /\ child[i] # "running"

Passed(i) ==
    result[i] = "pass" =>
        /\ Healthy(i)
        /\ checks[i].kind \in {"omp", "docker"} => child[i] = "ok"
        /\ buffer[i] = (IF checks[i].kind = "docker" THEN Meets(i).size ELSE 0)

(* The ready frame is still to come or already in the pipe.                *)
FrameComes(i) == at[i] = "frame" => pipe[i] > 0 \/ (child[i] = "running" /\ left[i] > 0)

(* A healthy dependency's probe before the deadline: nothing is killed,    *)
(* closed or found wrong.                                                  *)
Unharmed(i) ==
    /\ ~own[i] /\ failure[i] = ""
    /\ at[i] # "stopping"
    /\ child[i] \in {"none", "running", "ok"}
    /\ at[i] \notin {"draining", "answered"} => reader[i] = "open"
    /\ at[i] = "answered" => result[i] = "pass"

GoesWell(i) == Unharmed(i) /\ FrameComes(i)

Smooth(i) == i \in DOMAIN checks /\ ~done /\ Healthy(i) => GoesWell(i)

SlotInv(i) == Placed(i) /\ Reaped(i) /\ Known(i) /\ Copied(i) /\ Passed(i) /\ Smooth(i)

DoctorInv == ProbeTypes /\ Deployed /\ \A i \in Slots : SlotInv(i)
-----------------------------------------------------------------------------
(* What the check of a document that has been loaded may meet.             *)
LEMMA Fits ==
    ASSUME Deployed, NEW i \in DOMAIN checks, checks[i].kind # "failed"
    PROVE  /\ Meets(i) \in Dependency
           /\ Meets(i).local \in Locals[checks[i].kind]
           /\ Meets(i).says \in Says[checks[i].kind]
           /\ checks[i].kind = "sqlite" => Meets(i).exit = "ok"
<1>1. PICK c \in Cases : document = c.document /\ world = c.world
  BY DEF Deployed
<1>2. Load(document) = "" /\ checks = LoadDoctor(document)
  <2>1. checks # <<>>
    OBVIOUS
  <2> QED BY <2>1 DEF Deployed
<1>3. /\ c.world[checks[i].id] \in Dependency
      /\ c.world[checks[i].id].local \in Locals[checks[i].kind]
      /\ c.world[checks[i].id].says \in Says[checks[i].kind]
      /\ checks[i].kind = "sqlite" => c.world[checks[i].id].exit = "ok"
  BY <1>1, <1>2, DoctorAssumption
<1> QED BY <1>1, <1>3 DEF Meets

(* The checks of a document fit into the slots.                            *)
LEMMA ChecksFit ==
    ASSUME Deployed
    PROVE  DOMAIN checks \subseteq Slots
<1>1. CASE checks = <<>>
  BY <1>1
<1>2. CASE Load(document) = "" /\ checks = LoadDoctor(document)
  BY <1>2, DoctorAssumption DEF Deployed, Slots
<1> QED BY <1>1, <1>2 DEF Deployed

(* A probe writes nothing of another's.                                    *)
Untouched(j) ==
    /\ at'[j] = at[j] /\ failure'[j] = failure[j] /\ own'[j] = own[j] /\ child'[j] = child[j]
    /\ left'[j] = left[j] /\ pipe'[j] = pipe[j] /\ reader'[j] = reader[j]
    /\ copier'[j] = copier[j] /\ buffer'[j] = buffer[j] /\ result'[j] = result[j]

(* A step of one probe leaves the other slots untouched.                   *)
LEMMA Apart ==
    ASSUME ProbeTypes, NEW i \in Slots, OwnStep(i) \/ DependencyStep(i),
           NEW j \in Slots, j # i
    PROVE  Untouched(j)
<1> USE DEF ProbeTypes, TypeOK, Untouched
<1>1. CASE FailedCheck(i)
  BY <1>1 DEF FailedCheck, IsAt, AnswerOnly, Answer
<1>2. CASE LoadKey(i)
  BY <1>2 DEF LoadKey, IsAt, AnswerOnly, Answer, GoTo, KeyUsable
<1>3. CASE RequestFails(i)
  BY <1>3 DEF RequestFails, IsAt, AnswerOnly, Answer
<1>4. CASE BodyFails(i)
  BY <1>4 DEF BodyFails, IsAt, AnswerOnly, Answer
<1>5. CASE StatDatabase(i)
  BY <1>5 DEF StatDatabase, IsAt, AnswerOnly, Answer, GoTo
<1>6. CASE QueryDatabase(i)
  BY <1>6 DEF QueryDatabase, IsAt, AnswerOnly, Answer
<1>7. CASE StartOMP(i)
  BY <1>7 DEF StartOMP, IsAt, AnswerOnly, Answer
<1>8. CASE ReadFrame(i)
  BY <1>8 DEF ReadFrame, IsAt, StopBeforeReady, Drain
<1>9. CASE Stopped(i)
  BY <1>9 DEF Stopped, IsAt, Answer
<1>10. CASE Waited(i)
  BY <1>10 DEF Waited, IsAt
<1>11. CASE Drained(i)
  BY <1>11 DEF Drained, IsAt, AnswerOnly, Answer, Outcome
<1>12. CASE CloseReader(i)
  BY <1>12 DEF CloseReader, Cancelled
<1>13. CASE Discard(i)
  BY <1>13 DEF Discard
<1>14. CASE StartDocker(i)
  BY <1>14 DEF StartDocker, IsAt, AnswerOnly, Answer
<1>15. CASE WriteLimited(i)
  BY <1>15 DEF WriteLimited, OnLimit, TooLarge
<1>16. CASE DockerRan(i)
  BY <1>16 DEF DockerRan, IsAt, AnswerOnly, Answer
<1>17. CASE Kill(i)
  BY <1>17 DEF Kill, Cancelled
<1>18. CASE CopyEnds(i)
  BY <1>18 DEF CopyEnds
<1>19. CASE Responds(i)
  BY <1>19 DEF Responds, IsAt, AnswerOnly, Answer, GoTo
<1>20. CASE SendsBody(i)
  BY <1>20 DEF SendsBody, IsAt, AnswerOnly, Answer
<1>21. CASE Writes(i)
  BY <1>21 DEF Writes
<1>22. CASE WriteFails(i)
  BY <1>22 DEF WriteFails
<1>23. CASE Exits(i)
  BY <1>23 DEF Exits
<1> QED
  BY <1>1, <1>2, <1>3, <1>4, <1>5, <1>6, <1>7, <1>8, <1>9, <1>10, <1>11, <1>12, <1>13,
     <1>14, <1>15, <1>16, <1>17, <1>18, <1>19, <1>20, <1>21, <1>22, <1>23
     DEF OwnStep, DependencyStep

(* A step leaves every variable of the probes a function on the slots.     *)
LEMMA StepOnSlots ==
    ASSUME OnSlots, NEW i, OwnStep(i) \/ DependencyStep(i)
    PROVE  OnSlots'
<1> USE DEF OnSlots
<1>1. CASE FailedCheck(i)
  BY <1>1 DEF FailedCheck, IsAt, AnswerOnly, Answer
<1>2. CASE LoadKey(i)
  BY <1>2 DEF LoadKey, IsAt, AnswerOnly, Answer, GoTo, KeyUsable
<1>3. CASE RequestFails(i)
  BY <1>3 DEF RequestFails, IsAt, AnswerOnly, Answer
<1>4. CASE BodyFails(i)
  BY <1>4 DEF BodyFails, IsAt, AnswerOnly, Answer
<1>5. CASE StatDatabase(i)
  BY <1>5 DEF StatDatabase, IsAt, AnswerOnly, Answer, GoTo
<1>6. CASE QueryDatabase(i)
  BY <1>6 DEF QueryDatabase, IsAt, AnswerOnly, Answer
<1>7. CASE StartOMP(i)
  BY <1>7 DEF StartOMP, IsAt, AnswerOnly, Answer
<1>8. CASE ReadFrame(i)
  BY <1>8 DEF ReadFrame, IsAt, StopBeforeReady, Drain
<1>9. CASE Stopped(i)
  BY <1>9 DEF Stopped, IsAt, Answer
<1>10. CASE Waited(i)
  BY <1>10 DEF Waited, IsAt
<1>11. CASE Drained(i)
  BY <1>11 DEF Drained, IsAt, AnswerOnly, Answer, Outcome
<1>12. CASE CloseReader(i)
  BY <1>12 DEF CloseReader, Cancelled
<1>13. CASE Discard(i)
  BY <1>13 DEF Discard
<1>14. CASE StartDocker(i)
  BY <1>14 DEF StartDocker, IsAt, AnswerOnly, Answer
<1>15. CASE WriteLimited(i)
  BY <1>15 DEF WriteLimited, OnLimit, TooLarge
<1>16. CASE DockerRan(i)
  BY <1>16 DEF DockerRan, IsAt, AnswerOnly, Answer
<1>17. CASE Kill(i)
  BY <1>17 DEF Kill, Cancelled
<1>18. CASE CopyEnds(i)
  BY <1>18 DEF CopyEnds
<1>19. CASE Responds(i)
  BY <1>19 DEF Responds, IsAt, AnswerOnly, Answer, GoTo
<1>20. CASE SendsBody(i)
  BY <1>20 DEF SendsBody, IsAt, AnswerOnly, Answer
<1>21. CASE Writes(i)
  BY <1>21 DEF Writes
<1>22. CASE WriteFails(i)
  BY <1>22 DEF WriteFails
<1>23. CASE Exits(i)
  BY <1>23 DEF Exits
<1> QED
  BY <1>1, <1>2, <1>3, <1>4, <1>5, <1>6, <1>7, <1>8, <1>9, <1>10, <1>11, <1>12, <1>13,
     <1>14, <1>15, <1>16, <1>17, <1>18, <1>19, <1>20, <1>21, <1>22, <1>23
     DEF OwnStep, DependencyStep

(* Slot by slot, TypeOK says Typed ...                                     *)
LEMMA TypesAt ==
    ASSUME ProbeTypes
    PROVE  OnSlots /\ \A i \in Slots : Typed(i)
  BY DEF ProbeTypes, TypeOK, OnSlots, Typed, Amounts, Values

(* ... and Typed of every slot is TypeOK.                                  *)
LEMMA TypesNext ==
    ASSUME OnSlots', \A i \in Slots : Typed(i)', done' \in BOOLEAN, DOMAIN checks' \subseteq Slots,
           command' \in {"load", "running", "reported", "invalid"}
    PROVE  ProbeTypes'
  BY DEF ProbeTypes, TypeOK, OnSlots, Typed, Amounts, Values

(* omp is not started, or runs.                                            *)
LEMMA StartOMPAt ==
    ASSUME NEW i \in Slots, OnSlots, Typed(i), StartOMP(i)
    PROVE  /\ checks[i].kind = "omp"
           /\ at[i] = "start"
           /\ \/ /\ Meets(i).local = "find"
                 /\ at'[i] = "answered"
                 /\ result'[i] = "omp executable was not found"
                 /\ failure'[i] = failure[i] /\ own'[i] = own[i] /\ child'[i] = child[i] /\ left'[i] = left[i]
                 /\ pipe'[i] = pipe[i] /\ reader'[i] = reader[i] /\ copier'[i] = copier[i] /\ buffer'[i] = buffer[i]
              \/ /\ Meets(i).local # "find"
                 /\ (Meets(i).local = "start" \/ done)
                 /\ at'[i] = "answered"
                 /\ result'[i] = "OMP RPC did not become ready"
                 /\ failure'[i] = failure[i] /\ own'[i] = own[i] /\ child'[i] = child[i] /\ left'[i] = left[i]
                 /\ pipe'[i] = pipe[i] /\ reader'[i] = reader[i] /\ copier'[i] = copier[i] /\ buffer'[i] = buffer[i]
              \/ /\ Meets(i).local \in {"none", "close"}
                 /\ ~done
                 /\ at'[i] = "frame"
                 /\ child'[i] = "running"
                 /\ left'[i] = (IF Meets(i).says = "nothing" THEN 0 ELSE 1 + Meets(i).size)
                 /\ failure'[i] = failure[i] /\ own'[i] = own[i] /\ pipe'[i] = pipe[i] /\ reader'[i] = reader[i]
                 /\ copier'[i] = copier[i] /\ buffer'[i] = buffer[i] /\ result'[i] = result[i]
  BY DEF OnSlots, Typed, Amounts, Values, StartOMP, IsAt, AnswerOnly, Answer

(* The frame is good, or the probe stops omp.                              *)
LEMMA ReadFrameAt ==
    ASSUME NEW i \in Slots, OnSlots, Typed(i), ReadFrame(i)
    PROVE  /\ checks[i].kind = "omp"
           /\ at[i] = "frame"
           /\ \/ /\ (reader[i] = "closed" \/ EOF(i))
                 /\ at'[i] = "stopping"
                 /\ own'[i] = TRUE
                 /\ failure'[i] = "OMP RPC did not become ready"
                 /\ child'[i] = child[i] /\ left'[i] = left[i] /\ pipe'[i] = pipe[i] /\ reader'[i] = reader[i]
                 /\ copier'[i] = copier[i] /\ buffer'[i] = buffer[i] /\ result'[i] = result[i]
              \/ /\ Meets(i).says = "protocol 1"
                 /\ Meets(i).local # "close"
                 /\ at'[i] = "waiting"
                 /\ copier'[i] = "running"
                 /\ pipe'[i] = 0
                 /\ failure'[i] = failure[i] /\ own'[i] = own[i] /\ child'[i] = child[i] /\ left'[i] = left[i]
                 /\ reader'[i] = reader[i] /\ buffer'[i] = buffer[i] /\ result'[i] = result[i]
              \/ /\ ~(Meets(i).says = "protocol 1" /\ Meets(i).local # "close")
                 /\ at'[i] = "stopping"
                 /\ own'[i] = TRUE
                 /\ pipe'[i] = 0
                 /\ failure'[i] = FrameFailure(i)
                 /\ child'[i] = child[i] /\ left'[i] = left[i] /\ reader'[i] = reader[i] /\ copier'[i] = copier[i]
                 /\ buffer'[i] = buffer[i] /\ result'[i] = result[i]
  BY FrameFailureOf
     DEF OnSlots, Typed, Amounts, Values, ReadFrame, IsAt, StopBeforeReady, Drain

(* A chunk is too much, or is kept.                                        *)
LEMMA WriteLimitedAt ==
    ASSUME NEW i \in Slots, OnSlots, Typed(i), WriteLimited(i)
    PROVE  /\ checks[i].kind = "docker"
           /\ copier[i] = "running"
           /\ pipe[i] > 0
           /\ \/ /\ TooLarge(i)
                 /\ pipe'[i] = 0
                 /\ buffer'[i] = Limit
                 /\ failure'[i] = "Docker version response is invalid"
                 /\ own'[i] = TRUE
                 /\ copier'[i] = "ended"
                 /\ reader'[i] = "closed"
                 /\ at'[i] = at[i] /\ child'[i] = child[i] /\ left'[i] = left[i] /\ result'[i] = result[i]
              \/ /\ ~TooLarge(i)
                 /\ pipe'[i] = 0
                 /\ buffer'[i] = buffer[i] + pipe[i]
                 /\ at'[i] = at[i] /\ failure'[i] = failure[i] /\ own'[i] = own[i] /\ child'[i] = child[i]
                 /\ left'[i] = left[i] /\ reader'[i] = reader[i] /\ copier'[i] = copier[i] /\ result'[i] = result[i]
  BY DEF OnSlots, Typed, Amounts, Values, WriteLimited, OnLimit

(* docker is not started, or runs.                                         *)
LEMMA StartDockerAt ==
    ASSUME NEW i \in Slots, OnSlots, Typed(i), StartDocker(i)
    PROVE  /\ checks[i].kind = "docker"
           /\ at[i] = "start"
           /\ \/ /\ Meets(i).local = "find"
                 /\ at'[i] = "answered"
                 /\ result'[i] = "docker executable was not found"
                 /\ failure'[i] = failure[i] /\ own'[i] = own[i] /\ child'[i] = child[i] /\ left'[i] = left[i]
                 /\ pipe'[i] = pipe[i] /\ reader'[i] = reader[i] /\ copier'[i] = copier[i] /\ buffer'[i] = buffer[i]
              \/ /\ Meets(i).local # "find"
                 /\ (Meets(i).local = "start" \/ done)
                 /\ at'[i] = "answered"
                 /\ result'[i] = "Docker daemon is unavailable"
                 /\ failure'[i] = failure[i] /\ own'[i] = own[i] /\ child'[i] = child[i] /\ left'[i] = left[i]
                 /\ pipe'[i] = pipe[i] /\ reader'[i] = reader[i] /\ copier'[i] = copier[i] /\ buffer'[i] = buffer[i]
              \/ /\ Meets(i).local \in {"none", "close"}
                 /\ ~done
                 /\ at'[i] = "run"
                 /\ child'[i] = "running"
                 /\ copier'[i] = "running"
                 /\ left'[i] = Meets(i).size
                 /\ failure'[i] = failure[i] /\ own'[i] = own[i] /\ pipe'[i] = pipe[i] /\ reader'[i] = reader[i]
                 /\ buffer'[i] = buffer[i] /\ result'[i] = result[i]
  BY DEF OnSlots, Typed, Amounts, Values, StartDocker, IsAt, AnswerOnly, Answer

(* A chunk of omp is read and dropped.                                     *)
LEMMA DiscardAt ==
    ASSUME NEW i \in Slots, OnSlots, Typed(i), Discard(i)
    PROVE  /\ checks[i].kind = "omp"
           /\ copier[i] = "running"
           /\ reader[i] = "open"
           /\ pipe[i] > 0
           /\ pipe'[i] = 0
           /\ at'[i] = at[i] /\ failure'[i] = failure[i] /\ own'[i] = own[i] /\ child'[i] = child[i]
           /\ left'[i] = left[i] /\ reader'[i] = reader[i] /\ copier'[i] = copier[i] /\ buffer'[i] = buffer[i]
           /\ result'[i] = result[i]
  BY DEF OnSlots, Typed, Amounts, Values, Discard

(* A chunk moves from the child into the pipe.                             *)
LEMMA WritesAt ==
    ASSUME NEW i \in Slots, OnSlots, Typed(i), Writes(i)
    PROVE  /\ child[i] = "running"
           /\ left[i] > 0
           /\ reader[i] = "open"
           /\ pipe[i] = 0
           /\ \/ /\ left'[i] = left[i] - 1
                 /\ pipe'[i] = 1
                 /\ at'[i] = at[i] /\ failure'[i] = failure[i] /\ own'[i] = own[i] /\ child'[i] = child[i]
                 /\ reader'[i] = reader[i] /\ copier'[i] = copier[i] /\ buffer'[i] = buffer[i] /\ result'[i] = result[i]
              \/ /\ 2 <= left[i]
                 /\ checks[i].kind # "omp"
                 /\ left'[i] = left[i] - 2
                 /\ pipe'[i] = 2
                 /\ at'[i] = at[i] /\ failure'[i] = failure[i] /\ own'[i] = own[i] /\ child'[i] = child[i]
                 /\ reader'[i] = reader[i] /\ copier'[i] = copier[i] /\ buffer'[i] = buffer[i] /\ result'[i] = result[i]
<1>0. \A c \in 1..2 : c = 1 \/ c = 2
  OBVIOUS
<1> USE DEF OnSlots, Typed, Amounts, Values
<1>1. PICK chunk \in 1..2 :
         /\ chunk <= left[i] /\ (checks[i].kind = "omp" => chunk = 1)
         /\ left' = [left EXCEPT ![i] = @ - chunk]
         /\ pipe' = [pipe EXCEPT ![i] = chunk]
  BY DEF Writes
<1>2. left'[i] = left[i] - chunk /\ pipe'[i] = chunk
  BY <1>1
<1>3. chunk = 1 \/ chunk = 2
  BY <1>0, Zenon
<1> QED BY <1>1, <1>2, <1>3 DEF Writes

(* A chunk is lost, and perhaps the child with it.                         *)
LEMMA WriteFailsAt ==
    ASSUME NEW i \in Slots, OnSlots, Typed(i), WriteFails(i)
    PROVE  /\ child[i] = "running"
           /\ left[i] > 0
           /\ reader[i] = "closed"
           /\ \/ /\ left'[i] = left[i] - 1
                 /\ at'[i] = at[i] /\ failure'[i] = failure[i] /\ own'[i] = own[i] /\ child'[i] = child[i]
                 /\ pipe'[i] = pipe[i] /\ reader'[i] = reader[i] /\ copier'[i] = copier[i] /\ buffer'[i] = buffer[i]
                 /\ result'[i] = result[i]
              \/ /\ left'[i] = left[i] - 1
                 /\ child'[i] = "bad"
                 /\ at'[i] = at[i] /\ failure'[i] = failure[i] /\ own'[i] = own[i] /\ pipe'[i] = pipe[i]
                 /\ reader'[i] = reader[i] /\ copier'[i] = copier[i] /\ buffer'[i] = buffer[i] /\ result'[i] = result[i]
  BY DEF OnSlots, Typed, Amounts, Values, WriteFails

(* The child exits once it has written everything.                         *)
LEMMA ExitsAt ==
    ASSUME NEW i \in Slots, OnSlots, Typed(i), Exits(i)
    PROVE  /\ child[i] = "running"
           /\ left[i] = 0
           /\ Meets(i).exit # "hang"
           /\ child'[i] = Meets(i).exit
           /\ at'[i] = at[i] /\ failure'[i] = failure[i] /\ own'[i] = own[i] /\ left'[i] = left[i]
           /\ pipe'[i] = pipe[i] /\ reader'[i] = reader[i] /\ copier'[i] = copier[i] /\ buffer'[i] = buffer[i]
           /\ result'[i] = result[i]
  BY DEF OnSlots, Typed, Amounts, Values, Exits

(* The same, for each kind.                                                *)
LEMMA FitsKind ==
    ASSUME Deployed, NEW i \in DOMAIN checks
    PROVE  /\ checks[i].kind = "github" =>
                /\ Meets(i).local \in {"none", "find"} /\ Meets(i).exit \in {"ok", "bad", "hang"}
                /\ Meets(i).says \in {"identity", "other identity", "rejected", "unavailable",
                                      "status", "invalid"}
           /\ checks[i].kind = "sqlite" =>
                /\ Meets(i).local = "none" /\ Meets(i).exit = "ok"
                /\ Meets(i).says \in ReadAsDatabase
                                       \cup {"no path", "missing", "denied", "irregular", "no database"}
           /\ checks[i].kind = "omp" =>
                /\ Meets(i).local \in {"none", "find", "start", "close"}
                /\ Meets(i).exit \in {"ok", "bad", "hang"} /\ Meets(i).size \in Nat
                /\ Meets(i).says \in {"protocol 1", "protocol 2", "no protocol", "invalid", "nothing"}
           /\ checks[i].kind = "docker" =>
                /\ Meets(i).local \in {"none", "find", "start"}
                /\ Meets(i).exit \in {"ok", "bad", "hang"} /\ Meets(i).size \in Nat
                /\ Meets(i).says \in {"linux", "other OS", "invalid"}
<1>1. /\ Says["github"] = {"identity", "other identity", "rejected", "unavailable", "status", "invalid"}
      /\ Says["docker"] = {"linux", "other OS", "invalid"}
      /\ Says["omp"] = {"protocol 1", "protocol 2", "no protocol", "invalid", "nothing"}
      /\ Says["sqlite"] \subseteq ReadAsDatabase
                                  \cup {"no path", "missing", "denied", "irregular", "no database"}
  BY DEF Says, Databases, ReadAsDatabase
<1>2. /\ Locals["github"] = {"none", "find"} /\ Locals["docker"] = {"none", "find", "start"}
      /\ Locals["omp"] = {"none", "find", "start", "close"} /\ Locals["sqlite"] = {"none"}
  BY DEF Locals
<1>3. \A dependency \in Dependency :
         dependency.exit \in {"ok", "bad", "hang"} /\ dependency.size \in Nat
  BY DEF Dependency
<1> QED BY <1>1, <1>2, <1>3, Fits

(* A probe's step changes neither its check nor what it meets.             *)
LEMMA SameDependency ==
    ASSUME UNCHANGED runVars, NEW i
    PROVE  /\ checks' = checks /\ done' = done
           /\ Meets(i)' = Meets(i) /\ Healthy(i)' = Healthy(i) /\ Deployed' = Deployed
  BY DEF runVars, Meets, Healthy, Serves, Deployed

(* The amounts of output stay in their bounds.                             *)
LEMMA StepAmounts ==
    ASSUME NEW i \in Slots, OnSlots, Typed(i), Deployed, i \in DOMAIN checks, SlotInv(i),
           UNCHANGED runVars, OwnStep(i) \/ DependencyStep(i)
    PROVE  Amounts(i)'
<1>0. Limit \in Nat
  BY DoctorAssumption
<1>a. checks' = checks /\ done' = done /\ Meets(i)' = Meets(i) /\ (Healthy(i)' <=> Healthy(i))
  BY SameDependency
<1> USE DEF SlotInv, Typed, Amounts
<1>1. CASE FailedCheck(i)
  BY <1>1, <1>0, <1>a DEF FailedCheck, IsAt, AnswerOnly, Answer, OnSlots
<1>2. CASE LoadKey(i)
  BY <1>2, <1>0, <1>a DEF LoadKey, IsAt, AnswerOnly, Answer, GoTo, KeyUsable, OnSlots
<1>3. CASE RequestFails(i)
  BY <1>3, <1>0, <1>a DEF RequestFails, IsAt, AnswerOnly, Answer, OnSlots
<1>4. CASE BodyFails(i)
  BY <1>4, <1>0, <1>a DEF BodyFails, IsAt, AnswerOnly, Answer, OnSlots
<1>5. CASE StatDatabase(i)
  BY <1>5, <1>0, <1>a DEF StatDatabase, IsAt, AnswerOnly, Answer, GoTo, OnSlots
<1>6. CASE QueryDatabase(i)
  BY <1>6, <1>0, <1>a DEF QueryDatabase, IsAt, AnswerOnly, Answer, OnSlots
<1>7. CASE StartOMP(i)
  <2>1. left'[i] = left[i] \/ left'[i] = 0 \/ left'[i] = 1 + Meets(i).size
    BY <1>7, StartOMPAt
  <2>2. Meets(i).size \in Nat
    BY <1>7, StartOMPAt, FitsKind
  <2>3. left'[i] \in Nat
    BY <2>1, <2>2
  <2>4. pipe'[i] = pipe[i] /\ buffer'[i] = buffer[i]
    BY <1>7, StartOMPAt
  <2> QED BY <2>3, <2>4
<1>8. CASE ReadFrame(i)
  <2>1. left'[i] = left[i] /\ buffer'[i] = buffer[i] /\ (pipe'[i] = pipe[i] \/ pipe'[i] = 0)
    BY <1>8, ReadFrameAt
  <2> QED BY <2>1
<1>9. CASE Stopped(i)
  BY <1>9, <1>0, <1>a DEF Stopped, IsAt, Answer, OnSlots, Reaped
<1>10. CASE Waited(i)
  BY <1>10, <1>0, <1>a DEF Waited, IsAt, OnSlots
<1>11. CASE Drained(i)
  BY <1>11, <1>0, <1>a DEF Drained, IsAt, AnswerOnly, Answer, Outcome, OnSlots, Known
<1>12. CASE CloseReader(i)
  BY <1>12, <1>0, <1>a DEF CloseReader, Cancelled, OnSlots
<1>13. CASE Discard(i)
  BY <1>13, DiscardAt, <1>0, <1>a
<1>14. CASE StartDocker(i)
  BY <1>14, StartDockerAt, <1>0, <1>a, FitsKind DEF ChildStates
<1>15. CASE WriteLimited(i)
  <2>1. left'[i] = left[i] /\ pipe'[i] = 0
    BY <1>15, WriteLimitedAt
  <2>2. buffer'[i] = Limit \/ (buffer'[i] = buffer[i] + pipe[i] /\ ~TooLarge(i))
    BY <1>15, WriteLimitedAt
  <2>3. buffer'[i] \in 0..Limit
    BY <1>0, <2>2 DEF TooLarge
  <2> QED BY <2>1, <2>3
<1>16. CASE DockerRan(i)
  BY <1>16, <1>0, <1>a, RunFailureOf
     DEF DockerRan, IsAt, AnswerOnly, Answer, OnSlots, Outcome, Copied
<1>17. CASE Kill(i)
  BY <1>17, <1>0, <1>a DEF Kill, Cancelled, OnSlots, ChildStates
<1>18. CASE CopyEnds(i)
  BY <1>18, <1>0, <1>a DEF CopyEnds, OnSlots
<1>19. CASE Responds(i)
  BY <1>19, <1>0, <1>a DEF Responds, IsAt, AnswerOnly, Answer, GoTo, OnSlots
<1>20. CASE SendsBody(i)
  BY <1>20, <1>0, <1>a, BodyFailureOf
     DEF SendsBody, IsAt, AnswerOnly, Answer, OnSlots, Outcome
<1>21. CASE Writes(i)
  BY <1>21, WritesAt, <1>0, <1>a
<1>22. CASE WriteFails(i)
  BY <1>22, WriteFailsAt, <1>0, <1>a DEF ChildStates
<1>23. CASE Exits(i)
  BY <1>23, ExitsAt, <1>0, <1>a, FitsKind DEF ChildStates, Placed
<1> QED
  BY <1>1, <1>2, <1>3, <1>4, <1>5, <1>6, <1>7, <1>8, <1>9, <1>10, <1>11, <1>12, <1>13,
     <1>14, <1>15, <1>16, <1>17, <1>18, <1>19, <1>20, <1>21, <1>22, <1>23
     DEF OwnStep, DependencyStep

(* The other values stay of their types.                                   *)
LEMMA StepValues ==
    ASSUME NEW i \in Slots, OnSlots, Typed(i), Deployed, i \in DOMAIN checks, SlotInv(i),
           UNCHANGED runVars, OwnStep(i) \/ DependencyStep(i)
    PROVE  Values(i)'
<1>a. checks' = checks /\ done' = done /\ Meets(i)' = Meets(i) /\ (Healthy(i)' <=> Healthy(i))
  BY SameDependency
<1> USE DEF SlotInv, Typed, Values
<1>1. CASE FailedCheck(i)
  BY <1>1, <1>a DEF FailedCheck, IsAt, AnswerOnly, Answer, OnSlots
<1>2. CASE LoadKey(i)
  BY <1>2, <1>a DEF LoadKey, IsAt, AnswerOnly, Answer, GoTo, KeyUsable, OnSlots
<1>3. CASE RequestFails(i)
  BY <1>3, <1>a DEF RequestFails, IsAt, AnswerOnly, Answer, OnSlots
<1>4. CASE BodyFails(i)
  BY <1>4, <1>a DEF BodyFails, IsAt, AnswerOnly, Answer, OnSlots
<1>5. CASE StatDatabase(i)
  BY <1>5, <1>a DEF StatDatabase, IsAt, AnswerOnly, Answer, GoTo, OnSlots
<1>6. CASE QueryDatabase(i)
  BY <1>6, <1>a DEF QueryDatabase, IsAt, AnswerOnly, Answer, OnSlots
<1>7. CASE StartOMP(i)
  BY <1>7, StartOMPAt, <1>a, FitsKind DEF ChildStates
<1>8. CASE ReadFrame(i)
  BY <1>8, ReadFrameAt, <1>a, FrameFailureOf
<1>9. CASE Stopped(i)
  BY <1>9, <1>a DEF Stopped, IsAt, Answer, OnSlots, Reaped
<1>10. CASE Waited(i)
  BY <1>10, <1>a DEF Waited, IsAt, OnSlots
<1>11. CASE Drained(i)
  BY <1>11, <1>a DEF Drained, IsAt, AnswerOnly, Answer, Outcome, OnSlots, Known
<1>12. CASE CloseReader(i)
  BY <1>12, <1>a DEF CloseReader, Cancelled, OnSlots
<1>13. CASE Discard(i)
  BY <1>13, DiscardAt, <1>a
<1>14. CASE StartDocker(i)
  BY <1>14, StartDockerAt, <1>a, FitsKind DEF ChildStates
<1>15. CASE WriteLimited(i)
  BY <1>15, WriteLimitedAt, <1>a
<1>16. CASE DockerRan(i)
  BY <1>16, <1>a, RunFailureOf
     DEF DockerRan, IsAt, AnswerOnly, Answer, OnSlots, Outcome, Copied
<1>17. CASE Kill(i)
  BY <1>17, <1>a DEF Kill, Cancelled, OnSlots, ChildStates
<1>18. CASE CopyEnds(i)
  BY <1>18, <1>a DEF CopyEnds, OnSlots
<1>19. CASE Responds(i)
  BY <1>19, <1>a DEF Responds, IsAt, AnswerOnly, Answer, GoTo, OnSlots
<1>20. CASE SendsBody(i)
  BY <1>20, <1>a, BodyFailureOf
     DEF SendsBody, IsAt, AnswerOnly, Answer, OnSlots, Outcome
<1>21. CASE Writes(i)
  BY <1>21, WritesAt, <1>a
<1>22. CASE WriteFails(i)
  BY <1>22, WriteFailsAt, <1>a DEF ChildStates
<1>23. CASE Exits(i)
  <2>1. checks[i].kind \in {"omp", "docker"}
    BY <1>23, ExitsAt DEF Placed, Idle
  <2>2. child'[i] = Meets(i).exit /\ Meets(i).exit \in {"ok", "bad"}
    BY <1>23, <2>1, ExitsAt, FitsKind
  <2> QED BY <1>23, <2>2, ExitsAt DEF ChildStates
<1> QED
  BY <1>1, <1>2, <1>3, <1>4, <1>5, <1>6, <1>7, <1>8, <1>9, <1>10, <1>11, <1>12, <1>13,
     <1>14, <1>15, <1>16, <1>17, <1>18, <1>19, <1>20, <1>21, <1>22, <1>23
     DEF OwnStep, DependencyStep

(* Every probe stays at the places of its kind.                            *)
LEMMA StepPlaced ==
    ASSUME NEW i \in Slots, OnSlots, Typed(i), Deployed, i \in DOMAIN checks, SlotInv(i),
           UNCHANGED runVars, OwnStep(i) \/ DependencyStep(i)
    PROVE  Placed(i)'
<1>a. checks' = checks /\ done' = done /\ Meets(i)' = Meets(i) /\ (Healthy(i)' <=> Healthy(i))
  BY SameDependency
<1> USE DEF SlotInv, Typed, Amounts, Values, Placed, Idle
<1>1. CASE FailedCheck(i)
  BY <1>1, <1>a DEF FailedCheck, IsAt, AnswerOnly, Answer, OnSlots
<1>2. CASE LoadKey(i)
  BY <1>2, <1>a DEF LoadKey, IsAt, AnswerOnly, Answer, GoTo, KeyUsable, OnSlots
<1>3. CASE RequestFails(i)
  BY <1>3, <1>a DEF RequestFails, IsAt, AnswerOnly, Answer, OnSlots
<1>4. CASE BodyFails(i)
  BY <1>4, <1>a DEF BodyFails, IsAt, AnswerOnly, Answer, OnSlots
<1>5. CASE StatDatabase(i)
  BY <1>5, <1>a DEF StatDatabase, IsAt, AnswerOnly, Answer, GoTo, OnSlots
<1>6. CASE QueryDatabase(i)
  BY <1>6, <1>a DEF QueryDatabase, IsAt, AnswerOnly, Answer, OnSlots
<1>7. CASE StartOMP(i)
  BY <1>7, StartOMPAt, <1>a
<1>8. CASE ReadFrame(i)
  BY <1>8, ReadFrameAt, <1>a
<1>9. CASE Stopped(i)
  BY <1>9, <1>a DEF Stopped, IsAt, Answer, OnSlots
<1>10. CASE Waited(i)
  BY <1>10, <1>a DEF Waited, IsAt, OnSlots
<1>11. CASE Drained(i)
  BY <1>11, <1>a DEF Drained, IsAt, AnswerOnly, Answer, Outcome, OnSlots
<1>12. CASE CloseReader(i)
  BY <1>12, <1>a DEF CloseReader, Cancelled, OnSlots
<1>13. CASE Discard(i)
  BY <1>13, DiscardAt, <1>a
<1>14. CASE StartDocker(i)
  BY <1>14, StartDockerAt, <1>a
<1>15. CASE WriteLimited(i)
  BY <1>15, WriteLimitedAt, <1>a
<1>16. CASE DockerRan(i)
  BY <1>16, <1>a DEF DockerRan, IsAt, AnswerOnly, Answer, OnSlots
<1>17. CASE Kill(i)
  BY <1>17, <1>a DEF Kill, Cancelled, OnSlots
<1>18. CASE CopyEnds(i)
  BY <1>18, <1>a DEF CopyEnds, OnSlots
<1>19. CASE Responds(i)
  BY <1>19, <1>a DEF Responds, IsAt, AnswerOnly, Answer, GoTo, OnSlots
<1>20. CASE SendsBody(i)
  BY <1>20, <1>a DEF SendsBody, IsAt, AnswerOnly, Answer, OnSlots
<1>21. CASE Writes(i)
  BY <1>21, WritesAt, <1>a
<1>22. CASE WriteFails(i)
  BY <1>22, WriteFailsAt, <1>a
<1>23. CASE Exits(i)
  BY <1>23, ExitsAt, <1>a
<1> QED
  BY <1>1, <1>2, <1>3, <1>4, <1>5, <1>6, <1>7, <1>8, <1>9, <1>10, <1>11, <1>12, <1>13,
     <1>14, <1>15, <1>16, <1>17, <1>18, <1>19, <1>20, <1>21, <1>22, <1>23
     DEF OwnStep, DependencyStep

(* No probe answers before its child has ended and its output is read.     *)
LEMMA StepReaped ==
    ASSUME NEW i \in Slots, OnSlots, Typed(i), Deployed, i \in DOMAIN checks, SlotInv(i),
           UNCHANGED runVars, OwnStep(i) \/ DependencyStep(i)
    PROVE  Reaped(i)'
<1>a. checks' = checks /\ done' = done /\ Meets(i)' = Meets(i) /\ (Healthy(i)' <=> Healthy(i))
  BY SameDependency
<1> USE DEF SlotInv, Typed, Placed, Idle, Reaped, Values
<1>1. CASE FailedCheck(i)
  BY <1>1, <1>a DEF FailedCheck, IsAt, AnswerOnly, Answer, OnSlots
<1>2. CASE LoadKey(i)
  BY <1>2, <1>a DEF LoadKey, IsAt, AnswerOnly, Answer, GoTo, KeyUsable, OnSlots
<1>3. CASE RequestFails(i)
  BY <1>3, <1>a DEF RequestFails, IsAt, AnswerOnly, Answer, OnSlots
<1>4. CASE BodyFails(i)
  BY <1>4, <1>a DEF BodyFails, IsAt, AnswerOnly, Answer, OnSlots
<1>5. CASE StatDatabase(i)
  BY <1>5, <1>a DEF StatDatabase, IsAt, AnswerOnly, Answer, GoTo, OnSlots
<1>6. CASE QueryDatabase(i)
  BY <1>6, <1>a DEF QueryDatabase, IsAt, AnswerOnly, Answer, OnSlots
<1>7. CASE StartOMP(i)
  BY <1>7, StartOMPAt, <1>a
<1>8. CASE ReadFrame(i)
  BY <1>8, ReadFrameAt, <1>a, FrameFailureOf
<1>9. CASE Stopped(i)
  BY <1>9, <1>a DEF Stopped, IsAt, Answer, OnSlots
<1>10. CASE Waited(i)
  BY <1>10, <1>a DEF Waited, IsAt, OnSlots
<1>11. CASE Drained(i)
  BY <1>11, <1>a DEF Drained, IsAt, AnswerOnly, Answer, Outcome, OnSlots
<1>12. CASE CloseReader(i)
  BY <1>12, <1>a DEF CloseReader, Cancelled, OnSlots
<1>13. CASE Discard(i)
  BY <1>13, DiscardAt, <1>a
<1>14. CASE StartDocker(i)
  BY <1>14, StartDockerAt, <1>a
<1>15. CASE WriteLimited(i)
  BY <1>15, WriteLimitedAt, <1>a
<1>16. CASE DockerRan(i)
  BY <1>16, <1>a DEF DockerRan, IsAt, AnswerOnly, Answer, OnSlots
<1>17. CASE Kill(i)
  BY <1>17, <1>a DEF Kill, Cancelled, OnSlots
<1>18. CASE CopyEnds(i)
  BY <1>18, <1>a DEF CopyEnds, OnSlots
<1>19. CASE Responds(i)
  BY <1>19, <1>a DEF Responds, IsAt, AnswerOnly, Answer, GoTo, OnSlots
<1>20. CASE SendsBody(i)
  BY <1>20, <1>a DEF SendsBody, IsAt, AnswerOnly, Answer, OnSlots
<1>21. CASE Writes(i)
  BY <1>21, WritesAt, <1>a
<1>22. CASE WriteFails(i)
  BY <1>22, WriteFailsAt, <1>a
<1>23. CASE Exits(i)
  <2>1. checks[i].kind \in {"omp", "docker"} /\ child[i] = "running"
    BY <1>23, ExitsAt
  <2>2. child'[i] = Meets(i).exit /\ Meets(i).exit # "hang" /\ at'[i] = at[i] /\ copier'[i] = copier[i]
        /\ failure'[i] = failure[i]
    BY <1>23, ExitsAt
  <2>3. Meets(i).exit \in {"ok", "bad", "hang"}
    BY <2>1, FitsKind
  <2> QED BY <2>1, <2>2, <2>3
<1> QED
  BY <1>1, <1>2, <1>3, <1>4, <1>5, <1>6, <1>7, <1>8, <1>9, <1>10, <1>11, <1>12, <1>13,
     <1>14, <1>15, <1>16, <1>17, <1>18, <1>19, <1>20, <1>21, <1>22, <1>23
     DEF OwnStep, DependencyStep

(* A healthy dependency, of each kind.                                     *)
LEMMA HealthyIs ==
    ASSUME Deployed, NEW i \in DOMAIN checks,
           checks[i].kind \in {"failed", "github", "sqlite", "omp", "docker"}
    PROVE  Healthy(i) <=>
             /\ Meets(i).local = "none" /\ Meets(i).exit = "ok"
             /\ \/ checks[i].kind = "github" /\ Meets(i).says = "identity"
                \/ checks[i].kind = "sqlite" /\ Meets(i).says \in ReadAsDatabase
                \/ checks[i].kind = "omp" /\ Meets(i).says = "protocol 1"
                \/ /\ checks[i].kind = "docker" /\ Meets(i).says = "linux"
                   /\ ~Meets(i).leaves /\ Meets(i).size <= Limit
<1>1. CASE checks[i].kind = "failed"
  BY <1>1 DEF Healthy
<1>2. CASE checks[i].kind = "github"
  BY <1>2, FitsKind DEF Healthy, Serves, ReadAsDatabase
<1>3. CASE checks[i].kind = "sqlite"
  BY <1>3, FitsKind DEF Healthy, Serves, ReadAsDatabase
<1>4. CASE checks[i].kind = "omp"
  BY <1>4, FitsKind DEF Healthy, Serves, ReadAsDatabase
<1>5. CASE checks[i].kind = "docker"
  BY <1>5, FitsKind DEF Healthy, Serves, ReadAsDatabase
<1> QED BY <1>1, <1>2, <1>3, <1>4, <1>5

(* A chunk is only moved.                                                  *)
LEMMA ChunkMoves ==
    ASSUME NEW i \in Slots, OnSlots, Typed(i),
           Writes(i) \/ (WriteLimited(i) /\ ~TooLarge(i))
    PROVE  left'[i] + pipe'[i] + buffer'[i] = left[i] + pipe[i] + buffer[i]
<1>1. left[i] \in Nat /\ pipe[i] \in Nat /\ buffer[i] \in Nat
  BY DEF Typed, Amounts
<1>2. CASE Writes(i)
  <2>1. /\ pipe[i] = 0 /\ buffer'[i] = buffer[i]
        /\ \/ left'[i] = left[i] - 1 /\ pipe'[i] = 1
           \/ left'[i] = left[i] - 2 /\ pipe'[i] = 2
    BY <1>2, WritesAt
  <2> QED BY <1>1, <2>1
<1>3. CASE WriteLimited(i) /\ ~TooLarge(i)
  <2>1. left'[i] = left[i] /\ pipe'[i] = 0 /\ buffer'[i] = buffer[i] + pipe[i]
    BY <1>3, WriteLimitedAt
  <2> QED BY <1>1, <2>1
<1> QED BY <1>2, <1>3

(* A child that starts has all of its output left to write.                *)
LEMMA AllToWrite ==
    ASSUME NEW i \in Slots, OnSlots, Typed(i), Idle(i), Meets(i).size \in Nat,
           StartDocker(i), at'[i] = "run"
    PROVE  left'[i] + pipe'[i] + buffer'[i] = Meets(i).size
<1>1. left'[i] = Meets(i).size /\ pipe'[i] = 0 /\ buffer'[i] = 0
  BY StartDockerAt DEF Idle
<1> QED BY <1>1

(* What a probe of docker that finds nothing wrong has read.               *)
LEMMA NothingWrong ==
    ASSUME NEW i \in Slots, Typed(i), Copied(i), Known(i), at[i] = "run", copier[i] = "ended",
           Outcome(RunFailure(i)) = "pass"
    PROVE  /\ failure[i] = "" /\ child[i] = "ok" /\ Meets(i).says \notin {"invalid", "other OS"}
           /\ Meets(i).local = "none" /\ Meets(i).exit = "ok"
           /\ buffer[i] = Meets(i).size /\ Meets(i).size <= Limit
<1>1. failure[i] \in {"", "Docker version response is invalid"}
  BY DEF Copied
<1>2. /\ RunFailure(i) \in {"", failure[i], "Docker version response is invalid",
                           "Docker daemon is unavailable", "Docker server OS is not linux"}
      /\ RunFailure(i) = "" <=> /\ failure[i] = "" /\ child[i] = "ok"
                                /\ Meets(i).says \notin {"invalid", "other OS"}
  BY RunFailureOf
<1>3. failure[i] = "" /\ child[i] = "ok" /\ Meets(i).says \notin {"invalid", "other OS"}
  BY <1>1, <1>2 DEF Outcome
<1>4. left[i] + pipe[i] + buffer[i] = Meets(i).size /\ pipe[i] = 0
  BY <1>3 DEF Copied
<1>5. Meets(i).local = "none" /\ Meets(i).exit = "ok" /\ left[i] = 0
  BY <1>3 DEF Known
<1>6. buffer[i] \in 0..Limit
  BY DEF Typed, Amounts
<1>7. Limit \in Nat
  BY DoctorAssumption
<1>8. buffer[i] = Meets(i).size /\ buffer[i] <= Limit
  BY <1>4, <1>5, <1>6, <1>7
<1> QED BY <1>3, <1>5, <1>8

(* What fits into the buffer leaves it within the limit.                   *)
LEMMA RoomLeft ==
    ASSUME NEW a \in Nat, NEW b \in Nat, NEW c \in Nat, NEW n \in Nat, b > 0, a + b + c <= n
    PROVE  ~(c >= n \/ b > n - c)
  OBVIOUS

(* The amounts of a slot are natural numbers.                              *)
LEMMA NaturalAmounts ==
    ASSUME NEW i, Amounts(i)
    PROVE  left[i] \in Nat /\ pipe[i] \in Nat /\ buffer[i] \in Nat
<1>1. Limit \in Nat
  BY DoctorAssumption
<1>2. left[i] \in Nat /\ pipe[i] \in 0..2 /\ buffer[i] \in 0..Limit
  BY DEF Amounts
<1>3. (\A n \in 0..2 : n \in Nat) /\ \A n \in 0..Limit : n \in Nat
  BY <1>1
<1> QED BY <1>2, <1>3

(* An output that is not larger than the limit is never refused.           *)
LEMMA KeepsWithin ==
    ASSUME NEW i \in Slots, Typed(i), Placed(i), Copied(i), Reaped(i), i \in DOMAIN checks,
           WriteLimited(i), failure[i] = ""
    PROVE  Meets(i).size <= Limit => ~TooLarge(i)
<1>1. checks[i].kind = "docker" /\ copier[i] = "running" /\ pipe[i] > 0
  BY DEF WriteLimited
<1>2. at[i] = "run"
  BY <1>1 DEF Placed, Reaped, Idle, Typed, Values
<1>3. left[i] + pipe[i] + buffer[i] = Meets(i).size
  BY <1>2 DEF Copied
<1>4. Limit \in Nat
  BY DoctorAssumption
<1>5. left[i] \in Nat /\ pipe[i] \in Nat /\ buffer[i] \in Nat
  BY NaturalAmounts DEF Typed
<1>6. \A a, b, c \in Nat :
        b > 0 /\ a + b + c <= Limit => ~(c >= Limit \/ b > Limit - c)
  BY <1>4, RoomLeft
<1>7. left[i] + pipe[i] + buffer[i] <= Limit => ~TooLarge(i)
  BY <1>1, <1>5, <1>6 DEF TooLarge
<1> QED BY <1>3, <1>7

(* What a probe has found out stays true.                                  *)
LEMMA StepKnown ==
    ASSUME NEW i \in Slots, OnSlots, Typed(i), Deployed, i \in DOMAIN checks, SlotInv(i),
           UNCHANGED runVars, OwnStep(i) \/ DependencyStep(i)
    PROVE  Known(i)'
<1>a. checks' = checks /\ done' = done /\ Meets(i)' = Meets(i) /\ (Healthy(i)' <=> Healthy(i))
  BY SameDependency
<1> USE DEF SlotInv, Typed, Known, Values, Reaped
<1>1. CASE FailedCheck(i)
  BY <1>1, <1>a, FitsKind
     DEF FailedCheck, IsAt, AnswerOnly, Answer, OnSlots, Placed, Idle
<1>2. CASE LoadKey(i)
  BY <1>2, <1>a, FitsKind
     DEF LoadKey, IsAt, AnswerOnly, Answer, GoTo, KeyUsable, OnSlots, Placed, Idle
<1>3. CASE RequestFails(i)
  BY <1>3, <1>a, FitsKind
     DEF RequestFails, IsAt, AnswerOnly, Answer, OnSlots, Placed, Idle
<1>4. CASE BodyFails(i)
  BY <1>4, <1>a, FitsKind DEF BodyFails, IsAt, AnswerOnly, Answer, OnSlots, Placed, Idle
<1>5. CASE StatDatabase(i)
  BY <1>5, <1>a, FitsKind
     DEF StatDatabase, IsAt, AnswerOnly, Answer, GoTo, OnSlots, Placed, Idle
<1>6. CASE QueryDatabase(i)
  BY <1>6, <1>a, FitsKind
     DEF QueryDatabase, IsAt, AnswerOnly, Answer, OnSlots, Placed, Idle
<1>7. CASE StartOMP(i)
  BY <1>7, StartOMPAt, <1>a, FitsKind DEF Placed, Idle
<1>8. CASE ReadFrame(i)
  <2>1. /\ at[i] = "frame" /\ at'[i] \in {"stopping", "waiting"}
        /\ at'[i] = "waiting" => Meets(i).says = "protocol 1" /\ Meets(i).local # "close"
        /\ child'[i] = child[i] /\ left'[i] = left[i]
    BY <1>8, ReadFrameAt
  <2> QED BY <1>8, <1>a, <2>1
<1>9. CASE Stopped(i)
  BY <1>9, <1>a, FitsKind DEF Stopped, IsAt, Answer, OnSlots, Placed, Idle
<1>10. CASE Waited(i)
  BY <1>10, <1>a, FitsKind DEF Waited, IsAt, OnSlots, Placed, Idle
<1>11. CASE Drained(i)
  BY <1>11, <1>a, FitsKind
     DEF Drained, IsAt, AnswerOnly, Answer, Outcome, OnSlots, Placed, Idle
<1>12. CASE CloseReader(i)
  BY <1>12, <1>a, FitsKind DEF CloseReader, Cancelled, OnSlots, Placed, Idle
<1>13. CASE Discard(i)
  BY <1>13, DiscardAt, <1>a, FitsKind DEF Placed, Idle
<1>14. CASE StartDocker(i)
  BY <1>14, StartDockerAt, <1>a, FitsKind DEF Placed, Idle
<1>15. CASE WriteLimited(i)
  BY <1>15, WriteLimitedAt, <1>a, FitsKind DEF Placed, Idle
<1>16. CASE DockerRan(i)
  BY <1>16, <1>a, FitsKind
     DEF DockerRan, IsAt, AnswerOnly, Answer, OnSlots, Placed, Idle
<1>17. CASE Kill(i)
  BY <1>17, <1>a, FitsKind DEF Kill, Cancelled, OnSlots, Placed, Idle
<1>18. CASE CopyEnds(i)
  BY <1>18, <1>a, FitsKind DEF CopyEnds, OnSlots, Placed, Idle
<1>19. CASE Responds(i)
  BY <1>19, <1>a, FitsKind
     DEF Responds, IsAt, AnswerOnly, Answer, GoTo, OnSlots, Placed, Idle
<1>20. CASE SendsBody(i)
  BY <1>20, <1>a, FitsKind
     DEF SendsBody, IsAt, AnswerOnly, Answer, OnSlots, Placed, Idle
<1>21. CASE Writes(i)
  BY <1>21, WritesAt, <1>a, FitsKind DEF Placed, Idle
<1>22. CASE WriteFails(i)
  BY <1>22, WriteFailsAt, <1>a, FitsKind DEF Placed, Idle
<1>23. CASE Exits(i)
  BY <1>23, ExitsAt, <1>a, FitsKind DEF Placed, Idle
<1> QED
  BY <1>1, <1>2, <1>3, <1>4, <1>5, <1>6, <1>7, <1>8, <1>9, <1>10, <1>11, <1>12, <1>13,
     <1>14, <1>15, <1>16, <1>17, <1>18, <1>19, <1>20, <1>21, <1>22, <1>23
     DEF OwnStep, DependencyStep

(* The output of docker is accounted for.                                  *)
LEMMA StepCopied ==
    ASSUME NEW i \in Slots, OnSlots, Typed(i), Deployed, i \in DOMAIN checks, SlotInv(i),
           UNCHANGED runVars, OwnStep(i) \/ DependencyStep(i)
    PROVE  Copied(i)'
<1>a. checks' = checks /\ done' = done /\ Meets(i)' = Meets(i) /\ (Healthy(i)' <=> Healthy(i))
  BY SameDependency
<1> USE DEF SlotInv, Typed, Amounts, Values, Placed, Idle, Reaped, Copied
<1>1. CASE FailedCheck(i)
  BY <1>1, <1>a DEF FailedCheck, IsAt, AnswerOnly, Answer, OnSlots
<1>2. CASE LoadKey(i)
  BY <1>2, <1>a DEF LoadKey, IsAt, AnswerOnly, Answer, GoTo, KeyUsable, OnSlots
<1>3. CASE RequestFails(i)
  BY <1>3, <1>a DEF RequestFails, IsAt, AnswerOnly, Answer, OnSlots
<1>4. CASE BodyFails(i)
  BY <1>4, <1>a DEF BodyFails, IsAt, AnswerOnly, Answer, OnSlots
<1>5. CASE StatDatabase(i)
  BY <1>5, <1>a DEF StatDatabase, IsAt, AnswerOnly, Answer, GoTo, OnSlots
<1>6. CASE QueryDatabase(i)
  BY <1>6, <1>a DEF QueryDatabase, IsAt, AnswerOnly, Answer, OnSlots
<1>7. CASE StartOMP(i)
  BY <1>7, StartOMPAt, <1>a
<1>8. CASE ReadFrame(i)
  BY <1>8, ReadFrameAt, <1>a
<1>9. CASE Stopped(i)
  BY <1>9, <1>a DEF Stopped, IsAt, Answer, OnSlots
<1>10. CASE Waited(i)
  BY <1>10, <1>a DEF Waited, IsAt, OnSlots
<1>11. CASE Drained(i)
  BY <1>11, <1>a DEF Drained, IsAt, AnswerOnly, Answer, Outcome, OnSlots
<1>12. CASE CloseReader(i)
  BY <1>12, <1>a DEF CloseReader, Cancelled, OnSlots
<1>13. CASE Discard(i)
  BY <1>13, DiscardAt, <1>a
<1>14. CASE StartDocker(i)
  <2>1. CASE at'[i] = "answered"
    BY <2>1
  <2>2. CASE at'[i] = "run"
    <3>1. /\ left'[i] = Meets(i).size /\ pipe'[i] = 0 /\ buffer'[i] = 0 /\ failure'[i] = ""
          /\ reader'[i] = "open" /\ copier'[i] = "running" /\ checks[i].kind = "docker"
      BY <1>14, <2>2, StartDockerAt
    <3>2. Meets(i).size \in Nat
      BY <3>1, FitsKind
    <3>3. left'[i] + pipe'[i] + buffer'[i] = Meets(i).size
      BY <1>14, <2>2, <3>2, StartDockerAt, AllToWrite
    <3> QED BY <1>a, <3>1, <3>3
  <2> QED BY <1>14, <2>1, <2>2, StartDockerAt
<1>15. CASE WriteLimited(i)
  <2>1. CASE TooLarge(i)
    BY <1>15, <2>1, <1>a, WriteLimitedAt
  <2>2. CASE ~TooLarge(i)
    <3>1. /\ pipe'[i] = 0 /\ buffer'[i] = buffer[i] + pipe[i] /\ left'[i] = left[i]
          /\ at'[i] = at[i] /\ failure'[i] = failure[i] /\ reader'[i] = reader[i]
          /\ copier'[i] = "running"
      BY <1>15, <2>2, WriteLimitedAt
    <3>2. left'[i] + pipe'[i] + buffer'[i] = left[i] + pipe[i] + buffer[i]
      BY <1>15, <2>2, ChunkMoves
    <3> QED BY <1>a, <3>1, <3>2
  <2> QED BY <2>1, <2>2
<1>16. CASE DockerRan(i)
  BY <1>16, <1>a DEF DockerRan, IsAt, AnswerOnly, Answer, OnSlots
<1>17. CASE Kill(i)
  BY <1>17, <1>a DEF Kill, Cancelled, OnSlots
<1>18. CASE CopyEnds(i)
  <2>1. /\ at'[i] = at[i] /\ failure'[i] = failure[i] /\ reader'[i] = reader[i]
        /\ left'[i] = left[i] /\ pipe'[i] = pipe[i] /\ buffer'[i] = buffer[i] /\ child'[i] = child[i]
    BY <1>18 DEF CopyEnds
  <2>2. reader[i] = "open" => pipe[i] = 0 /\ child[i] # "running"
    BY <1>18 DEF CopyEnds, EOF
  <2> QED BY <1>a, <2>1, <2>2
<1>19. CASE Responds(i)
  BY <1>19, <1>a DEF Responds, IsAt, AnswerOnly, Answer, GoTo, OnSlots
<1>20. CASE SendsBody(i)
  BY <1>20, <1>a DEF SendsBody, IsAt, AnswerOnly, Answer, OnSlots
<1>21. CASE Writes(i)
  <2>1. /\ at'[i] = at[i] /\ failure'[i] = failure[i] /\ reader'[i] = reader[i]
        /\ buffer'[i] = buffer[i] /\ child'[i] = "running" /\ child[i] = "running"
        /\ copier'[i] = copier[i]
    BY <1>21, WritesAt
  <2>2. left'[i] + pipe'[i] + buffer'[i] = left[i] + pipe[i] + buffer[i]
    BY <1>21, ChunkMoves
  <2> QED BY <1>a, <2>1, <2>2
<1>22. CASE WriteFails(i)
  BY <1>22, WriteFailsAt, <1>a
<1>23. CASE Exits(i)
  BY <1>23, ExitsAt, <1>a
<1> QED
  BY <1>1, <1>2, <1>3, <1>4, <1>5, <1>6, <1>7, <1>8, <1>9, <1>10, <1>11, <1>12, <1>13,
     <1>14, <1>15, <1>16, <1>17, <1>18, <1>19, <1>20, <1>21, <1>22, <1>23
     DEF OwnStep, DependencyStep

(* A pass has its cause.                                                   *)
LEMMA StepPassed ==
    ASSUME NEW i \in Slots, OnSlots, Typed(i), Deployed, i \in DOMAIN checks, SlotInv(i),
           UNCHANGED runVars, OwnStep(i) \/ DependencyStep(i)
    PROVE  Passed(i)'
<1>0. Limit \in Nat
  BY DoctorAssumption
<1>a. checks' = checks /\ done' = done /\ Meets(i)' = Meets(i) /\ (Healthy(i)' <=> Healthy(i))
  BY SameDependency
<1> USE DEF SlotInv, Typed, Values, Amounts, Placed, Idle, Reaped, Known, Copied, Passed
<1>1. CASE FailedCheck(i)
  BY <1>1, <1>0, <1>a DEF FailedCheck, IsAt, AnswerOnly, Answer, OnSlots
<1>2. CASE LoadKey(i)
  BY <1>2, <1>0, <1>a DEF LoadKey, IsAt, AnswerOnly, Answer, GoTo, KeyUsable, OnSlots
<1>3. CASE RequestFails(i)
  BY <1>3, <1>0, <1>a DEF RequestFails, IsAt, AnswerOnly, Answer, OnSlots
<1>4. CASE BodyFails(i)
  BY <1>4, <1>0, <1>a DEF BodyFails, IsAt, AnswerOnly, Answer, OnSlots
<1>5. CASE StatDatabase(i)
  BY <1>5, <1>0, <1>a DEF StatDatabase, IsAt, AnswerOnly, Answer, GoTo, OnSlots
<1>6. CASE QueryDatabase(i)
  <2>1. checks[i].kind = "sqlite" /\ Meets(i).exit = "ok" /\ Meets(i).local = "none"
    BY <1>6, FitsKind DEF QueryDatabase, IsAt
  <2>2. result'[i] = "pass" => Meets(i).says \in ReadAsDatabase
    <3>1. Meets(i).says \in ReadAsDatabase \cup {"no database"}
      BY <1>6 DEF QueryDatabase, IsAt, SlotInv, Known
    <3>2. result'[i] = "pass" => Meets(i).says # "no database"
      BY <1>6 DEF QueryDatabase, IsAt, AnswerOnly, Answer, OnSlots
    <3> QED BY <3>1, <3>2
  <2>3. buffer'[i] = 0
    BY <1>6, <2>1 DEF QueryDatabase, AnswerOnly
  <2> QED BY <1>a, <2>1, <2>2, <2>3, HealthyIs
<1>7. CASE StartOMP(i)
  BY <1>7, StartOMPAt, <1>0, <1>a
<1>8. CASE ReadFrame(i)
  BY <1>8, ReadFrameAt, <1>0, <1>a
<1>9. CASE Stopped(i)
  BY <1>9, <1>0, <1>a DEF Stopped, IsAt, Answer, OnSlots
<1>10. CASE Waited(i)
  BY <1>10, <1>0, <1>a DEF Waited, IsAt, OnSlots
<1>11. CASE Drained(i)
  <2>1. checks[i].kind = "omp" /\ at[i] = "draining" /\ child'[i] = child[i] /\ buffer'[i] = 0
    BY <1>11 DEF Drained, IsAt, AnswerOnly
  <2>2. result'[i] = "pass" => failure[i] = ""
    BY <1>11, <2>1 DEF Drained, AnswerOnly, Answer, Outcome, OnSlots
  <2>3. result'[i] = "pass" => child[i] = "ok" /\ Healthy(i)
    BY <2>1, <2>2, HealthyIs
  <2> QED BY <1>a, <2>1, <2>3
<1>12. CASE CloseReader(i)
  BY <1>12, <1>0, <1>a DEF CloseReader, Cancelled, OnSlots
<1>13. CASE Discard(i)
  BY <1>13, DiscardAt, <1>0, <1>a
<1>14. CASE StartDocker(i)
  BY <1>14, StartDockerAt, <1>0, <1>a
<1>15. CASE WriteLimited(i)
  BY <1>15, WriteLimitedAt, <1>0, <1>a
<1>16. CASE DockerRan(i)
  <2>1. /\ checks[i].kind = "docker" /\ at[i] = "run" /\ child'[i] = child[i]
        /\ buffer'[i] = buffer[i] /\ copier[i] = "ended" /\ ~Meets(i).leaves
    BY <1>16 DEF DockerRan, IsAt, AnswerOnly
  <2>2. result'[i] = Outcome(RunFailure(i))
    BY <1>16 DEF DockerRan, AnswerOnly, Answer, OnSlots
  <2>3. result'[i] = "pass" =>
           /\ child[i] = "ok" /\ Meets(i).says \notin {"invalid", "other OS"}
           /\ Meets(i).local = "none" /\ Meets(i).exit = "ok"
           /\ buffer[i] = Meets(i).size /\ Meets(i).size <= Limit
    BY <2>1, <2>2, NothingWrong
  <2>4. result'[i] = "pass" => Meets(i).says = "linux"
    BY <2>1, <2>3, FitsKind
  <2> QED BY <1>a, <2>1, <2>3, <2>4, HealthyIs
<1>17. CASE Kill(i)
  BY <1>17, <1>0, <1>a DEF Kill, Cancelled, OnSlots
<1>18. CASE CopyEnds(i)
  BY <1>18, <1>0, <1>a DEF CopyEnds, OnSlots
<1>19. CASE Responds(i)
  BY <1>19, <1>0, <1>a DEF Responds, IsAt, AnswerOnly, Answer, GoTo, OnSlots
<1>20. CASE SendsBody(i)
  <2>1. checks[i].kind = "github" /\ at[i] = "body" /\ buffer'[i] = 0
    BY <1>20 DEF SendsBody, IsAt, AnswerOnly
  <2>2. result'[i] = Outcome(BodyFailure(i))
    BY <1>20 DEF SendsBody, AnswerOnly, Answer, OnSlots
  <2>3. result'[i] = "pass" => Meets(i).exit = "ok" /\ Meets(i).says \notin {"invalid", "other identity"}
    BY <2>2, BodyFailureOf DEF Outcome
  <2> QED BY <1>a, <2>1, <2>3, HealthyIs
<1>21. CASE Writes(i)
  BY <1>21, WritesAt, <1>0, <1>a
<1>22. CASE WriteFails(i)
  BY <1>22, WriteFailsAt, <1>0, <1>a
<1>23. CASE Exits(i)
  BY <1>23, ExitsAt, <1>0, <1>a
<1> QED
  BY <1>1, <1>2, <1>3, <1>4, <1>5, <1>6, <1>7, <1>8, <1>9, <1>10, <1>11, <1>12, <1>13,
     <1>14, <1>15, <1>16, <1>17, <1>18, <1>19, <1>20, <1>21, <1>22, <1>23
     DEF OwnStep, DependencyStep

(* The frame of a healthy OMP is not lost before it is read: the child may *)
(* exit once it has written it, but then it is in the pipe.                *)
LEMMA StepFrame ==
    ASSUME NEW i \in Slots, OnSlots, Typed(i), Deployed, i \in DOMAIN checks, SlotInv(i),
           OwnStep(i) \/ DependencyStep(i), ~done, Healthy(i), GoesWell(i)
    PROVE  at'[i] = "frame" => pipe'[i] > 0 \/ (child'[i] = "running" /\ left'[i] > 0)
<1>a. ~own[i] /\ (at[i] = "frame" => reader[i] = "open" /\ copier[i] = "none")
  BY DEF GoesWell, Unharmed, SlotInv, Reaped
<1>b. checks[i].kind = "omp" => Meets(i).says = "protocol 1" /\ Meets(i).size \in Nat
  BY HealthyIs, FitsKind
<1>c. at[i] = "frame" => checks[i].kind = "omp"
  BY DEF SlotInv, Placed
<1>d. at[i] = "frame" => pipe[i] > 0 \/ (child[i] = "running" /\ left[i] > 0)
  BY DEF GoesWell, FrameComes
<1> SUFFICES ASSUME at'[i] = "frame"
             PROVE  pipe'[i] > 0 \/ (child'[i] = "running" /\ left'[i] > 0)
  OBVIOUS
<1>1. CASE FailedCheck(i)
  BY <1>1 DEF FailedCheck, IsAt, AnswerOnly, Answer, OnSlots
<1>2. CASE LoadKey(i)
  BY <1>2 DEF LoadKey, IsAt, AnswerOnly, Answer, GoTo, KeyUsable, OnSlots
<1>3. CASE RequestFails(i)
  BY <1>3 DEF RequestFails, IsAt, AnswerOnly, Answer, OnSlots
<1>4. CASE BodyFails(i)
  BY <1>4 DEF BodyFails, IsAt, AnswerOnly, Answer, OnSlots
<1>5. CASE StatDatabase(i)
  BY <1>5 DEF StatDatabase, IsAt, AnswerOnly, Answer, GoTo, OnSlots
<1>6. CASE QueryDatabase(i)
  BY <1>6 DEF QueryDatabase, IsAt, AnswerOnly, Answer, OnSlots
<1>7. CASE StartOMP(i)
  <2>1. checks[i].kind = "omp" /\ child'[i] = "running"
        /\ left'[i] = (IF Meets(i).says = "nothing" THEN 0 ELSE 1 + Meets(i).size)
    BY <1>7, StartOMPAt
  <2>2. left'[i] = 1 + Meets(i).size /\ Meets(i).size \in Nat
    BY <1>b, <2>1
  <2>3. \A size \in Nat : 1 + size > 0
    OBVIOUS
  <2> QED BY <2>1, <2>2, <2>3
<1>8. CASE ReadFrame(i)
  <2>1. ~EOF(i) /\ reader[i] = "open" /\ FrameFailure(i) = ""
    <3>1. at[i] = "frame" /\ checks[i].kind = "omp"
      BY <1>8 DEF ReadFrame, IsAt
    <3>2. ~EOF(i)
      BY <1>d, <3>1 DEF EOF
    <3>3. FrameFailure(i) = ""
      BY <1>b, <3>1, FrameFailureOf DEF Healthy
    <3> QED BY <1>a, <3>1, <3>2, <3>3
  <2> QED BY <1>8, <2>1, ReadFrameAt, FrameFailureOf
<1>9. CASE Stopped(i)
  BY <1>9 DEF Stopped, IsAt, Answer, OnSlots
<1>10. CASE Waited(i)
  BY <1>10 DEF Waited, IsAt, OnSlots
<1>11. CASE Drained(i)
  BY <1>11 DEF Drained, IsAt, AnswerOnly, Answer, Outcome, OnSlots
<1>12. CASE CloseReader(i)
  BY <1>12, <1>d DEF CloseReader
<1>13. CASE Discard(i)
  BY <1>13, <1>a, <1>c, <1>d, DiscardAt
<1>14. CASE StartDocker(i)
  BY <1>14 DEF StartDocker, IsAt, AnswerOnly, Answer, OnSlots
<1>15. CASE WriteLimited(i)
  BY <1>15, <1>a, <1>c, <1>d, WriteLimitedAt
<1>16. CASE DockerRan(i)
  BY <1>16 DEF DockerRan, IsAt, AnswerOnly, Answer, OnSlots
<1>17. CASE Kill(i)
  BY <1>17, <1>a DEF Kill, Cancelled
<1>18. CASE CopyEnds(i)
  BY <1>18, <1>d DEF CopyEnds
<1>19. CASE Responds(i)
  BY <1>19 DEF Responds, IsAt, AnswerOnly, Answer, GoTo, OnSlots
<1>20. CASE SendsBody(i)
  BY <1>20 DEF SendsBody, IsAt, AnswerOnly, Answer, OnSlots
<1>21. CASE Writes(i)
  <2>1. pipe'[i] = 1 \/ pipe'[i] = 2
    BY <1>21, WritesAt, Zenon
  <2>2. \A x : x = 1 \/ x = 2 => x > 0
    OBVIOUS
  <2> QED BY <2>1, <2>2, Zenon
<1>22. CASE WriteFails(i)
  BY <1>22, <1>a, <1>c, <1>d, WriteFailsAt
<1>23. CASE Exits(i)
  BY <1>23, <1>a, <1>c, <1>d, ExitsAt
<1> QED
  BY <1>1, <1>2, <1>3, <1>4, <1>5, <1>6, <1>7, <1>8, <1>9, <1>10, <1>11, <1>12, <1>13,
     <1>14, <1>15, <1>16, <1>17, <1>18, <1>19, <1>20, <1>21, <1>22, <1>23
     DEF OwnStep, DependencyStep

(* Before the deadline nothing goes wrong for a healthy dependency.        *)
LEMMA StepSmooth ==
    ASSUME NEW i \in Slots, OnSlots, Typed(i), Deployed, i \in DOMAIN checks, SlotInv(i),
           UNCHANGED runVars, OwnStep(i) \/ DependencyStep(i)
    PROVE  Smooth(i)'
<1>a. checks' = checks /\ done' = done /\ Meets(i)' = Meets(i) /\ (Healthy(i)' <=> Healthy(i))
  BY SameDependency
<1>0. ~done /\ Healthy(i) => FrameComes(i)'
  <2>1. ~done /\ Healthy(i) => GoesWell(i)
    BY DEF SlotInv, Smooth
  <2> QED BY <2>1, StepFrame DEF FrameComes
<1> SUFFICES ASSUME ~done, Healthy(i) PROVE Unharmed(i)'
  BY <1>0, <1>a DEF Smooth, GoesWell
<1>b. /\ ~own[i] /\ failure[i] = "" /\ at[i] # "stopping"
      /\ child[i] \in {"none", "running", "ok"}
      /\ at[i] \notin {"draining", "answered"} => reader[i] = "open"
      /\ at[i] = "answered" => result[i] = "pass"
  BY DEF SlotInv, Smooth, GoesWell, Unharmed
<1>c. checks[i].kind # "failed" /\ Meets(i).local = "none" /\ Meets(i).exit = "ok"
  BY DEF Healthy
<1>d. /\ checks[i].kind = "github" => Meets(i).says = "identity"
      /\ checks[i].kind = "sqlite" => Meets(i).says \in ReadAsDatabase
      /\ checks[i].kind = "omp" => Meets(i).says = "protocol 1"
      /\ checks[i].kind = "docker" => Meets(i).says = "linux" /\ Meets(i).size <= Limit
  BY HealthyIs
<1>e. /\ at[i] = "start" => child[i] = "none"
      /\ child[i] # "none" => checks[i].kind \in {"omp", "docker"}
      /\ at[i] \in {"draining", "answered"} => child[i] # "running"
      /\ at[i] = "frame" => checks[i].kind = "omp"
  BY DEF SlotInv, Placed, Reaped, Idle
<1>f. at[i] = "frame" => pipe[i] > 0 \/ (child[i] = "running" /\ left[i] > 0)
  BY DEF SlotInv, Smooth, GoesWell, FrameComes
<1>g. checks[i].kind = "sqlite" =>
        Meets(i).says \notin {"no path", "missing", "denied", "irregular", "no database"}
  BY <1>d DEF ReadAsDatabase
<1> USE DEF Unharmed
<1>1. CASE FailedCheck(i)
  BY <1>1, <1>a, <1>b, <1>c, <1>d, <1>e
     DEF FailedCheck, IsAt, AnswerOnly, Answer, OnSlots
<1>2. CASE LoadKey(i)
  BY <1>2, <1>a, <1>b, <1>c, <1>d, <1>e
     DEF LoadKey, IsAt, AnswerOnly, Answer, GoTo, KeyUsable, OnSlots
<1>3. CASE RequestFails(i)
  BY <1>3, <1>a, <1>b, <1>c, <1>d, <1>e
     DEF RequestFails, IsAt, AnswerOnly, Answer, OnSlots
<1>4. CASE BodyFails(i)
  BY <1>4, <1>a, <1>b, <1>c, <1>d, <1>e DEF BodyFails, IsAt, AnswerOnly, Answer, OnSlots
<1>5. CASE StatDatabase(i)
  BY <1>5, <1>a, <1>b, <1>c, <1>e, <1>g
     DEF StatDatabase, IsAt, AnswerOnly, Answer, GoTo, OnSlots
<1>6. CASE QueryDatabase(i)
  BY <1>6, <1>a, <1>b, <1>c, <1>e, <1>g
     DEF QueryDatabase, IsAt, AnswerOnly, Answer, OnSlots
<1>7. CASE StartOMP(i)
  BY <1>7, StartOMPAt, <1>a, <1>b, <1>c, <1>d, <1>e
<1>8. CASE ReadFrame(i)
  <2>1. at[i] = "frame" /\ reader[i] = "open" /\ ~EOF(i)
    <3>1. at[i] = "frame"
      BY <1>8 DEF ReadFrame, IsAt
    <3>2. ~EOF(i)
      BY <1>f, <3>1 DEF EOF
    <3> QED BY <1>b, <3>1, <3>2
  <2>2. /\ checks[i].kind = "omp" /\ at[i] = "frame" /\ at'[i] = "waiting"
        /\ child'[i] = child[i] /\ own'[i] = own[i] /\ reader'[i] = reader[i] /\ failure'[i] = failure[i]
    BY <1>8, <1>c, <1>d, <2>1, ReadFrameAt
  <2> QED BY <1>b, <2>2
<1>9. CASE Stopped(i)
  BY <1>9, <1>a, <1>b, <1>c, <1>d, <1>e DEF Stopped, IsAt, Answer, OnSlots
<1>10. CASE Waited(i)
  <2>1. child[i] = "ok"
    BY <1>10, <1>b, <1>e DEF Waited, IsAt, SlotInv, Reaped
  <2>2. failure'[i] = "" /\ at'[i] = "draining"
    BY <1>10, <2>1 DEF Waited, OnSlots
  <2> QED BY <1>10, <1>b, <2>2 DEF Waited
<1>11. CASE Drained(i)
  BY <1>11, <1>a, <1>b, <1>c, <1>d, <1>e
     DEF Drained, IsAt, AnswerOnly, Answer, Outcome, OnSlots
<1>12. CASE CloseReader(i)
  BY <1>12, <1>a, <1>b, <1>c, <1>d, <1>e DEF CloseReader, Cancelled, OnSlots
<1>13. CASE Discard(i)
  BY <1>13, DiscardAt, <1>a, <1>b, <1>c, <1>d, <1>e
<1>14. CASE StartDocker(i)
  BY <1>14, StartDockerAt, <1>a, <1>b, <1>c, <1>d, <1>e
<1>15. CASE WriteLimited(i)
  <2>1. ~TooLarge(i)
    BY <1>15, <1>b, <1>d, WriteLimitedAt, KeepsWithin DEF SlotInv
  <2> QED BY <1>15, <1>b, <2>1, WriteLimitedAt
<1>16. CASE DockerRan(i)
  <2>1. checks[i].kind = "docker" /\ at[i] = "run" /\ child[i] = "ok"
    BY <1>16, <1>b DEF DockerRan, IsAt, SlotInv, Reaped
  <2>2. RunFailure(i) = ""
    BY <1>b, <1>d, <2>1, RunFailureOf
  <2>3. at'[i] = "answered" /\ result'[i] = "pass"
    BY <1>16, <2>2 DEF DockerRan, AnswerOnly, Answer, Outcome, OnSlots
  <2> QED BY <1>16, <1>b, <2>3 DEF DockerRan, AnswerOnly
<1>17. CASE Kill(i)
  BY <1>17, <1>a, <1>b, <1>c, <1>d, <1>e DEF Kill, Cancelled, OnSlots
<1>18. CASE CopyEnds(i)
  BY <1>18, <1>a, <1>b, <1>c, <1>d, <1>e DEF CopyEnds, OnSlots
<1>19. CASE Responds(i)
  BY <1>19, <1>a, <1>b, <1>c, <1>d, <1>e
     DEF Responds, IsAt, AnswerOnly, Answer, GoTo, OnSlots
<1>20. CASE SendsBody(i)
  <2>1. BodyFailure(i) = ""
    BY <1>20, <1>c, <1>d, BodyFailureOf DEF SendsBody, IsAt
  <2>2. at'[i] = "answered" /\ result'[i] = "pass"
    BY <1>20, <2>1 DEF SendsBody, AnswerOnly, Answer, Outcome, OnSlots
  <2> QED BY <1>20, <1>b, <2>2 DEF SendsBody, AnswerOnly
<1>21. CASE Writes(i)
  BY <1>21, WritesAt, <1>a, <1>b, <1>c, <1>d, <1>e
<1>22. CASE WriteFails(i)
  BY <1>22, WriteFailsAt, <1>a, <1>b, <1>c, <1>d, <1>e
<1>23. CASE Exits(i)
  BY <1>23, ExitsAt, <1>a, <1>b, <1>c, <1>d, <1>e
<1> QED
  BY <1>1, <1>2, <1>3, <1>4, <1>5, <1>6, <1>7, <1>8, <1>9, <1>10, <1>11, <1>12, <1>13,
     <1>14, <1>15, <1>16, <1>17, <1>18, <1>19, <1>20, <1>21, <1>22, <1>23
     DEF OwnStep, DependencyStep

-----------------------------------------------------------------------------
(* The other probes do not notice.                                         *)
LEMMA OthersKeep ==
    ASSUME NEW j \in Slots, Typed(j), SlotInv(j), Untouched(j), UNCHANGED runVars
    PROVE  Typed(j)' /\ SlotInv(j)'
<1>1. checks' = checks /\ done' = done /\ Meets(j)' = Meets(j) /\ (Healthy(j)' <=> Healthy(j))
  BY SameDependency
<1> USE <1>1 DEF Untouched
<1>2. Typed(j)'
  BY DEF Typed, Amounts, Values
<1>3. Placed(j)' /\ Reaped(j)'
  BY DEF SlotInv, Placed, Reaped, Idle
<1>4. Known(j)' /\ Copied(j)'
  BY DEF SlotInv, Known, Copied
<1>5. Passed(j)' /\ Smooth(j)'
  BY DEF SlotInv, Passed, Smooth, GoesWell, Unharmed, FrameComes
<1> QED BY <1>2, <1>3, <1>4, <1>5 DEF SlotInv

(* A step of a probe keeps the invariant of every slot.                    *)
LEMMA StepSlots ==
    ASSUME DoctorInv, NEW i \in Slots, Running(i), OwnStep(i) \/ DependencyStep(i)
    PROVE  DoctorInv'
<1>1. i \in DOMAIN checks /\ UNCHANGED runVars
  BY DEF Running
<1>2. OnSlots /\ \A j \in Slots : Typed(j)
  BY TypesAt DEF DoctorInv
<1>3. Deployed /\ ProbeTypes /\ \A j \in Slots : SlotInv(j)
  BY DEF DoctorInv
<1>4. Typed(i)'
  BY <1>1, <1>2, <1>3, StepAmounts, StepValues DEF Typed
<1>5. SlotInv(i)'
  <2>1. Placed(i)' /\ Reaped(i)' /\ Known(i)'
    BY <1>1, <1>2, <1>3, StepPlaced, StepReaped, StepKnown
  <2>2. Copied(i)' /\ Passed(i)' /\ Smooth(i)'
    BY <1>1, <1>2, <1>3, StepCopied, StepPassed, StepSmooth
  <2> QED BY <2>1, <2>2 DEF SlotInv
<1>6. \A j \in Slots : Typed(j)' /\ SlotInv(j)'
  <2> TAKE j \in Slots
  <2>1. CASE j = i
    BY <1>4, <1>5, <2>1
  <2>2. CASE j # i
    BY <1>1, <1>2, <1>3, <2>2, Apart, OthersKeep
  <2> QED BY <2>1, <2>2
<1>7. Deployed'
  BY <1>1, <1>3, SameDependency
<1>8. OnSlots'
  BY <1>2, StepOnSlots
<1>9. ProbeTypes'
  <2>1. command' = command /\ done' = done /\ checks' = checks
    BY <1>1 DEF runVars
  <2>2. /\ command' \in {"load", "running", "reported", "invalid"} /\ done' \in BOOLEAN
        /\ DOMAIN checks' \subseteq Slots
    BY <1>3, <2>1 DEF ProbeTypes, TypeOK
  <2> QED BY <1>6, <1>8, <2>2, TypesNext
<1> QED BY <1>6, <1>7, <1>9 DEF DoctorInv

(* No probe has started, nothing has been loaded.                          *)
LEMMA InitDoctor ==
    ASSUME Init
    PROVE  DoctorInv
<1>1. 0 \in 0..2 /\ 0 \in 0..Limit
  <2>1. Limit \in Nat
    BY DoctorAssumption
  <2> QED BY <2>1
<1>2. ProbeTypes
  <2>1. /\ at \in [Slots -> {"start", "request", "body", "query", "frame", "stopping",
                            "waiting", "draining", "run", "answered"}]
        /\ own \in [Slots -> BOOLEAN] /\ child \in [Slots -> ChildStates]
        /\ reader \in [Slots -> {"open", "closed"}]
        /\ copier \in [Slots -> {"none", "running", "ended"}]
    BY DEF Init, ChildStates
  <2>2. pipe \in [Slots -> 0..2] /\ buffer \in [Slots -> 0..Limit] /\ left \in [Slots -> Nat]
    BY <1>1 DEF Init
  <2>3. /\ failure = [i \in Slots |-> failure[i]] /\ result = [i \in Slots |-> result[i]]
        /\ \A i \in Slots : result[i] # "" <=> at[i] = "answered"
    BY DEF Init
  <2>4. checks = <<>> /\ command = "load" /\ done = FALSE
    BY DEF Init
  <2>5. DOMAIN checks \subseteq Slots
    BY <2>4
  <2> QED BY <2>1, <2>2, <2>3, <2>4, <2>5 DEF ProbeTypes, TypeOK
<1>3. Deployed
  BY DEF Init, Deployed
<1>4. ASSUME NEW i \in Slots PROVE SlotInv(i)
  <2>1. /\ at[i] = "start" /\ failure[i] = "" /\ ~own[i] /\ child[i] = "none" /\ left[i] = 0
        /\ pipe[i] = 0 /\ reader[i] = "open" /\ copier[i] = "none" /\ buffer[i] = 0 /\ result[i] = ""
    BY DEF Init
  <2>2. Placed(i) /\ Reaped(i)
    BY <2>1 DEF Placed, Reaped, Idle
  <2>3. Known(i) /\ Copied(i) /\ Passed(i) /\ Smooth(i)
    BY <2>1 DEF Known, Copied, Passed, Smooth, GoesWell, Unharmed, FrameComes
  <2> QED BY <2>2, <2>3 DEF SlotInv
<1> QED BY <1>2, <1>3, <1>4 DEF DoctorInv

(* LoadConfiguration fills the slots and touches no probe.                 *)
LEMMA LoadKeeps ==
    ASSUME DoctorInv, LoadConfiguration
    PROVE  DoctorInv'
<1>1. checks = <<>> /\ Deployed /\ ProbeTypes
  BY DEF DoctorInv, Deployed, LoadConfiguration
<1>2. Deployed'
  BY <1>1 DEF Deployed, LoadConfiguration
<1>3. \A i \in Slots : i \notin DOMAIN checks
  BY <1>1
<1>4. ASSUME NEW i \in Slots PROVE SlotInv(i)'
  <2>1. at[i] = "start" /\ Idle(i) /\ Typed(i)
    BY <1>1, <1>3, TypesAt DEF DoctorInv, SlotInv, Placed
  <2>2. Untouched(i) /\ done' = done
    BY DEF LoadConfiguration, probeVars, Untouched
  <2>3. /\ at'[i] = "start" /\ failure'[i] = "" /\ ~own'[i] /\ child'[i] = "none"
        /\ pipe'[i] = 0 /\ reader'[i] = "open" /\ copier'[i] = "none" /\ buffer'[i] = 0
        /\ result'[i] = ""
    BY <2>1, <2>2 DEF Untouched, Idle, Typed, Values
  <2>4. Placed(i)' /\ Reaped(i)'
    BY <2>3 DEF Placed, Reaped, Idle
  <2>5. Known(i)' /\ Copied(i)' /\ Passed(i)' /\ Smooth(i)'
    BY <2>3 DEF Known, Copied, Passed, Smooth, GoesWell, Unharmed, FrameComes
  <2> QED BY <2>4, <2>5 DEF SlotInv
<1>5. ProbeTypes'
  <2>1. DOMAIN checks' \subseteq Slots
    <3>1. CASE checks' = <<>>
      BY <3>1
    <3>2. CASE Load(document) = "" /\ checks' = LoadDoctor(document)
      BY <1>1, <3>2, DoctorAssumption DEF Deployed, Slots
    <3> QED BY <1>1, <3>1, <3>2 DEF LoadConfiguration
  <2>2. command' \in {"running", "invalid"} /\ done' = done /\ UNCHANGED probeVars
    BY DEF LoadConfiguration
  <2> QED BY <1>1, <2>1, <2>2 DEF ProbeTypes, TypeOK, probeVars
<1> QED BY <1>2, <1>4, <1>5 DEF DoctorInv

(* The deadline, the report and a stuttering step change no slot.          *)
LEMMA RestKeeps ==
    ASSUME DoctorInv, UNCHANGED <<document, world, checks, probeVars>>,
           \/ done' = done \/ done' = TRUE,
           \/ command' = command \/ (command = "running" /\ command' = "reported")
    PROVE  DoctorInv'
<1>1. Deployed'
  BY DEF DoctorInv, Deployed
<1>2. ProbeTypes'
  BY DEF DoctorInv, ProbeTypes, TypeOK, probeVars
<1>3. ASSUME NEW i \in Slots PROVE SlotInv(i)'
  <2>1. SlotInv(i) /\ Untouched(i)
    BY DEF DoctorInv, probeVars, Untouched
  <2>2. Meets(i)' = Meets(i) /\ (Healthy(i)' <=> Healthy(i)) /\ checks' = checks
    BY DEF Meets, Healthy, Serves
  <2> USE <2>1, <2>2 DEF Untouched
  <2>3. Placed(i)' /\ Reaped(i)'
    BY DEF SlotInv, Placed, Reaped, Idle
  <2>4. Known(i)' /\ Copied(i)'
    BY DEF SlotInv, Known, Copied
  <2>5. Passed(i)' /\ Smooth(i)'
    BY DEF SlotInv, Passed, Smooth, GoesWell, Unharmed, FrameComes
  <2> QED BY <2>3, <2>4, <2>5 DEF SlotInv
<1> QED BY <1>1, <1>2, <1>3 DEF DoctorInv

(* DoctorInv is inductive.                                                 *)
LEMMA NextDoctor ==
    ASSUME DoctorInv, [Next]_vars
    PROVE  DoctorInv'
<1>1. CASE LoadConfiguration
  BY <1>1, LoadKeeps
<1>2. CASE Deadline
  BY <1>2, RestKeeps DEF Deadline, probeVars
<1>3. CASE Report
  BY <1>3, RestKeeps DEF Report, probeVars
<1>4. CASE Finished \/ UNCHANGED vars
  BY <1>4, RestKeeps DEF Finished, vars, runVars
<1>5. ASSUME NEW i \in Slots, Running(i) /\ (OwnStep(i) \/ DependencyStep(i)) PROVE DoctorInv'
  BY <1>5, StepSlots
<1> QED BY <1>1, <1>2, <1>3, <1>4, <1>5 DEF Next

(* DoctorInv holds in every reachable state.                               *)
LEMMA SpecDoctor == Spec => []DoctorInv
<1>1. Init => DoctorInv
  BY InitDoctor
<1>2. DoctorInv /\ [Next]_vars => DoctorInv'
  BY NextDoctor
<1> QED BY <1>1, <1>2, PTL DEF Spec

-----------------------------------------------------------------------------
(* The state of the probes stays well formed, and a slot has a result      *)
(* exactly when its probe has answered.                                    *)
THEOREM TypeCorrect == Spec => []TypeOK
<1>1. DoctorInv => TypeOK
  BY DEF DoctorInv, ProbeTypes
<1> QED BY <1>1, SpecDoctor, PTL

(* On every early return of the OMP and the Docker probe the child has been *)
(* waited for and the copy of its output has ended.                        *)
THEOREM NothingIsLeft == Spec => []NothingLeft
<1>1. DoctorInv => NothingLeft
  <2> SUFFICES ASSUME DoctorInv, NEW i \in DOMAIN checks, at[i] = "answered"
               PROVE  child[i] # "running" /\ copier[i] # "running"
    BY DEF NothingLeft
  <2>1. i \in Slots
    BY ChecksFit DEF DoctorInv
  <2> QED BY <2>1 DEF DoctorInv, SlotInv, Reaped
<1> QED BY <1>1, SpecDoctor, PTL

(* A line says pass only of a dependency that did everything right, all of *)
(* whose output was read.                                                  *)
THEOREM PassesForCause == Spec => []PassedForCause
<1>1. DoctorInv => PassedForCause
  <2> SUFFICES ASSUME DoctorInv, NEW i \in DOMAIN checks, result[i] = "pass"
               PROVE  /\ Healthy(i)
                      /\ checks[i].kind \in {"omp", "docker"} => child[i] = "ok"
                      /\ buffer[i] = (IF checks[i].kind = "docker" THEN Meets(i).size ELSE 0)
    BY DEF PassedForCause
  <2>1. i \in Slots
    BY ChecksFit DEF DoctorInv
  <2> QED BY <2>1 DEF DoctorInv, SlotInv, Passed
<1> QED BY <1>1, SpecDoctor, PTL

(* Until the deadline a healthy dependency passes, whatever the others do. *)
THEOREM OwnLine == Spec => []OwnLineOnly
<1>1. DoctorInv => OwnLineOnly
  <2> SUFFICES ASSUME DoctorInv, NEW i \in DOMAIN checks, ~done, Healthy(i), at[i] = "answered"
               PROVE  result[i] = "pass"
    BY DEF OwnLineOnly
  <2>1. i \in Slots
    BY ChecksFit DEF DoctorInv
  <2> QED BY <2>1 DEF DoctorInv, SlotInv, Smooth, GoesWell, Unharmed
<1> QED BY <1>1, SpecDoctor, PTL

(* The service accepts what both decoders accept, keeps every protected    *)
(* path and allows nothing.                                                *)
LEMMA PolicyOfAccepted ==
    ASSUME Deployed
    PROVE  PolicyStands
<1>1. IsRequest(document.policy)
  BY DoctorAssumption DEF Deployed, IsDocument
<1>2. \A profile \in Profiles : IsRequest(profile.policy)
  BY DoctorAssumption
<1> SUFFICES ASSUME Load(document) = "", NEW profile \in Profiles, DecodeRepository(profile) = ""
             PROVE LET operator == Normalized(document.policy)
                       repository == Normalized(profile.policy)
                       policy == EffectivePolicy(operator, repository)
                   IN  /\ ServiceAccepts(operator, repository)
                       /\ \A path \in PathsOf(document.policy) \cup PathsOf(profile.policy) :
                            TrimSpace(path) \in policy.protectedPaths
                       /\ \A name \in DOMAIN policy.actions : policy.actions[name] = "deny"
  BY Zenon DEF PolicyStands
<1>3. ValidRequest(document.policy)
  BY LoadIs, Zenon
<1>4. ValidRequest(profile.policy)
  BY DecodeIs, Zenon
<1> QED BY <1>1, <1>2, <1>3, <1>4, PolicyOfBoth, Zenon

-----------------------------------------------------------------------------
(* The report is printed after every probe has answered, and its lines are *)
(* the slots of doctor.Run.                                                *)
Reported ==
    command = "reported" =>
        /\ \A i \in DOMAIN checks : at[i] = "answered"
        /\ report = [i \in DOMAIN checks |-> [id |-> checks[i].id, says |-> result[i]]]

(* No probe runs once the report is printed.                               *)
LEMMA SpecReported == Spec => []Reported
<1>1. Init => Reported
  BY DEF Init, Reported
<1>2. Reported /\ [Next]_vars => Reported'
  <2> SUFFICES ASSUME Reported, [Next]_vars PROVE Reported'
    OBVIOUS
  <2>1. CASE LoadConfiguration
    BY <2>1 DEF LoadConfiguration, Reported
  <2>2. CASE Deadline
    BY <2>2 DEF Deadline, Reported
  <2>3. CASE Report
    BY <2>3 DEF Report, Reported, Settled, probeVars
  <2>4. CASE Finished \/ UNCHANGED vars
    BY <2>4 DEF Finished, Reported, vars, runVars, probeVars
  <2>5. CASE \E i \in Slots : Running(i)
    BY <2>5 DEF Running, runVars, Reported
  <2> QED BY <2>1, <2>2, <2>3, <2>4, <2>5 DEF Next
<1> QED BY <1>1, <1>2, PTL DEF Spec

(* A report is one of a document that doctor has loaded.                   *)
LEMMA ReportedOf ==
    ASSUME DoctorInv, Reported, command = "reported"
    PROVE  /\ IsDocument(document) /\ Load(document) = "" /\ checks = LoadDoctor(document)
           /\ DOMAIN report = DOMAIN checks
           /\ \A i \in DOMAIN checks :
                /\ i \in Slots /\ at[i] = "answered"
                /\ report[i] = [id |-> checks[i].id, says |-> result[i]]
<1>1. IsDocument(document)
  BY DoctorAssumption DEF DoctorInv, Deployed
<1>2. Load(document) = "" /\ checks = LoadDoctor(document)
  BY DEF DoctorInv, Deployed
<1>3. DOMAIN checks \subseteq Slots
  BY ChecksFit DEF DoctorInv
<1>4. /\ report = [i \in DOMAIN checks |-> [id |-> checks[i].id, says |-> result[i]]]
      /\ \A i \in DOMAIN checks : at[i] = "answered"
  BY DEF Reported
<1> QED BY <1>1, <1>2, <1>3, <1>4

(* The report has one line for every instance and one for the store, no two *)
(* of the same name, and every line has a result.                          *)
THEOREM ReportsAll == Spec => []ReportComplete
<1>1. DoctorInv /\ Reported => ReportComplete
  <2> SUFFICES ASSUME DoctorInv, Reported, command = "reported"
               PROVE  /\ Len(report) = Cardinality(DOMAIN document.connectors)
                                       + Cardinality(DOMAIN document.workspaceProviders)
                                       + Cardinality(DOMAIN document.agentRuntimes) + 1
                      /\ \A i, j \in DOMAIN report : report[i].id = report[j].id => i = j
                      /\ \A i \in DOMAIN report : report[i].says # ""
    BY Zenon DEF ReportComplete
  <2>1. /\ IsDocument(document) /\ checks = LoadDoctor(document)
        /\ DOMAIN report = DOMAIN checks
        /\ \A i \in DOMAIN checks : /\ i \in Slots /\ at[i] = "answered"
                                    /\ report[i] = [id |-> checks[i].id, says |-> result[i]]
    BY ReportedOf
  <2>2. Len(report) = Cardinality(DOMAIN document.connectors)
                      + Cardinality(DOMAIN document.workspaceProviders)
                      + Cardinality(DOMAIN document.agentRuntimes) + 1
    <3> DEFINE n == Cardinality(DOMAIN document.connectors)
                    + Cardinality(DOMAIN document.workspaceProviders)
                    + Cardinality(DOMAIN document.agentRuntimes) + 1
               line(i) == [id |-> checks[i].id, says |-> result[i]]
    <3>1. n \in Nat /\ DOMAIN checks = 1..n
      <4>1. ChecksAre(document, checks)
        BY <2>1, ChecksOf
      <4>2. /\ Cardinality(DOMAIN document.connectors) \in Nat
            /\ Cardinality(DOMAIN document.workspaceProviders) \in Nat
            /\ Cardinality(DOMAIN document.agentRuntimes) \in Nat
        BY <4>1 DEF ChecksAre
      <4>3. DOMAIN checks = 1..n
        BY <4>1, Zenon DEF ChecksAre, FromFour
      <4> QED BY <4>2, <4>3
    <3>2. report = [i \in 1..n |-> line(i)]
      BY <3>1 DEF Reported
    <3> HIDE DEF n
    <3>3. report \in [1..n -> {line(i) : i \in 1..n}]
      BY <3>2
    <3>4. Len(report) = n
      BY <3>1, <3>3, IsList
    <3> QED BY <3>4 DEF n
  <2>3. ASSUME NEW i \in DOMAIN report, NEW j \in DOMAIN report, report[i].id = report[j].id
        PROVE  i = j
    <3>1. checks[i].id = checks[j].id
      BY <2>1, <2>3
    <3> QED BY <2>1, <3>1, IdsDiffer, Zenon
  <2>4. ASSUME NEW i \in DOMAIN report PROVE report[i].says # ""
    <3>1. i \in Slots /\ at[i] = "answered" /\ report[i].says = result[i]
      BY <2>1
    <3>2. Typed(i)
      BY <3>1, TypesAt DEF DoctorInv
    <3> QED BY <3>1, <3>2 DEF Typed, Values
  <2> QED BY <2>2, <2>3, <2>4
<1> QED BY <1>1, SpecDoctor, SpecReported, PTL

(* A line that is a pass is that of an instance of the right kind whose own *)
(* configuration has been decoded.                                         *)
LEMMA PassDecodes ==
    ASSUME DoctorInv, Reported, command = "reported", NEW i \in DOMAIN report,
           report[i].says = "pass"
    PROVE  /\ i \in DOMAIN checks /\ checks[i].kind # "failed" /\ report[i].id = checks[i].id
           /\ Healthy(i)
<1>1. /\ i \in DOMAIN checks /\ i \in Slots
      /\ report[i] = [id |-> checks[i].id, says |-> result[i]]
  BY ReportedOf
<1>2. Passed(i) /\ result[i] = "pass"
  BY <1>1 DEF DoctorInv, SlotInv
<1>3. Healthy(i)
  BY <1>2 DEF Passed
<1>4. checks[i].kind # "failed"
  BY <1>3 DEF Healthy
<1>5. report[i].id = checks[i].id
  BY <1>1
<1> QED BY <1>1, <1>3, <1>4, <1>5

(* What doctor loads `task show` can load, unless the version comes with a  *)
(* merge key.  With a pass of the store `task show` works on a state file  *)
(* and on nothing else; `task submit` is refused for a file that Open      *)
(* refuses and otherwise, with a pass of the connector, only for an        *)
(* unusable resource.                                                      *)
THEOREM Diagnoses == Spec => []DiagnosedStore
<1>1. DoctorInv /\ Reported => DiagnosedStore
  <2> SUFFICES ASSUME DoctorInv, Reported PROVE DiagnosedStore
    OBVIOUS
  <2> DEFINE Line(id) == \E i \in DOMAIN report : report[i] = [id |-> id, says |-> "pass"]
             db == world[<<"store", 0>>].says
             merged == document.versionKey = "merged"
  <2>1. IsDocument(document)
    BY DoctorAssumption DEF DoctorInv, Deployed
  <2>2. Load(document) = "" =>
          LoadStore(document) = IF merged THEN "configuration YAML is invalid" ELSE ""
    BY <2>1, StoreLoads
  <2>3. ASSUME command = "reported", NEW id, Line(id)
        PROVE  \E i \in DOMAIN checks :
                 /\ checks = LoadDoctor(document)
                 /\ checks[i].id = id /\ checks[i].kind # "failed" /\ Healthy(i)
    <3>1. PICK i \in DOMAIN report : report[i] = [id |-> id, says |-> "pass"]
      BY <2>3
    <3>2. report[i].id = id /\ report[i].says = "pass"
      BY <3>1
    <3>3. i \in DOMAIN checks /\ checks[i].kind # "failed" /\ report[i].id = checks[i].id
      BY <2>3, <3>2, PassDecodes
    <3>4. Healthy(i)
      BY <2>3, <3>2, PassDecodes
    <3>5. checks = LoadDoctor(document)
      BY <2>3, ReportedOf
    <3> QED BY <3>2, <3>3, <3>4, <3>5
  <2>4. command = "reported" => Load(document) = ""
    BY ReportedOf
  <2>5. ASSUME command = "reported", Line(<<"store", 0>>)
        PROVE  /\ document.store.kind = "sqlite" /\ document.store.decodes
               /\ db \in ReadAsDatabase
    <3> HIDE DEF Line
    <3>1. PICK i \in DOMAIN checks :
            /\ checks = LoadDoctor(document)
            /\ checks[i].id = <<"store", 0>> /\ checks[i].kind # "failed" /\ Healthy(i)
      BY <2>3, <2>5, Zenon
    <3>2. /\ document.store.kind = "sqlite" /\ document.store.decodes
          /\ checks[i].kind = "sqlite"
      BY <2>1, <2>4, <2>5, <3>1, CheckOfId, Zenon
    <3>3. db = Meets(i).says
      BY <3>1 DEF Meets
    <3>4. Meets(i).says \in ReadAsDatabase
      BY <3>1, <3>2, HealthyIs DEF DoctorInv
    <3> QED BY <3>2, <3>3, <3>4
  <2>6. ASSUME command = "reported", NEW n, Line(<<"connector", n>>)
        PROVE  document.connectors[n].kind = "github" /\ document.connectors[n].decodes
    <3> HIDE DEF Line
    <3>1. PICK i \in DOMAIN checks :
            /\ checks = LoadDoctor(document)
            /\ checks[i].id = <<"connector", n>> /\ checks[i].kind # "failed"
      BY <2>3, <2>6, Zenon
    <3> QED BY <2>1, <2>4, <2>6, <3>1, CheckOfId, Zenon
  <2>7. db \in ReadAsDatabase => /\ OpensReadOnly(db) <=> db = "state"
                                 /\ Opens(db) <=> db \notin RefusedByOpen
    BY DEF ReadAsDatabase, RefusedByOpen, OpensReadOnly, Opens
  <2>8. command = "reported" /\ Line(<<"store", 0>>) =>
          (Show(document, db) = "" <=> ~merged /\ db = "state")
    <3> SUFFICES ASSUME command = "reported", Line(<<"store", 0>>)
                 PROVE  Show(document, db) = "" <=> ~merged /\ db = "state"
      OBVIOUS
    <3> HIDE DEF Line, db
    <3>1. LoadStore(document) = IF merged THEN "configuration YAML is invalid" ELSE ""
      BY <2>2, <2>4
    <3>2. CASE merged
      <4>1. LoadStore(document) # ""
        BY <3>1, <3>2
      <4> QED BY <3>2, <4>1, ShowOpens
    <3>3. CASE ~merged
      <4>1. LoadStore(document) = ""
        BY <3>1, <3>3
      <4> QED BY <2>5, <2>7, <3>3, <4>1, ShowOpens
    <3> QED BY <3>2, <3>3
  <2>9. ASSUME command = "reported", Line(<<"store", 0>>), NEW n \in DOMAIN document.resources,
               Line(<<"connector", document.resources[n].connector>>)
        PROVE  IF db \in RefusedByOpen
               THEN Submit(document, n, db) # ""
               ELSE Submit(document, n, db) \in
                      {"", "resource is unsupported", "resource configuration is invalid"}
    <3> HIDE DEF Line, db
    <3>1. /\ Load(document) = "" /\ document.store.decodes
          /\ document.connectors[document.resources[n].connector].kind = "github"
          /\ document.connectors[document.resources[n].connector].decodes
      BY <2>4, <2>5, <2>6, <2>9, Zenon
    <3>2. Opens(db) <=> db \notin RefusedByOpen
      BY <2>5, <2>7, <2>9
    <3>3. CASE db \in RefusedByOpen
      BY <3>1, <3>2, <3>3, SubmitOpens
    <3>4. CASE db \notin RefusedByOpen
      BY <3>1, <3>2, <3>4, SubmitOpens
    <3> QED BY <3>3, <3>4
  <2> HIDE DEF Line, db, merged
  <2> QED BY <2>2, <2>8, <2>9, Zenon DEF DiagnosedStore, Line, db, merged
<1> QED BY <1>1, SpecDoctor, SpecReported, PTL

(* The service accepts the policies that both decoders accept, keeps every *)
(* protected path of either and allows nothing.                            *)
THEOREM PolicyIsKept == Spec => []PolicyStands
<1>1. DoctorInv => PolicyStands
  BY PolicyOfAccepted DEF DoctorInv
<1> QED BY <1>1, SpecDoctor, PTL
=============================================================================
