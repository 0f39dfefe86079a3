------------------------------ MODULE MCDoctor ------------------------------
(***************************************************************************)
(* Documents and dependencies for the runs of Doctor: documents that are    *)
(* refused, and documents that leave two or three probes alive.             *)
(***************************************************************************)
EXTENDS Doctor, TLC

Path(segments, padded) == [segments |-> segments, padded |-> padded]
Request(actions, paths) == [actions |-> actions, protectedPaths |-> paths]

NoRequest == Request(<<>>, <<>>)
Push(decision) == "git.push" :> decision

Adapter(kind, decodes) == 1 :> [kind |-> kind, decodes |-> decodes]

(* The adapters in live are usable; the others' own configuration is not.   *)
Document(live) ==
    [file |-> "ok", aliases |-> {}, interpolated |-> {}, unknown |-> {}, repeated |-> {},
     version |-> 1, versionKey |-> "plain", hasStore |-> TRUE,
     store |-> [kind |-> "sqlite", decodes |-> "sqlite" \in live],
     connectors |-> Adapter("github", "github" \in live),
     workspaceProviders |-> Adapter("docker", "docker" \in live),
     agentRuntimes |-> Adapter("omp", "omp" \in live),
     resources |-> 1 :> [kind |-> "repository", connector |-> 1, mapping |-> TRUE, decodes |-> TRUE],
     policy |-> Request(Push("allow"), <<Path(<<"src", "*.go">>, TRUE), Path(<<"doc", "**">>, FALSE)>>)]

(* Every way a document is refused or loaded, with no live probe but SQLite's. *)
Defects ==
    LET d == Document({"sqlite"})
    IN  {[d EXCEPT !.file = f] : f \in {"unreadable", "oversize", "malformed", "two documents"}}
        \cup {[d EXCEPT !.aliases = p] : p \in {{"projection"}, {"rest"}}}
        \cup {[d EXCEPT !.interpolated = {"rest"}], [d EXCEPT !.unknown = {"projection"}],
              [d EXCEPT !.repeated = {"rest"}], [d EXCEPT !.version = 2],
              [d EXCEPT !.versionKey = "merged"],
              [d EXCEPT !.version = 0, !.versionKey = "none"],
              [d EXCEPT !.hasStore = FALSE], [d EXCEPT !.connectors = <<>>],
              [d EXCEPT !.store.kind = "Bad"], [d EXCEPT !.store.kind = "unknown"],
              [d EXCEPT !.connectors = 0 :> [kind |-> "github", decodes |-> TRUE]],
              [d EXCEPT !.agentRuntimes[1].kind = "unknown"],
              [d EXCEPT !.resources[1].connector = 2],
              [d EXCEPT !.resources[1].kind = "unknown"],
              [d EXCEPT !.policy.actions = Push("maybe")]}
        \cup {[d EXCEPT !.policy.protectedPaths = paths] :
                paths \in {<<Path(<<"src">>, FALSE), Path(<<"src">>, TRUE)>>,
                           <<Path(<<"src", "a**">>, FALSE)>>, <<Path(<<"", "src">>, FALSE)>>}}

Profile(instructions, request, names) ==
    [wellFormed |-> TRUE, version |-> 1, instructions |-> instructions, policy |-> request,
     validation |-> [i \in DOMAIN names |-> [name |-> names[i], usable |-> TRUE]]]

MCProfiles ==
    {Profile(<<>>, NoRequest, <<>>),
     Profile(<<Path(<<"doc">>, TRUE)>>, Request(Push("allow"), <<Path(<<"doc", "**">>, TRUE)>>), <<"test">>),
     Profile(<<>>, Request(Push("deny"), <<Path(<<"src">>, FALSE), Path(<<"src">>, TRUE)>>), <<>>),
     Profile(<<Path(<<"doc", "**">>, FALSE)>>, NoRequest, <<>>),
     Profile(<<>>, NoRequest, <<"test", "test">>)}

Acts(local, says, exit, size, leaves) ==
    [local |-> local, says |-> says, exit |-> exit, size |-> size, leaves |-> leaves]

GitHubs ==
    {Acts("find", "identity", "ok", 0, FALSE)}
    \cup {Acts("none", says, "ok", 0, FALSE) : says \in Says["github"]}
    \cup {Acts("none", "identity", exit, 0, FALSE) : exit \in {"bad", "hang"}}

SQLites == {Acts("none", says, "ok", 0, FALSE) : says \in Says["sqlite"]}

OMPs ==
    {Acts(local, "protocol 1", "ok", 0, FALSE) : local \in {"find", "start", "close"}}
    \cup {Acts("none", "protocol 1", "ok", 2, leaves) : leaves \in BOOLEAN}
    \cup {Acts("none", "protocol 1", exit, 1, TRUE) : exit \in {"bad", "hang"}}
    \cup {Acts("none", says, "hang", 0, FALSE) :
            says \in {"protocol 2", "no protocol", "invalid", "nothing"}}
    \cup {Acts("none", "nothing", "bad", 0, leaves) : leaves \in BOOLEAN}

Dockers ==
    {Acts(local, "linux", "ok", 1, FALSE) : local \in {"find", "start"}}
    \cup {Acts("none", "linux", "ok", size, FALSE) : size \in 1..4}
    \cup {Acts("none", says, "ok", 1, FALSE) : says \in {"other OS", "invalid"}}
    \cup {Acts("none", "linux", "bad", 0, FALSE), Acts("none", "linux", "hang", 4, FALSE)}

World(github, docker, omp, sqlite) ==
    <<"connector", 1>> :> github @@ <<"workspace_provider", 1>> :> docker
    @@ <<"agent_runtime", 1>> :> omp @@ <<"store", 0>> :> sqlite

(* The dependencies of a deployment that is in order: a descendant of omp   *)
(* lingers, the output of docker fills the limit.                           *)
GitHub == Acts("none", "identity", "ok", 0, FALSE)
Docker == Acts("none", "linux", "ok", 2, FALSE)
OMP == Acts("none", "protocol 1", "ok", 1, TRUE)
SQLite == Acts("none", "state", "ok", 0, FALSE)

Over == Acts("none", "linux", "ok", 3, FALSE)
Silent == Acts("none", "identity", "hang", 0, FALSE)

Case(live, github, docker, omp, sqlite) ==
    [document |-> Document(live), world |-> World(github, docker, omp, sqlite)]

MCCases ==
    {[document |-> d, world |-> World(GitHub, Docker, OMP, SQLite)] : d \in Defects}
    \cup {Case({"docker", "omp"}, GitHub, Over, omp, SQLite) : omp \in OMPs}
    \cup {Case({"github", "docker"}, Silent, docker, OMP, SQLite) : docker \in Dockers}
    \cup {Case({"github", "sqlite"}, github, Docker, OMP, sqlite) : github \in GitHubs, sqlite \in SQLites}
    \cup {Case({"github", "docker", "omp", "sqlite"}, GitHub, Docker, OMP, SQLite)}

(* A docker executable that leaves a process behind.                        *)
Lingering ==
    {Case({"github", "docker"}, github, Acts("none", "linux", "ok", size, TRUE), OMP, SQLite) :
       github \in GitHubs, size \in 1..3}
=============================================================================
