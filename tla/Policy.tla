------------------------------- MODULE Policy -------------------------------
(***************************************************************************)
(* Policy requests of the operator and of a repository, and the effective   *)
(* policy of a task.  Both requests are normalised where their document is  *)
(* decoded and again by the task service, which then intersects them.       *)
(*                                                                          *)
(* A path is a sequence of segments that may have white space around it; a  *)
(* segment is one of the kinds the checks tell apart.                       *)
(***************************************************************************)
EXTENDS Naturals, Sequences

(* Two literal names, a glob, and the complete segment "**".                *)
Literals == {"src", "doc"}
Globs == {"*.go", "**"}

(* "" stands before a leading and after a trailing slash, and alone for the *)
(* empty text; then a "**" inside a segment, a pattern path.Match refuses,  *)
(* a backslash or NUL.                                                      *)
Refused == {"", ".", "..", "a**", "[", "\\"}

Segments == Literals \cup Globs \cup Refused

IsRequest(request) ==
    \A i \in DOMAIN request.protectedPaths :
        /\ request.protectedPaths[i] \in [segments : Seq(Segments), padded : BOOLEAN]
        /\ request.protectedPaths[i].segments # <<>>

TrimSpace(raw) == [raw EXCEPT !.padded = FALSE]

(* NormalizeProtectedPath and NormalizeInstructionPath return the trimmed   *)
(* path or an error.                                                        *)
ValidProtectedPath(raw) ==
    \A i \in DOMAIN raw.segments : raw.segments[i] \in Literals \cup Globs

ValidInstructionPath(raw) ==
    \A i \in DOMAIN raw.segments : raw.segments[i] \in Literals

(* Seeded fault: duplicates are looked for before the paths are trimmed.    *)
NoDuplicatesOfRaw(paths) ==
    \A i, j \in DOMAIN paths : paths[i] = paths[j] => i = j

(* No two paths are the same once they are trimmed.                         *)
NoDuplicates(paths) ==
    \A i, j \in DOMAIN paths : TrimSpace(paths[i]) = TrimSpace(paths[j]) => i = j

(* An action name matches actionNamePattern or is "Bad Name"; a decision is *)
(* "allow", "deny" or something else.                                       *)
ValidAction(name) == name # "Bad Name"

Decisions == {"allow", "deny"}

(* NormalizeRequest accepts the request; it returns Normalized then.        *)
ValidRequest(request) ==
    /\ \A name \in DOMAIN request.actions :
         ValidAction(name) /\ request.actions[name] \in Decisions
    /\ \A i \in DOMAIN request.protectedPaths :
         ValidProtectedPath(request.protectedPaths[i])
    /\ NoDuplicates(request.protectedPaths)

Normalized(request) ==
    [actions |-> request.actions,
     protectedPaths |-> [i \in DOMAIN request.protectedPaths |->
                           TrimSpace(request.protectedPaths[i])]]

PathsOf(request) ==
    {request.protectedPaths[i] : i \in DOMAIN request.protectedPaths}

(* The decision a layer's map has for a name: the zero value if it has none. *)
DecisionOf(request, name) ==
    IF name \in DOMAIN request.actions THEN request.actions[name] ELSE ""

(* Resolve: every action either layer mentions is denied unless both layers *)
(* and the task allow it; the protected paths are those of both.  The code  *)
(* sorts them, so the order of its maps does not show.                      *)
Resolve(operator, repository, taskAllowed) ==
    [defaultAction |-> "deny",
     actions |-> [name \in DOMAIN operator.actions \cup DOMAIN repository.actions |->
                    IF /\ DecisionOf(operator, name) = "allow"
                       /\ DecisionOf(repository, name) = "allow"
                       /\ name \in taskAllowed
                    THEN "allow" ELSE "deny"],
     protectedPaths |-> PathsOf(operator) \cup PathsOf(repository)]
=============================================================================
